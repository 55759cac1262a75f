-------------------------- MODULE CallProbesProofs --------------------------
(***************************************************************************)
(* Proofs about CallProbes, for any number of threads, calls, map entries  *)
(* and events, and from both initial states: podtrace attaching its        *)
(* programs one by one (Init) and everything attached (LoadedInit).        *)
(***************************************************************************)
EXTENDS CallProbes, TLAPS
-----------------------------------------------------------------------------
(* Facts about the keys and the maps. *)

(* The keys of two threads differ: the low half of a key is the thread id. *)
LEMMA KeyInjective ==
  ASSUME NEW t \in Threads, NEW u \in Threads, Key(t) = Key(u)
  PROVE  t = u
<1> DEFINE a == Tgid[t]
           b == Tgid[u]
<1>1. /\ Word \in Nat /\ t \in 1 .. Word - 1 /\ u \in 1 .. Word - 1
      /\ a \in Nat /\ b \in Nat
  BY BpfAssumption, CallAssumption
<1>2. a * Word + t = b * Word + u
  BY DEF Key, get_key
<1>3. ASSUME NEW x \in Nat, NEW y \in Nat, NEW r \in 1 .. Word - 1, NEW s \in 1 .. Word - 1,
             x < y
      PROVE  x * Word + r < y * Word + s
  <2>1. PICK d \in Nat : y = x + 1 + d
    <3>1. y - x - 1 \in Nat /\ y = x + 1 + (y - x - 1)
      BY <1>3
    <3> QED BY <3>1
  <2>2. y * Word = x * Word + Word + d * Word
    BY <2>1, <1>1
  <2>3. d * Word \in Nat /\ x * Word \in Nat
    BY <1>1
  <2> QED BY <2>2, <2>3, <1>1
<1>4. ~(a < b) /\ ~(b < a)
  <2> HIDE DEF a, b
  <2>1. a * Word + t \in Nat /\ b * Word + u \in Nat
    BY <1>1
  <2>2. ~(a < b)
    BY <1>1, <1>2, <1>3, <2>1
  <2>3. ~(b < a)
    BY <1>1, <1>2, <1>3, <2>1
  <2> QED BY <2>2, <2>3
<1>5. a = b
  <2> HIDE DEF a, b
  <2> QED BY <1>1, <1>4
<1> QED
  <2> HIDE DEF a, b
  <2>1. a * Word \in Nat
    BY <1>1
  <2> QED BY <1>1, <1>2, <1>5, <2>1

(* An update writes its own key or, if the map is full, nothing. *)
LEMMA UpdateOwn ==
  ASSUME NEW map, NEW key, NEW val
  PROVE  /\ key \in DOMAIN UpdateElem(map, key, val) => UpdateElem(map, key, val)[key] = val
         /\ key \in DOMAIN map => key \in DOMAIN UpdateElem(map, key, val)
         /\ DOMAIN UpdateElem(map, key, val) \subseteq DOMAIN map \cup {key}
BY DEF UpdateElem

(* An update leaves the entries of the other keys alone. *)
LEMMA UpdateOther ==
  ASSUME NEW map, NEW key, NEW val, NEW k, k # key
  PROVE  /\ k \in DOMAIN UpdateElem(map, key, val) <=> k \in DOMAIN map
         /\ k \in DOMAIN map => UpdateElem(map, key, val)[k] = map[k]
BY DEF UpdateElem

(* A deletion leaves the entries of the other keys alone. *)
LEMMA DeleteOther ==
  ASSUME NEW map, NEW key, NEW k, k # key
  PROVE  /\ k \in DOMAIN DeleteElem(map, key) <=> k \in DOMAIN map
         /\ k \in DOMAIN map => DeleteElem(map, key)[k] = map[k]
BY DEF DeleteElem

(* A deletion removes its own key. *)
LEMMA DeleteOwn ==
  ASSUME NEW map, NEW key
  PROVE  key \notin DOMAIN DeleteElem(map, key)
BY DEF DeleteElem

(* The latency is a number and, from a start in the past, the time since then. *)
LEMMA LatencyNat ==
  ASSUME NEW s \in Nat, NEW n \in Nat
  PROVE  /\ calc_latency(s, n) \in Nat
         /\ s <= n => calc_latency(s, n) = n - s
BY DEF calc_latency
-----------------------------------------------------------------------------
(* Type correctness. *)

(* The record of a call that is entered has the type of a call. *)
LEMMA NewCallType ==
  ASSUME NEW f \in Funcs, NEW arg \in Args(f), now \in Nat
  PROVE  NewCall(f, arg) \in Calls
<1>1. arg \in Names \cup {NULL}
  BY DEF Args
<1>2. (<<f, "entry">> \in attached) \in BOOLEAN /\ CanHook(f) \in BOOLEAN
  BY DEF CanHook
<1> QED BY <1>1, <1>2 DEF NewCall, Calls

(* The calls around a nested one keep everything but their history flag. *)
LEMMA AroundType ==
  ASSUME NEW calls \in Seq(Calls), NEW ran \in BOOLEAN
  PROVE  /\ Around(calls, ran) \in Seq(Calls)
         /\ Len(Around(calls, ran)) = Len(calls)
         /\ \A i \in DOMAIN calls :
              /\ Around(calls, ran)[i].func = calls[i].func
              /\ Around(calls, ran)[i].at = calls[i].at
              /\ Around(calls, ran)[i].probed = calls[i].probed
              /\ Around(calls, ran)[i].armed = calls[i].armed
              /\ Around(calls, ran)[i].arg = calls[i].arg
              /\ Around(calls, ran)[i].inner = (calls[i].inner \/ ran)
<1>1. DOMAIN calls = 1 .. Len(calls) /\ Len(calls) \in Nat
  OBVIOUS
<1>2. \A i \in 1 .. Len(calls) : calls[i] \in Calls
  OBVIOUS
<1>3. \A i \in 1 .. Len(calls) : [calls[i] EXCEPT !.inner = @ \/ ran] \in Calls
  <2> TAKE i \in 1 .. Len(calls)
  <2>1. (calls[i].inner \/ ran) \in BOOLEAN
    OBVIOUS
  <2> QED BY <1>2, <2>1 DEF Calls
<1>4. Around(calls, ran) = [i \in 1 .. Len(calls) |-> [calls[i] EXCEPT !.inner = @ \/ ran]]
  BY <1>1 DEF Around
<1>5. Around(calls, ran) \in Seq(Calls) /\ Len(Around(calls, ran)) = Len(calls)
  BY <1>1, <1>3, <1>4
<1> QED
  BY <1>1, <1>2, <1>4, <1>5 DEF Calls

(* Updates and deletions keep a map's keys in K and its values in V. *)
LEMMA MapTyped ==
  ASSUME NEW map, NEW K, NEW V, NEW key \in K, NEW val \in V,
         DOMAIN map \subseteq K, \A k \in DOMAIN map : map[k] \in V
  PROVE  /\ DOMAIN UpdateElem(map, key, val) \subseteq K
         /\ \A k \in DOMAIN UpdateElem(map, key, val) : UpdateElem(map, key, val)[k] \in V
         /\ DOMAIN DeleteElem(map, key) \subseteq K
         /\ \A k \in DOMAIN DeleteElem(map, key) : DeleteElem(map, key)[k] \in V
<1>1. /\ DOMAIN UpdateElem(map, key, val) \subseteq K
      /\ \A k \in DOMAIN UpdateElem(map, key, val) : UpdateElem(map, key, val)[k] \in V
  BY DEF UpdateElem
<1>2. /\ DOMAIN DeleteElem(map, key) \subseteq K
      /\ \A k \in DOMAIN DeleteElem(map, key) : DeleteElem(map, key)[k] \in V
  BY DEF DeleteElem
<1> QED BY <1>1, <1>2

(* What a program of t does to start_times keeps its type. *)
LEMMA StartTimesTyped ==
  ASSUME TypeOK, NEW t \in Threads
  PROVE  /\ DOMAIN UpdateElem(start_times, Key(t), now) \subseteq Keys
         /\ \A k \in DOMAIN UpdateElem(start_times, Key(t), now) :
              UpdateElem(start_times, Key(t), now)[k] \in Nat
         /\ DOMAIN DeleteElem(start_times, Key(t)) \subseteq Keys
         /\ \A k \in DOMAIN DeleteElem(start_times, Key(t)) :
              DeleteElem(start_times, Key(t))[k] \in Nat
<1>1. Key(t) \in Keys
  BY DEF Keys
<1>2. /\ DOMAIN start_times \subseteq Keys /\ now \in Nat
      /\ \A k \in DOMAIN start_times : start_times[k] \in Nat
  BY DEF TypeOK
<1> QED BY <1>1, <1>2, MapTyped

(* What a program of t does to dns_targets keeps its type. *)
LEMMA DnsTargetsTyped ==
  ASSUME TypeOK, NEW t \in Threads, NEW name \in Names \cup {""}
  PROVE  /\ DOMAIN UpdateElem(dns_targets, Key(t), name) \subseteq Keys
         /\ \A k \in DOMAIN UpdateElem(dns_targets, Key(t), name) :
              UpdateElem(dns_targets, Key(t), name)[k] \in Names \cup {""}
         /\ DOMAIN DeleteElem(dns_targets, Key(t)) \subseteq Keys
         /\ \A k \in DOMAIN DeleteElem(dns_targets, Key(t)) :
              DeleteElem(dns_targets, Key(t))[k] \in Names \cup {""}
<1>1. Key(t) \in Keys
  BY DEF Keys
<1>2. /\ DOMAIN dns_targets \subseteq Keys
      /\ \A k \in DOMAIN dns_targets : dns_targets[k] \in Names \cup {""}
  BY DEF TypeOK
<1> QED BY <1>1, <1>2, MapTyped

(* A return program that finds an entry reports a well-formed event. *)
LEMMA EventTyped ==
  ASSUME TypeOK, NEW t \in Threads, Key(t) \in DOMAIN start_times,
         NEW call \in Calls, NEW target \in Targets(t, call.func)
  PROVE  Event(t, call, target) \in Events
<1>1. Tgid[t] \in Nat
  BY CallAssumption, BpfAssumption
<1>2. EventType(call.func) \in EventTypes
  BY DEF EventType, EventTypes
<1>3. target \in Names \cup {""}
  BY DEF Targets, TypeOK
<1>4. calc_latency(start_times[Key(t)], now) \in Nat /\ now \in Nat
  BY LatencyNat DEF TypeOK
<1> QED BY <1>1, <1>2, <1>3, <1>4 DEF Event, Events

(* The ring buffer keeps its old events and gets the new one or loses it. *)
LEMMA RingTyped ==
  ASSUME events \in Seq(Events), NEW e \in Events
  PROVE  /\ RingOutput(events, e) \in Seq(Events)
         /\ \A i \in DOMAIN RingOutput(events, e) :
              \/ i \in DOMAIN events /\ RingOutput(events, e)[i] = events[i]
              \/ RingOutput(events, e)[i] = e
BY DEF RingOutput

(* Both initial states have the types. *)
THEOREM TypeInit == Init \/ LoadedInit => TypeOK
<1>1. DOMAIN <<>> = {} /\ <<>> \in Seq(Events) /\ <<>> \in Seq(Calls)
  OBVIOUS
<1> SUFFICES ASSUME Init \/ LoadedInit PROVE TypeOK
  OBVIOUS
<1>2. /\ attached \in {{}, Programs} /\ now = 0 /\ start_times = <<>> /\ dns_targets = <<>>
      /\ events = <<>> /\ stack = [t \in Threads |-> <<>>] /\ mismatched = {} /\ killed = {}
  BY DEF Init, LoadedInit
<1> QED BY <1>1, <1>2 DEF TypeOK

(* Every step keeps the types: attaching, calls and their programs, death of a *)
(* thread, reading of an event, passing of time.                               *)
THEOREM TypeNext == TypeOK /\ [Next]_vars => TypeOK'
<1> SUFFICES ASSUME TypeOK, [Next]_vars PROVE TypeOK'
  OBVIOUS
<1> USE DEF vars, maps
<1>1. ASSUME NEW p \in Programs, Attach(p) PROVE TypeOK'
  BY <1>1 DEF Attach, TypeOK
<1>2. ASSUME NEW t \in Threads, NEW f \in Funcs, NEW arg \in Args(f), Enter(t, f, arg)
      PROVE  TypeOK'
  <2> DEFINE call == NewCall(f, arg)
             around == Around(stack[t], call.probed)
  <2>1. call \in Calls
    BY NewCallType DEF TypeOK
  <2>2. around \in Seq(Calls)
    BY <2>1, AroundType DEF TypeOK, Calls
  <2>3. stack' = [stack EXCEPT ![t] = Append(around, call)]
    BY <1>2 DEF Enter
  <2>4. stack' \in [Threads -> Seq(Calls)]
    <3>1. Append(around, call) \in Seq(Calls)
      <4> HIDE DEF call, around
      <4> QED BY <2>1, <2>2
    <3> QED BY <2>3, <3>1 DEF TypeOK
  <2>5. /\ DOMAIN start_times' \subseteq Keys
        /\ \A k \in DOMAIN start_times' : start_times'[k] \in Nat
    <3>1. start_times' \in {start_times, UpdateElem(start_times, Key(t), now)}
      BY <1>2 DEF Enter, EntryProgram
    <3> QED BY <3>1, StartTimesTyped DEF TypeOK
  <2>6. /\ DOMAIN dns_targets' \subseteq Keys
        /\ \A k \in DOMAIN dns_targets' : dns_targets'[k] \in Names \cup {""}
    <3>1. CASE UNCHANGED dns_targets
      BY <3>1 DEF TypeOK
    <3>2. CASE /\ f = "getaddrinfo" /\ arg # NULL
               /\ \E name \in {arg, ""} : dns_targets' = UpdateElem(dns_targets, Key(t), name)
      <4>1. arg \in Names
        BY <3>2 DEF Args
      <4> QED BY <3>2, <4>1, DnsTargetsTyped
    <3> QED BY <1>2, <3>1, <3>2 DEF Enter, EntryProgram
  <2> QED BY <1>2, <2>4, <2>5, <2>6 DEF Enter, TypeOK
<1>3. ASSUME NEW t \in Threads, Return(t) PROVE TypeOK'
  <2>1. Top(t) \in Calls
    <3>1. stack[t] \in Seq(Calls)
      BY DEF TypeOK
    <3>2. stack[t] # <<>>
      BY <1>3 DEF Return
    <3> QED BY <3>1, <3>2 DEF Top
  <2>2. stack' \in [Threads -> Seq(Calls)]
    <3>1. SubSeq(stack[t], 1, Len(stack[t]) - 1) \in Seq(Calls)
      <4>1. stack[t] \in Seq(Calls)
        BY DEF TypeOK
      <4>2. \A i \in 1 .. Len(stack[t]) - 1 : stack[t][i] \in Calls
        BY <4>1
      <4> QED BY <4>1, <4>2
    <3> QED BY <1>3, <3>1 DEF Return, TypeOK
  <2>3. CASE UNCHANGED <<maps, events>>
    BY <1>3, <2>2, <2>3 DEF Return, TypeOK
  <2>4. CASE ReturnProgram(t, Top(t)) /\ ~UNCHANGED <<maps, events>>
    <3>1. /\ Key(t) \in DOMAIN start_times
          /\ start_times' = DeleteElem(start_times, Key(t))
          /\ dns_targets' \in {dns_targets, DeleteElem(dns_targets, Key(t))}
          /\ \/ events' = events
             \/ \E target \in Targets(t, Top(t).func) :
                  events' = RingOutput(events, Event(t, Top(t), target))
      BY <2>4 DEF ReturnProgram
    <3>2. events' \in Seq(Events)
      BY <2>1, <3>1, EventTyped, RingTyped DEF TypeOK
    <3> QED BY <1>3, <2>2, <3>1, <3>2, StartTimesTyped, DnsTargetsTyped DEF Return, TypeOK
  <2> QED BY <1>3, <2>3, <2>4 DEF Return
<1>4. ASSUME NEW t \in Threads, Kill(t) PROVE TypeOK'
  <2>1. <<>> \in Seq(Calls)
    OBVIOUS
  <2>2. stack' \in [Threads -> Seq(Calls)]
    BY <1>4, <2>1 DEF Kill, TypeOK
  <2>3. killed' \subseteq Threads
    BY <1>4 DEF Kill, TypeOK
  <2> QED BY <1>4, <2>2, <2>3 DEF Kill, TypeOK
<1>5. CASE Consume
  <2>1. events' \in Seq(Events)
    <3>1. events \in Seq(Events)
      BY DEF TypeOK
    <3>2. events # <<>> /\ events' = Tail(events)
      BY <1>5 DEF Consume
    <3> QED BY <3>1, <3>2
  <2> QED BY <1>5, <2>1 DEF Consume, TypeOK
<1>6. CASE Tick
  <2>1. now' \in Nat
    <3>1. now \in Nat
      BY DEF TypeOK
    <3>2. now' = now + 1
      BY <1>6 DEF Tick
    <3> QED BY <3>1, <3>2
  <2> QED BY <1>6, <2>1 DEF Tick, TypeOK
<1>7. CASE UNCHANGED vars
  BY <1>7 DEF TypeOK
<1> QED BY <1>1, <1>2, <1>3, <1>4, <1>5, <1>6, <1>7 DEF Next

(* TypeOK holds while the programs are attached one by one ... *)
THEOREM TypeCorrect == Spec => []TypeOK
BY TypeInit, TypeNext, PTL DEF Spec

(* ... and when everything is attached before the first call. *)
THEOREM LoadedTypeCorrect == LoadedSpec => []TypeOK
BY TypeInit, TypeNext, PTL DEF LoadedSpec
-----------------------------------------------------------------------------
(* The inductive invariant.  OwnLatency and InnermostOnly speak of the events   *)
(* in the ring buffer; that they stay true needs to know whose time the slot of *)
(* every thread holds, at every moment of its nested calls.                     *)

(* Call i is the innermost call of t whose entry program ran. *)
LastProbed(t, i) ==
  /\ i \in DOMAIN stack[t]
  /\ stack[t][i].probed
  /\ \A j \in DOMAIN stack[t] : j > i => ~stack[t][j].probed

(* Both programs or neither run for a call of t; and if the slot of t is filled, *)
(* it holds the start of the innermost call whose entry program ran.             *)
Paired(t) == \A i \in DOMAIN stack[t] : stack[t][i].probed <=> stack[t][i].armed
Owned(t) ==
  Key(t) \in DOMAIN start_times =>
    /\ \A i \in DOMAIN stack[t] :
         LastProbed(t, i) => start_times[Key(t)] = stack[t][i].at /\ ~stack[t][i].inner
    /\ t \notin killed => \E i \in DOMAIN stack[t] : stack[t][i].probed
Slot(t) == Paired(t) /\ Owned(t)
SlotInv == \A t \in Threads \ mismatched : Slot(t)

(* No call started in the future. *)
PastInv == \A t \in Threads : \A i \in DOMAIN stack[t] : stack[t][i].at <= now

(* An event of a thread that is not mismatched tells the truth about its call. *)
Truthful(e) ==
  e.thread \notin mismatched => e.latency_ns = e.timestamp - e.call.at /\ ~e.call.inner
EventInv == \A i \in DOMAIN events : Truthful(events[i])

IInv == TypeOK /\ SlotInv /\ PastInv /\ EventInv

(* A step that leaves the calls and the slot of t alone preserves Slot(t). *)
LEMMA SlotFrame ==
  ASSUME NEW t \in Threads, Slot(t), stack'[t] = stack[t], t \in killed => t \in killed',
         Key(t) \in DOMAIN start_times' =>
           /\ Key(t) \in DOMAIN start_times
           /\ start_times'[Key(t)] = start_times[Key(t)]
  PROVE  Slot(t)'
BY DEF Slot, Paired, Owned, LastProbed, Key

(* The programs of t do not touch the slots of the other threads. *)
LEMMA OtherSlots ==
  ASSUME NEW t \in Threads, NEW u \in Threads, u # t,
         start_times' \in {start_times, UpdateElem(start_times, Key(t), now),
                           DeleteElem(start_times, Key(t))}
  PROVE  Key(u) \in DOMAIN start_times' =>
           /\ Key(u) \in DOMAIN start_times
           /\ start_times'[Key(u)] = start_times[Key(u)]
<1>1. Key(u) # Key(t)
  BY KeyInjective
<1>2. CASE start_times' = UpdateElem(start_times, Key(t), now)
  BY <1>1, <1>2, UpdateOther
<1>3. CASE start_times' = DeleteElem(start_times, Key(t))
  BY <1>1, <1>3, DeleteOther
<1> QED BY <1>2, <1>3

(* Entering a call: its entry program takes the slot for the new innermost call, *)
(* or nothing of t is probed and the slot stays the outer call's.                *)
LEMMA EnterSlot ==
  ASSUME IInv, NEW t \in Threads, NEW f \in Funcs, NEW arg \in Args(f), Enter(t, f, arg),
         t \notin mismatched'
  PROVE  Slot(t)'
<1> DEFINE call == NewCall(f, arg)
           n == Len(stack[t])
           around == Around(stack[t], call.probed)
<1>1. /\ call \in Calls /\ call.at = now /\ call.inner = FALSE
      /\ call.probed \in BOOLEAN /\ call.armed \in BOOLEAN
  BY NewCallType DEF IInv, TypeOK, NewCall, Calls
<1>2. /\ stack[t] \in Seq(Calls) /\ n \in Nat /\ DOMAIN stack[t] = 1 .. n
      /\ \A i \in 1 .. n : stack[t][i] \in Calls
  <2>1. stack[t] \in Seq(Calls)
    BY DEF IInv, TypeOK
  <2> QED BY <2>1
<1>3. /\ around \in Seq(Calls) /\ Len(around) = n
      /\ \A i \in 1 .. n : /\ around[i].at = stack[t][i].at
                           /\ around[i].probed = stack[t][i].probed
                           /\ around[i].armed = stack[t][i].armed
                           /\ around[i].inner = (stack[t][i].inner \/ call.probed)
  BY <1>1, <1>2, AroundType
<1>4. stack'[t] = Append(around, call)
  BY DEF Enter, IInv, TypeOK
<1> HIDE DEF call, around, n
<1>5. /\ DOMAIN stack'[t] = 1 .. n + 1
      /\ stack'[t][n + 1] = call
      /\ \A i \in 1 .. n : stack'[t][i] = around[i]
  BY <1>1, <1>2, <1>3, <1>4
<1>6. call.probed <=> call.armed
  BY <1>1 DEF Enter, call
<1>7. t \notin mismatched /\ Slot(t)
  BY DEF Enter, IInv, SlotInv
<1>8. Paired(t)'
  BY <1>2, <1>3, <1>5, <1>6, <1>7 DEF Slot, Paired
<1>9. Owned(t)'
  <2>1. CASE call.probed
    <3>1. start_times' = UpdateElem(start_times, Key(t), now)
      BY <2>1 DEF Enter, EntryProgram, call
    <3>2. Key(t) \in DOMAIN start_times' => start_times'[Key(t)] = now
      BY <3>1, UpdateOwn
    <3>3. ASSUME NEW i \in DOMAIN stack'[t], LastProbed(t, i)' PROVE i = n + 1
      <4>1. n \in Nat /\ i \in 1 .. n + 1 /\ n + 1 \in DOMAIN stack'[t]
        BY <1>2, <1>5
      <4>2. stack'[t][n + 1].probed
        BY <1>5, <2>1
      <4>3. ~(n + 1 > i)
        BY <3>3, <4>1, <4>2 DEF LastProbed
      <4> QED BY <4>1, <4>3
    <3> QED BY <1>1, <1>2, <1>5, <2>1, <3>2, <3>3 DEF Owned, Key
  <2>2. CASE ~call.probed
    <3>1. start_times' = start_times /\ killed' = killed
      BY <2>2 DEF Enter, call, maps
    <3>2. ASSUME NEW i \in DOMAIN stack'[t], LastProbed(t, i)'
          PROVE  i \in 1 .. n /\ LastProbed(t, i)
      BY <1>2, <1>3, <1>5, <2>2, <3>2 DEF LastProbed
    <3>3. \A i \in 1 .. n : around[i].inner = stack[t][i].inner
      <4> TAKE i \in 1 .. n
      <4>1. stack[t][i].inner \in BOOLEAN
        BY <1>2 DEF Calls
      <4> QED BY <1>3, <2>2, <4>1
    <3>4. Owned(t)
      BY <1>7 DEF Slot
    <3>5. \A i \in DOMAIN stack[t] : stack[t][i].probed => stack'[t][i].probed
      BY <1>2, <1>3, <1>5
    <3> QED BY <1>2, <1>3, <1>5, <3>1, <3>2, <3>3, <3>4, <3>5 DEF Owned, Key
  <2> QED BY <2>1, <2>2
<1> QED BY <1>8, <1>9 DEF Slot

(* What a return does to the calls and the slot of t. *)
LEMMA ReturnEffect ==
  ASSUME IInv, NEW t \in Threads, Return(t)
  PROVE  /\ stack[t] \in Seq(Calls) /\ Len(stack[t]) \in Nat \ {0}
         /\ DOMAIN stack[t] = 1 .. Len(stack[t])
         /\ stack'[t] = SubSeq(stack[t], 1, Len(stack[t]) - 1)
         /\ DOMAIN stack'[t] = 1 .. Len(stack[t]) - 1
         /\ \A i \in 1 .. Len(stack[t]) - 1 : stack'[t][i] = stack[t][i]
         /\ Top(t) = stack[t][Len(stack[t])] /\ Top(t) \in Calls
         /\ Top(t).armed => Key(t) \notin DOMAIN start_times'
         /\ ~Top(t).armed => start_times' = start_times /\ events' = events
<1>1. stack[t] \in Seq(Calls)
  BY DEF IInv, TypeOK
<1>2. stack[t] # <<>>
  BY DEF Return
<1>3. stack'[t] = SubSeq(stack[t], 1, Len(stack[t]) - 1)
  BY DEF Return, IInv, TypeOK
<1>4. /\ Len(stack[t]) \in Nat \ {0}
      /\ DOMAIN stack[t] = 1 .. Len(stack[t])
      /\ stack[t][Len(stack[t])] \in Calls
  BY <1>1, <1>2
<1>5. /\ DOMAIN stack'[t] = 1 .. Len(stack[t]) - 1
      /\ \A i \in 1 .. Len(stack[t]) - 1 : stack'[t][i] = stack[t][i]
  BY <1>1, <1>3, <1>4
<1>6. Top(t).armed => Key(t) \notin DOMAIN start_times'
  BY DeleteOwn DEF Return, ReturnProgram, maps
<1>7. ~Top(t).armed => start_times' = start_times /\ events' = events
  BY DEF Return, maps
<1> QED BY <1>1, <1>3, <1>4, <1>5, <1>6, <1>7 DEF Top

(* Returning from a call: the return program has emptied the slot, or the call  *)
(* had no programs and the slot stays the one of the calls around it.           *)
LEMMA ReturnSlot ==
  ASSUME IInv, NEW t \in Threads, Return(t), t \notin mismatched'
  PROVE  Slot(t)'
<1> DEFINE n == Len(stack[t])
<1>1. t \notin mismatched /\ Slot(t) /\ killed' = killed
  BY DEF Return, IInv, SlotInv
<1>2. /\ n \in Nat \ {0} /\ DOMAIN stack[t] = 1 .. n /\ DOMAIN stack'[t] = 1 .. n - 1
      /\ \A i \in 1 .. n - 1 : stack'[t][i] = stack[t][i]
      /\ Top(t) = stack[t][n]
  BY ReturnEffect
<1> HIDE DEF n
<1>3. Paired(t)'
  BY <1>1, <1>2 DEF Slot, Paired
<1>4. Owned(t)'
  <2>1. CASE Top(t).armed
    <3>1. Key(t) \notin DOMAIN start_times'
      BY <2>1, ReturnEffect
    <3> QED BY <3>1 DEF Owned, Key
  <2>2. CASE ~Top(t).armed
    <3>1. start_times' = start_times
      BY <2>2, ReturnEffect
    <3>2. ~stack[t][n].probed
      BY <1>1, <1>2, <2>2 DEF Slot, Paired
    <3>3. ASSUME NEW i \in DOMAIN stack'[t], LastProbed(t, i)'
          PROVE  i \in 1 .. n - 1 /\ LastProbed(t, i)
      BY <1>2, <3>2, <3>3 DEF LastProbed
    <3>4. (\E i \in DOMAIN stack[t] : stack[t][i].probed)
            => \E i \in DOMAIN stack'[t] : stack'[t][i].probed
      BY <1>2, <3>2
    <3> QED BY <1>1, <1>2, <3>1, <3>3, <3>4 DEF Slot, Owned, Key
  <2> QED BY <2>1, <2>2
<1> QED BY <1>3, <1>4 DEF Slot

(* The event of a return tells the truth, unless the thread is mismatched. *)
LEMMA ReturnEvents ==
  ASSUME IInv, NEW t \in Threads, Return(t)
  PROVE  EventInv'
<1>1. events \in Seq(Events) /\ mismatched' = mismatched
  BY DEF IInv, TypeOK, Return
<1>2. CASE events' = events
  BY <1>1, <1>2 DEF IInv, EventInv, Truthful
<1>3. ASSUME NEW target \in Targets(t, Top(t).func), Top(t).armed,
             Key(t) \in DOMAIN start_times,
             events' = RingOutput(events, Event(t, Top(t), target))
      PROVE  EventInv'
  <2> DEFINE e == Event(t, Top(t), target)
             n == Len(stack[t])
  <2>1. /\ n \in Nat \ {0} /\ DOMAIN stack[t] = 1 .. n
        /\ Top(t) = stack[t][n] /\ Top(t) \in Calls
    BY ReturnEffect
  <2>2. e \in Events
    BY <1>3, <2>1, EventTyped DEF IInv
  <2>3. Truthful(e)
    <3> SUFFICES ASSUME t \notin mismatched
                 PROVE  e.latency_ns = e.timestamp - Top(t).at /\ ~Top(t).inner
      BY DEF Truthful, Event
    <3>1. Slot(t)
      BY DEF IInv, SlotInv
    <3>2. LastProbed(t, n)
      BY <1>3, <2>1, <3>1 DEF Slot, Paired, LastProbed
    <3>3. start_times[Key(t)] = Top(t).at /\ ~Top(t).inner
      BY <1>3, <2>1, <3>1, <3>2 DEF Slot, Owned
    <3>4. Top(t).at <= now /\ Top(t).at \in Nat /\ now \in Nat
      <4>1. Top(t).at \in Nat
        BY <2>1 DEF Calls
      <4>2. Top(t).at <= now
        BY <2>1 DEF IInv, PastInv
      <4>3. now \in Nat
        BY DEF IInv, TypeOK
      <4> QED BY <4>1, <4>2, <4>3
    <3> QED BY <3>3, <3>4, LatencyNat DEF Event
  <2> HIDE DEF e
  <2>4. \A i \in DOMAIN events' : Truthful(events'[i])
    BY <1>1, <1>3, <2>2, <2>3, RingTyped DEF IInv, EventInv, e
  <2> QED BY <1>1, <2>4 DEF EventInv, Truthful
<1> QED BY <1>2, <1>3 DEF Return, ReturnProgram

(* Nothing is in progress at first, so the inductive invariant holds. *)
THEOREM IInvInit == Init \/ LoadedInit => IInv
<1> SUFFICES ASSUME Init \/ LoadedInit PROVE IInv
  OBVIOUS
<1>1. /\ DOMAIN <<>> = {}
      /\ start_times = <<>> /\ events = <<>> /\ stack = [t \in Threads |-> <<>>]
  BY DEF Init, LoadedInit
<1>2. SlotInv /\ PastInv /\ EventInv
  BY <1>1 DEF SlotInv, Slot, Paired, Owned, PastInv, EventInv
<1> QED BY <1>2, TypeInit DEF IInv

(* Every step keeps the inductive invariant: the programs of a thread disturb   *)
(* only that thread's slot, and only Return adds an event.                      *)
THEOREM IInvNext == IInv /\ [Next]_vars => IInv'
<1> SUFFICES ASSUME IInv, [Next]_vars PROVE SlotInv' /\ PastInv' /\ EventInv'
  BY TypeNext DEF IInv
<1>1. ASSUME NEW p \in Programs, Attach(p) PROVE SlotInv' /\ PastInv' /\ EventInv'
  BY <1>1, SlotFrame DEF Attach, maps, IInv, SlotInv, PastInv, EventInv, Truthful
<1>2. ASSUME NEW t \in Threads, NEW f \in Funcs, NEW arg \in Args(f), Enter(t, f, arg)
      PROVE  SlotInv' /\ PastInv' /\ EventInv'
  <2>1. ASSUME NEW u \in Threads \ mismatched' PROVE Slot(u)'
    <3>1. CASE u = t
      BY <1>2, <2>1, <3>1, EnterSlot
    <3>2. CASE u # t
      <4>1. Slot(u) /\ stack'[u] = stack[u] /\ killed' = killed
        BY <1>2, <2>1, <3>2 DEF Enter, IInv, SlotInv, TypeOK
      <4>2. start_times' \in {start_times, UpdateElem(start_times, Key(t), now)}
        BY <1>2 DEF Enter, EntryProgram, maps
      <4> QED BY <2>1, <3>2, <4>1, <4>2, OtherSlots, SlotFrame
    <3> QED BY <3>1, <3>2
  <2>2. PastInv'
    <3> DEFINE call == NewCall(f, arg)
               around == Around(stack[t], call.probed)
    <3>1. /\ stack' = [stack EXCEPT ![t] = Append(around, call)]
          /\ now' = now
      BY <1>2 DEF Enter
    <3>2. stack[t] \in Seq(Calls) /\ now \in Nat /\ stack \in [Threads -> Seq(Calls)]
      BY DEF IInv, TypeOK
    <3>3. call \in Calls /\ call.at = now /\ call.probed \in BOOLEAN
      BY <3>2, NewCallType DEF NewCall, Calls
    <3>4. /\ around \in Seq(Calls) /\ Len(around) = Len(stack[t])
          /\ \A i \in DOMAIN stack[t] : around[i].at = stack[t][i].at
      BY <3>2, <3>3, AroundType
    <3> HIDE DEF call, around
    <3>5. ASSUME NEW i \in DOMAIN Append(around, call)
          PROVE  Append(around, call)[i].at <= now
      <4>1. CASE i = Len(stack[t]) + 1
        BY <3>2, <3>3, <3>4, <4>1
      <4>2. CASE i \in DOMAIN stack[t]
        <5>1. Append(around, call)[i] = around[i]
          BY <3>2, <3>3, <3>4, <4>2
        <5> QED BY <3>4, <4>2, <5>1 DEF IInv, PastInv
      <4> QED BY <3>2, <3>3, <3>4, <3>5, <4>1, <4>2
    <3> QED BY <3>1, <3>2, <3>5 DEF IInv, PastInv
  <2>3. EventInv'
    BY <1>2 DEF Enter, IInv, EventInv, Truthful
  <2> QED BY <2>1, <2>2, <2>3 DEF SlotInv
<1>3. ASSUME NEW t \in Threads, Return(t) PROVE SlotInv' /\ PastInv' /\ EventInv'
  <2>1. ASSUME NEW u \in Threads \ mismatched' PROVE Slot(u)'
    <3>1. CASE u = t
      BY <1>3, <2>1, <3>1, ReturnSlot
    <3>2. CASE u # t
      <4>1. Slot(u) /\ stack'[u] = stack[u] /\ killed' = killed
        BY <1>3, <2>1, <3>2 DEF Return, IInv, SlotInv, TypeOK
      <4>2. start_times' \in {start_times, DeleteElem(start_times, Key(t))}
        BY <1>3 DEF Return, ReturnProgram, maps
      <4> QED BY <2>1, <3>2, <4>1, <4>2, OtherSlots, SlotFrame
    <3> QED BY <3>1, <3>2
  <2>2. PastInv'
    <3>1. stack' = [stack EXCEPT ![t] = SubSeq(stack[t], 1, Len(stack[t]) - 1)] /\ now' = now
      BY <1>3 DEF Return
    <3>2. ASSUME NEW i \in DOMAIN stack'[t] PROVE stack'[t][i].at <= now
      BY <1>3, <3>2, ReturnEffect DEF IInv, PastInv
    <3> QED BY <3>1, <3>2 DEF IInv, PastInv, TypeOK
  <2> QED BY <1>3, <2>1, <2>2, ReturnEvents DEF SlotInv
<1>4. ASSUME NEW t \in Threads, Kill(t) PROVE SlotInv' /\ PastInv' /\ EventInv'
  <2>1. /\ DOMAIN <<>> = {} /\ killed' = killed \cup {t}
        /\ start_times' = start_times /\ mismatched' = mismatched
        /\ events' = events /\ now' = now
        /\ stack \in [Threads -> Seq(Calls)]
        /\ stack' = [stack EXCEPT ![t] = <<>>]
    <3>1. DOMAIN <<>> = {}
      OBVIOUS
    <3> QED BY <1>4, <3>1 DEF Kill, maps, IInv, TypeOK
  <2>2. ASSUME NEW u \in Threads \ mismatched' PROVE Slot(u)'
    <3>1. CASE u = t
      BY <2>1, <3>1 DEF Slot, Paired, Owned
    <3>2. CASE u # t
      BY <2>1, <2>2, <3>2, SlotFrame DEF IInv, SlotInv
    <3> QED BY <3>1, <3>2
  <2>3. PastInv'
    BY <2>1 DEF IInv, PastInv
  <2> QED BY <2>1, <2>2, <2>3 DEF SlotInv, IInv, EventInv, Truthful
<1>5. CASE Consume
  <2>1. EventInv'
    <3>1. events \in Seq(Events) /\ events # <<>> /\ events' = Tail(events)
      BY <1>5 DEF Consume, IInv, TypeOK
    <3>2. /\ DOMAIN Tail(events) = 1 .. Len(events) - 1 /\ DOMAIN events = 1 .. Len(events)
          /\ Len(events) \in Nat
          /\ \A i \in 1 .. Len(events) - 1 : Tail(events)[i] = events[i + 1]
      BY <3>1
    <3>3. \A i \in DOMAIN events' : i + 1 \in DOMAIN events /\ events'[i] = events[i + 1]
      BY <3>1, <3>2
    <3> QED BY <1>5, <3>3 DEF Consume, IInv, EventInv, Truthful
  <2> QED BY <1>5, <2>1, SlotFrame DEF Consume, maps, IInv, SlotInv, PastInv
<1>6. CASE Tick
  <2>1. PastInv'
    <3>1. now \in Nat /\ now' = now + 1 /\ stack' = stack
      BY <1>6 DEF Tick, IInv, TypeOK
    <3>2. \A t \in Threads : \A i \in DOMAIN stack[t] : stack[t][i].at \in Nat
      <4> TAKE t \in Threads
      <4> TAKE i \in DOMAIN stack[t]
      <4>1. stack[t] \in Seq(Calls)
        BY DEF IInv, TypeOK
      <4>2. stack[t][i] \in Calls
        BY <4>1
      <4> QED BY <4>2 DEF Calls
    <3> QED BY <3>1, <3>2 DEF IInv, PastInv
  <2> QED BY <1>6, <2>1, SlotFrame DEF Tick, maps, IInv, SlotInv, EventInv, Truthful
<1>7. CASE UNCHANGED vars
  BY <1>7, SlotFrame DEF vars, maps, IInv, SlotInv, PastInv, EventInv, Truthful
<1> QED BY <1>1, <1>2, <1>3, <1>4, <1>5, <1>6, <1>7 DEF Next

(* The inductive invariant contains the three properties. *)
LEMMA IInvImplies == IInv => OwnLatency /\ InnermostOnly /\ NoStrandedStart
<1>1. IInv => OwnLatency /\ InnermostOnly
  BY DEF IInv, EventInv, Truthful, OwnLatency, InnermostOnly, Reported
<1>2. IInv => NoStrandedStart
  BY DEF IInv, SlotInv, Slot, Owned, NoStrandedStart
<1> QED BY <1>1, <1>2

(* The latency of an event is the duration of the call that returned, for any  *)
(* number of threads and any nesting, from the attach window on.               *)
THEOREM OwnLatencyCorrect == Spec => []OwnLatency
BY IInvInit, IInvNext, IInvImplies, PTL DEF Spec

(* No event spans other probed work of its thread. *)
THEOREM InnermostOnlyCorrect == Spec => []InnermostOnly
BY IInvInit, IInvNext, IInvImplies, PTL DEF Spec

(* Finished threads leave nothing behind in start_times. *)
THEOREM NoStrandedStartCorrect == Spec => []NoStrandedStart
BY IInvInit, IInvNext, IInvImplies, PTL DEF Spec

(* All three when everything is attached before the first call. *)
THEOREM LoadedCorrect == LoadedSpec => [](OwnLatency /\ InnermostOnly /\ NoStrandedStart)
BY IInvInit, IInvNext, IInvImplies, PTL DEF LoadedSpec
-----------------------------------------------------------------------------
(* The names of lookups.  NamedLookupTarget needs to know whose name the        *)
(* dns_targets entry of a thread holds: getaddrinfo is never called inside      *)
(* another probed call, so it is that of the one lookup the thread is in.       *)
Outermost(t) == \A i \in DOMAIN stack[t] : stack[t][i].func = "getaddrinfo" => i = 1
OwnName(t) ==
  Key(t) \in DOMAIN dns_targets =>
    \A i \in DOMAIN stack[t] :
      stack[t][i].func = "getaddrinfo" /\ stack[t][i].probed =>
        \/ stack[t][i].arg = NULL
        \/ dns_targets[Key(t)] \in {stack[t][i].arg, ""}
Lookup(t) == Outermost(t) /\ OwnName(t)
LookupInv == \A t \in Threads : Lookup(t)

(* A lookup's event bears the name it was called with, or none. *)
Named(e) ==
  e.type = "DNS" /\ e.thread \notin mismatched /\ e.call.arg # NULL
    => e.target \in {e.call.arg, ""}
NameInv == \A i \in DOMAIN events : Named(events[i])

(* A step that leaves the calls of t and its name alone preserves Lookup(t). *)
LEMMA LookupFrame ==
  ASSUME NEW t \in Threads, Lookup(t), stack'[t] = stack[t],
         Key(t) \in DOMAIN dns_targets' =>
           /\ Key(t) \in DOMAIN dns_targets
           /\ dns_targets'[Key(t)] = dns_targets[Key(t)]
  PROVE  Lookup(t)'
BY DEF Lookup, Outermost, OwnName, Key

(* The programs of t do not touch the names of the other threads. *)
LEMMA OtherNames ==
  ASSUME NEW t \in Threads, NEW u \in Threads, u # t, NEW name,
         dns_targets' \in {dns_targets, UpdateElem(dns_targets, Key(t), name),
                           DeleteElem(dns_targets, Key(t))}
  PROVE  Key(u) \in DOMAIN dns_targets' =>
           /\ Key(u) \in DOMAIN dns_targets
           /\ dns_targets'[Key(u)] = dns_targets[Key(u)]
<1>1. Key(u) # Key(t)
  BY KeyInjective
<1>2. CASE dns_targets' = UpdateElem(dns_targets, Key(t), name)
  BY <1>1, <1>2, UpdateOther
<1>3. CASE dns_targets' = DeleteElem(dns_targets, Key(t))
  BY <1>1, <1>3, DeleteOther
<1> QED BY <1>2, <1>3

(* What an entry program does to dns_targets. *)
LEMMA EnterNames ==
  ASSUME NEW t \in Threads, NEW f \in Funcs, NEW arg \in Args(f), Enter(t, f, arg)
  PROVE  \/ /\ dns_targets' = dns_targets
            /\ f = "getaddrinfo" /\ NewCall(f, arg).probed => arg = NULL
         \/ /\ f = "getaddrinfo"
            /\ \E name \in {arg, ""} : dns_targets' = UpdateElem(dns_targets, Key(t), name)
BY DEF Enter, EntryProgram, maps

(* Entering a call: a lookup is the only call of its thread and writes its own  *)
(* name; any other call leaves the name of the lookup around it.                *)
LEMMA EnterLookup ==
  ASSUME TypeOK, NEW t \in Threads, Lookup(t),
         NEW f \in Funcs, NEW arg \in Args(f), Enter(t, f, arg)
  PROVE  Lookup(t)'
<1> DEFINE call == NewCall(f, arg)
           n == Len(stack[t])
           around == Around(stack[t], call.probed)
<1>1. call \in Calls /\ call.func = f /\ call.arg = arg /\ call.probed \in BOOLEAN
  BY NewCallType DEF TypeOK, NewCall, Calls
<1>2. /\ stack[t] \in Seq(Calls) /\ n \in Nat /\ DOMAIN stack[t] = 1 .. n
      /\ stack[t] # <<>> => Top(t) = stack[t][n] /\ Top(t) \in Calls /\ n # 0
  <2>1. stack[t] \in Seq(Calls)
    BY DEF TypeOK
  <2> QED BY <2>1 DEF Top
<1>3. /\ around \in Seq(Calls) /\ Len(around) = n
      /\ \A i \in 1 .. n : /\ around[i].func = stack[t][i].func
                           /\ around[i].arg = stack[t][i].arg
                           /\ around[i].probed = stack[t][i].probed
  BY <1>1, <1>2, AroundType
<1>4. stack'[t] = Append(around, call)
  BY DEF Enter, TypeOK
<1>5. f = "getaddrinfo" => n = 0
  <2>1. stack[t] # <<>> => <<Top(t).func, f>> \in Nests
    BY DEF Enter
  <2>2. stack[t] # <<>> => f # "getaddrinfo"
    BY <2>1, CallAssumption
  <2> QED BY <1>2, <2>2
<1>6. \/ /\ dns_targets' = dns_targets
         /\ f = "getaddrinfo" /\ call.probed => arg = NULL
      \/ /\ f = "getaddrinfo"
         /\ \E name \in {arg, ""} : dns_targets' = UpdateElem(dns_targets, Key(t), name)
  BY EnterNames
<1> HIDE DEF call, around, n
<1>7. /\ DOMAIN stack'[t] = 1 .. n + 1
      /\ stack'[t][n + 1] = call
      /\ \A i \in 1 .. n : stack'[t][i] = around[i]
  BY <1>1, <1>2, <1>3, <1>4
<1> SUFFICES ASSUME NEW i \in DOMAIN stack'[t], stack'[t][i].func = "getaddrinfo"
             PROVE  /\ i = 1
                    /\ Key(t) \in DOMAIN dns_targets' /\ stack'[t][i].probed =>
                         \/ stack'[t][i].arg = NULL
                         \/ dns_targets'[Key(t)] \in {stack'[t][i].arg, ""}
  BY DEF Lookup, Outermost, OwnName, Key
<1>8. CASE i = n + 1
  <2>1. stack'[t][i] = call /\ f = "getaddrinfo"
    BY <1>1, <1>7, <1>8
  <2>2. i = 1
    BY <1>2, <1>5, <1>8, <2>1
  <2>3. CASE \E name \in {arg, ""} : dns_targets' = UpdateElem(dns_targets, Key(t), name)
    <3>1. Key(t) \in DOMAIN dns_targets' => dns_targets'[Key(t)] \in {arg, ""}
      <4>1. PICK name \in {arg, ""} : dns_targets' = UpdateElem(dns_targets, Key(t), name)
        BY <2>3
      <4>2. Key(t) \in DOMAIN UpdateElem(dns_targets, Key(t), name)
              => UpdateElem(dns_targets, Key(t), name)[Key(t)] = name
        BY UpdateOwn
      <4> QED BY <4>1, <4>2
    <3>2. stack'[t][i].arg = arg
      BY <1>1, <2>1
    <3> QED BY <2>2, <3>1, <3>2
  <2>4. CASE call.probed => arg = NULL
    <3>1. stack'[t][i].probed => stack'[t][i].arg = NULL
      BY <1>1, <2>1, <2>4
    <3> QED BY <2>2, <3>1
  <2> QED BY <1>6, <2>1, <2>3, <2>4
<1>9. CASE i \in 1 .. n
  <2>1. f # "getaddrinfo" /\ dns_targets' = dns_targets
    <3>1. n # 0
      BY <1>2, <1>9
    <3> QED BY <1>5, <1>6, <3>1
  <2>2. /\ stack'[t][i].func = stack[t][i].func
        /\ stack'[t][i].arg = stack[t][i].arg
        /\ stack'[t][i].probed = stack[t][i].probed
    BY <1>3, <1>7, <1>9
  <2>3. /\ stack[t][i].func = "getaddrinfo" => i = 1
        /\ Key(t) \in DOMAIN dns_targets /\ stack[t][i].func = "getaddrinfo"
             /\ stack[t][i].probed =>
             \/ stack[t][i].arg = NULL
             \/ dns_targets[Key(t)] \in {stack[t][i].arg, ""}
    BY <1>2, <1>9 DEF Lookup, Outermost, OwnName
  <2> QED BY <2>1, <2>2, <2>3
<1>10. i = n + 1 \/ i \in 1 .. n
  <2>1. i \in 1 .. n + 1
    BY <1>7
  <2> QED BY <1>2, <2>1
<1> QED BY <1>8, <1>9, <1>10

(* Returning from a lookup ends the only call of the thread; the return program *)
(* of any other call leaves dns_targets alone.                                  *)
LEMMA ReturnLookup ==
  ASSUME IInv, NEW t \in Threads, Lookup(t), Return(t)
  PROVE  Lookup(t)'
<1> DEFINE n == Len(stack[t])
<1>1. /\ n \in Nat \ {0} /\ DOMAIN stack[t] = 1 .. n /\ DOMAIN stack'[t] = 1 .. n - 1
      /\ \A i \in 1 .. n - 1 : stack'[t][i] = stack[t][i]
      /\ Top(t) = stack[t][n]
  BY ReturnEffect
<1> HIDE DEF n
<1>2. CASE Top(t).func = "getaddrinfo"
  <2>1. n = 1
    BY <1>1, <1>2 DEF Lookup, Outermost
  <2>2. DOMAIN stack'[t] = {}
    BY <1>1, <2>1
  <2> QED BY <2>2 DEF Lookup, Outermost, OwnName
<1>3. CASE Top(t).func # "getaddrinfo"
  <2>1. dns_targets' = dns_targets
    BY <1>3 DEF Return, ReturnProgram, maps
  <2>2. \A i \in DOMAIN stack'[t] : i \in DOMAIN stack[t] /\ stack'[t][i] = stack[t][i]
    BY <1>1
  <2>3. Outermost(t)'
    BY <2>2 DEF Lookup, Outermost
  <2>4. OwnName(t)'
    BY <2>1, <2>2 DEF Lookup, OwnName, Key
  <2> QED BY <2>3, <2>4 DEF Lookup
<1> QED BY <1>2, <1>3

(* The event of a lookup bears its name. *)
LEMMA ReturnNames ==
  ASSUME IInv, NEW t \in Threads, Lookup(t), NameInv, Return(t)
  PROVE  NameInv'
<1>1. events \in Seq(Events) /\ mismatched' = mismatched
  BY DEF IInv, TypeOK, Return
<1>2. CASE events' = events
  BY <1>1, <1>2 DEF NameInv, Named
<1>3. ASSUME NEW target \in Targets(t, Top(t).func), Top(t).armed,
             Key(t) \in DOMAIN start_times,
             events' = RingOutput(events, Event(t, Top(t), target))
      PROVE  NameInv'
  <2> DEFINE e == Event(t, Top(t), target)
             n == Len(stack[t])
  <2>1. /\ n \in DOMAIN stack[t] /\ Top(t) = stack[t][n] /\ Top(t) \in Calls
    BY ReturnEffect
  <2>2. e \in Events
    BY <1>3, <2>1, EventTyped DEF IInv
  <2>3. Named(e)
    <3> SUFFICES ASSUME EventType(Top(t).func) = "DNS", t \notin mismatched, Top(t).arg # NULL
                 PROVE  target \in {Top(t).arg, ""}
      BY DEF Named, Event
    <3>1. Top(t).func = "getaddrinfo"
      <4>1. Top(t).func \in AllFuncs
        BY <2>1, CallAssumption DEF Calls
      <4> QED BY <4>1 DEF AllFuncs, KernelFuncs, ConnectFuncs, FileFuncs, EventType
    <3>2. Top(t).probed
      BY <1>3, <2>1 DEF IInv, SlotInv, Slot, Paired
    <3>3. Key(t) \in DOMAIN dns_targets => dns_targets[Key(t)] \in {Top(t).arg, ""}
      BY <2>1, <3>1, <3>2 DEF Lookup, OwnName
    <3>4. target \in IF Key(t) \in DOMAIN dns_targets THEN {dns_targets[Key(t)]} ELSE {""}
      BY <3>1 DEF Targets, ConnectFuncs
    <3> QED BY <3>3, <3>4
  <2> HIDE DEF e
  <2>4. \A i \in DOMAIN events' : Named(events'[i])
    BY <1>1, <1>3, <2>2, <2>3, RingTyped DEF NameInv, e
  <2> QED BY <1>1, <2>4 DEF NameInv, Named
<1> QED BY <1>2, <1>3 DEF Return, ReturnProgram

(* Nobody looks anything up at first. *)
THEOREM LookupInit == Init \/ LoadedInit => LookupInv /\ NameInv
<1>1. DOMAIN <<>> = {}
  OBVIOUS
<1> SUFFICES ASSUME Init \/ LoadedInit PROVE LookupInv /\ NameInv
  OBVIOUS
<1>2. events = <<>> /\ dns_targets = <<>> /\ stack = [t \in Threads |-> <<>>]
  BY DEF Init, LoadedInit
<1> QED BY <1>1, <1>2 DEF LookupInv, Lookup, Outermost, OwnName, NameInv

(* Every step keeps the names of the lookups and of their events. *)
THEOREM LookupNext ==
  IInv /\ LookupInv /\ NameInv /\ [Next]_vars => LookupInv' /\ NameInv'
<1> SUFFICES ASSUME IInv, LookupInv, NameInv, [Next]_vars PROVE LookupInv' /\ NameInv'
  OBVIOUS
<1>1. ASSUME NEW p \in Programs, Attach(p) PROVE LookupInv' /\ NameInv'
  BY <1>1 DEF Attach, maps, LookupInv, Lookup, Outermost, OwnName, Key, NameInv, Named
<1>2. ASSUME NEW t \in Threads, NEW f \in Funcs, NEW arg \in Args(f), Enter(t, f, arg)
      PROVE  LookupInv' /\ NameInv'
  <2>1. ASSUME NEW u \in Threads PROVE Lookup(u)'
    <3>1. CASE u = t
      BY <1>2, <3>1, EnterLookup DEF IInv, LookupInv
    <3>2. CASE u # t
      <4>1. Lookup(u) /\ stack'[u] = stack[u]
        BY <1>2, <3>2 DEF Enter, IInv, LookupInv, TypeOK
      <4>2. \E name : dns_targets' \in {dns_targets, UpdateElem(dns_targets, Key(t), name),
                                        DeleteElem(dns_targets, Key(t))}
        BY <1>2, EnterNames
      <4> QED BY <3>2, <4>1, <4>2, OtherNames, LookupFrame
    <3> QED BY <3>1, <3>2
  <2>2. events' = events /\ mismatched \subseteq mismatched'
    BY <1>2 DEF Enter
  <2> QED BY <2>1, <2>2 DEF LookupInv, NameInv, Named
<1>3. ASSUME NEW t \in Threads, Return(t) PROVE LookupInv' /\ NameInv'
  <2>1. ASSUME NEW u \in Threads PROVE Lookup(u)'
    <3>1. CASE u = t
      BY <1>3, <3>1, ReturnLookup DEF LookupInv
    <3>2. CASE u # t
      <4>1. Lookup(u) /\ stack'[u] = stack[u]
        BY <1>3, <3>2 DEF Return, IInv, LookupInv, TypeOK
      <4>2. \/ dns_targets' = dns_targets
            \/ dns_targets' = DeleteElem(dns_targets, Key(t))
        BY <1>3 DEF Return, ReturnProgram, maps
      <4>3. Key(u) \in DOMAIN dns_targets' =>
              /\ Key(u) \in DOMAIN dns_targets
              /\ dns_targets'[Key(u)] = dns_targets[Key(u)]
        BY <3>2, <4>2, KeyInjective, DeleteOther
      <4> QED BY <4>1, <4>3, LookupFrame
    <3> QED BY <3>1, <3>2
  <2>2. Lookup(t)
    BY DEF LookupInv
  <2> QED BY <1>3, <2>1, <2>2, ReturnNames DEF LookupInv
<1>4. ASSUME NEW t \in Threads, Kill(t) PROVE LookupInv' /\ NameInv'
  <2>1. /\ DOMAIN <<>> = {} /\ dns_targets' = dns_targets
        /\ events' = events /\ mismatched' = mismatched
        /\ stack' = [stack EXCEPT ![t] = <<>>] /\ stack \in [Threads -> Seq(Calls)]
    <3>1. DOMAIN <<>> = {}
      OBVIOUS
    <3> QED BY <1>4, <3>1 DEF Kill, maps, IInv, TypeOK
  <2> QED BY <2>1 DEF LookupInv, Lookup, Outermost, OwnName, Key, NameInv, Named
<1>5. CASE Consume
  <2>1. events \in Seq(Events) /\ events # <<>> /\ events' = Tail(events)
    BY <1>5 DEF Consume, IInv, TypeOK
  <2>2. \A i \in DOMAIN events' : i + 1 \in DOMAIN events /\ events'[i] = events[i + 1]
    BY <2>1
  <2>3. NameInv'
    BY <1>5, <2>2 DEF Consume, NameInv, Named
  <2> QED BY <1>5, <2>3 DEF Consume, maps, LookupInv, Lookup, Outermost, OwnName, Key
<1>6. CASE Tick
  BY <1>6 DEF Tick, maps, LookupInv, Lookup, Outermost, OwnName, Key, NameInv, Named
<1>7. CASE UNCHANGED vars
  BY <1>7 DEF vars, maps, LookupInv, Lookup, Outermost, OwnName, Key, NameInv, Named
<1> QED BY <1>1, <1>2, <1>3, <1>4, <1>5, <1>6, <1>7 DEF Next

(* A lookup is reported under its own name or under none, whatever names other  *)
(* lookups, killed ones among them, have left in dns_targets.                   *)
THEOREM NamedLookupTargetCorrect == Spec => []NamedLookupTarget
<1>1. NameInv => NamedLookupTarget
  BY DEF NameInv, Named, NamedLookupTarget, Reported
<1> QED BY <1>1, IInvInit, IInvNext, LookupInit, LookupNext, PTL DEF Spec

(* The same when everything is attached before the first call. *)
THEOREM LoadedNamedLookupTarget == LoadedSpec => []NamedLookupTarget
<1>1. NameInv => NamedLookupTarget
  BY DEF NameInv, Named, NamedLookupTarget, Reported
<1> QED BY <1>1, IInvInit, IInvNext, LookupInit, LookupNext, PTL DEF LoadedSpec
=============================================================================
