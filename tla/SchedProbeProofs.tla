-------------------------- MODULE SchedProbeProofs --------------------------
(***************************************************************************)
(* Theorems about SchedProbe, for any number of CPUs and threads, any map  *)
(* and ring size, and any call probes that use the same map.               *)
(*                                                                         *)
(* A scheduling entry is correct because the program that removes it is    *)
(* the one that runs when the thread leaves its CPU: the invariant is that *)
(* an entry belongs to a running thread and holds the time at which that   *)
(* thread got its CPU.  A full map only makes entries missing.             *)
(***************************************************************************)
EXTENDS SchedProbe, TLAPS

(* The keys of two threads differ: the thread id is the high half.  *)
LEMMA SchedKeyInjective ==
  ASSUME NEW t \in Threads, NEW u \in Threads, SchedKey(t) = SchedKey(u)
  PROVE  t = u
<1>1. Word \in Nat \ {0} /\ t \in Nat /\ u \in Nat
  BY BpfAssumption, SchedAssumption
<1>2. t * Word = u * Word
  BY <1>1 DEF SchedKey, get_key
<1> QED
  <2>1. ASSUME NEW x \in Nat, NEW y \in Nat, x < y PROVE x * Word < y * Word
    <3>1. PICK d \in Nat : y = x + 1 + d
      <4>1. y - x - 1 \in Nat /\ y = x + 1 + (y - x - 1)
        BY <2>1
      <4> QED BY <4>1
    <3>2. y * Word = x * Word + Word + d * Word
      BY <3>1, <1>1
    <3>3. d * Word \in Nat /\ x * Word \in Nat
      BY <1>1
    <3> QED BY <3>2, <3>3, <1>1
  <2>2. t * Word \in Nat /\ u * Word \in Nat
    BY <1>1
  <2>3. ~(t < u) /\ ~(u < t)
    BY <2>1, <2>2, <1>1, <1>2
  <2> QED BY <2>3, <1>1

(* No call probe writes a scheduling entry: the low half of its keys is a thread id. *)
LEMMA KeysApart ==
  ASSUME NEW t \in Threads, NEW u \in Threads
  PROVE  SchedKey(t) # CallKey(u)
<1> DEFINE a == Tgid[u]
<1>1. /\ Word \in Nat \ {0} /\ t \in Nat /\ a \in Nat
      /\ u \in 1 .. Word - 1
  BY BpfAssumption, SchedAssumption
<1>2. SchedKey(t) = t * Word /\ CallKey(u) = a * Word + u
  <2>1. t * Word \in Nat
    BY <1>1
  <2> QED BY <2>1, <1>1 DEF SchedKey, CallKey, get_key
<1> HIDE DEF a
<1>3. t * Word # a * Word + u
  <2>1. CASE t <= a
    <3>1. PICK d \in Nat : a = t + d
      <4>1. a - t \in Nat /\ a = t + (a - t)
        BY <1>1, <2>1
      <4> QED BY <4>1
    <3>2. a * Word = t * Word + d * Word /\ d * Word \in Nat /\ t * Word \in Nat
      BY <1>1, <3>1
    <3> QED BY <3>2, <1>1
  <2>2. CASE t > a
    <3>1. PICK d \in Nat : t = a + 1 + d
      <4>1. t - a - 1 \in Nat /\ t = a + 1 + (t - a - 1)
        BY <1>1, <2>2
      <4> QED BY <4>1
    <3>2. t * Word = a * Word + Word + d * Word /\ d * Word \in Nat /\ a * Word \in Nat
      BY <1>1, <3>1
    <3> QED BY <3>2, <1>1
  <2> QED BY <2>1, <2>2, <1>1
<1> QED BY <1>2, <1>3

-----------------------------------------------------------------------------
(* The keys of the map. *)
Keys == {SchedKey(t) : t \in Threads} \cup {CallKey(t) : t \in Threads}

MapOK(map) == DOMAIN map \subseteq Keys /\ \A k \in DOMAIN map : map[k] \in Nat

(* No two CPUs run the same thread. *)
OneCpu == \A c, d \in CPUs : c # d /\ oncpu[c] = oncpu[d] => oncpu[c] = 0

(* A scheduling entry holds the time at which its thread, which runs, was switched in. *)
Timed ==
  \A t \in Threads : SchedKey(t) \in DOMAIN start_times =>
    attached /\ t \in Running /\ start_times[SchedKey(t)] = switched[t]

IInv ==
  /\ TypeOK
  /\ OneCpu
  /\ Timed
  /\ \A t \in Threads : switched[t] <= now
  /\ SliceLatency

(* The initial states satisfy the invariant. *)
LEMMA InitInv == Init => IInv
<1> SUFFICES ASSUME Init PROVE IInv
  OBVIOUS
<1>1. events \in Seq(Events) /\ DOMAIN events = {}
  BY DEF Init
<1>2. DOMAIN start_times = {}
  BY DEF Init
<1>3. TypeOK
  BY <1>1, <1>2 DEF Init, TypeOK
<1> QED
  BY <1>1, <1>2, <1>3 DEF Init, IInv, OneCpu, Timed, SliceLatency, Reported

(* What an update or a deletion does to the map as a whole. *)
LEMMA MapSteps ==
  ASSUME NEW map, MapOK(map), NEW key \in Keys, NEW val \in Nat
  PROVE  MapOK(UpdateElem(map, key, val)) /\ MapOK(DeleteElem(map, key))
BY DEF MapOK, UpdateElem, DeleteElem

(* The event of a thread that is switched out tells the time since it was switched in. *)
LEMMA EventTrue ==
  ASSUME IInv, NEW t \in Threads, SchedKey(t) \in DOMAIN start_times,
         calc_latency(start_times[SchedKey(t)], now) > SlowNs
  PROVE  /\ Event(t) \in Events
         /\ Event(t).latency_ns = Event(t).ran /\ Event(t).ran > SlowNs
<1>1. /\ switched[t] \in Nat /\ waited[t] \in Nat /\ now \in Nat /\ switched[t] <= now /\ SlowNs \in Nat
      /\ start_times[SchedKey(t)] = switched[t]
  BY SchedAssumption DEF IInv, TypeOK, Timed
<1>2. calc_latency(start_times[SchedKey(t)], now) = now - switched[t] /\ now - switched[t] \in Nat
  BY <1>1 DEF calc_latency
<1> QED
  BY <1>1, <1>2 DEF Event, Events

(* The ring buffer stays a sequence of true events, whether the event fits or not. *)
LEMMA RingTrue ==
  ASSUME IInv, NEW e \in Events, e.latency_ns = e.ran, e.ran > SlowNs
  PROVE  LET ring == RingOutput(events, e)
         IN ring \in Seq(Events)
            /\ \A i \in DOMAIN ring : ring[i].latency_ns = ring[i].ran /\ ring[i].ran > SlowNs
<1>1. events \in Seq(Events)
  BY DEF IInv, TypeOK
<1>2. \A i \in DOMAIN events : events[i].latency_ns = events[i].ran /\ events[i].ran > SlowNs
  BY DEF IInv, SliceLatency, Reported
<1>3. /\ Append(events, e) \in Seq(Events)
      /\ \A i \in DOMAIN Append(events, e) : Append(events, e)[i] \in {e} \cup {events[j] : j \in DOMAIN events}
  BY <1>1
<1> QED
  BY <1>1, <1>2, <1>3 DEF RingOutput

(* A switch of a CPU, with or without the program. *)
LEMMA SwitchInv ==
  ASSUME IInv, NEW c \in CPUs, NEW next \in Threads \cup {0}, SchedSwitch(c, next)
  PROVE  IInv'
<1> DEFINE prev == oncpu[c]
           out == SwitchedOut(prev)
<1>1. /\ prev \in Threads \cup {0} /\ next # prev /\ next \notin Running
      /\ oncpu' = [oncpu EXCEPT ![c] = next]
      /\ switched' = [t \in Threads |-> IF t \in {prev, next} THEN now ELSE switched[t]]
      /\ waited' = [t \in Threads |-> IF t = next THEN now - switched[t] ELSE waited[t]]
      /\ attached' = attached /\ now' = now /\ now \in Nat
      /\ 0 \notin Threads
  BY SchedAssumption DEF SchedSwitch, IInv, TypeOK
<1>2. /\ oncpu' \in [CPUs -> Threads \cup {0}] /\ switched' \in [Threads -> Nat]
      /\ waited' \in [Threads -> Nat]
      /\ \A t \in Threads : switched'[t] <= now'
  BY <1>1 DEF IInv, TypeOK
<1>3. OneCpu'
  BY <1>1 DEF IInv, TypeOK, OneCpu, Running
<1>4. /\ \A t \in Threads : t \in Running /\ t # prev => t \in Running'
      /\ next # 0 => next \in Running'
  BY <1>1 DEF IInv, TypeOK, Running
<1>5. MapOK(start_times) /\ (next # 0 => SchedKey(next) \in Keys) /\ (prev # 0 => SchedKey(prev) \in Keys)
  BY <1>1 DEF IInv, TypeOK, MapOK, Keys
<1>6. CASE ~attached
  <2>1. start_times' = start_times /\ events' = events
    BY <1>6 DEF SchedSwitch
  <2>2. TypeOK'
    BY <2>1, <1>1, <1>2 DEF IInv, TypeOK, SchedKey, CallKey
  <2>3. Timed'
    BY <2>1, <1>1, <1>6 DEF IInv, Timed, SchedKey
  <2>4. SliceLatency'
    BY <2>1 DEF IInv, SliceLatency, Reported
  <2> QED BY <2>2, <2>3, <2>4, <1>2, <1>3 DEF IInv
<1>7. CASE attached
  <2>1. start_times' = SwitchedIn(out.map, next) /\ events' = out.ring
    BY <1>7 DEF SchedSwitch
  <2>2. /\ MapOK(out.map)
        /\ \A t \in Threads : SchedKey(t) \in DOMAIN out.map =>
             SchedKey(t) \in DOMAIN start_times /\ out.map[SchedKey(t)] = start_times[SchedKey(t)]
        /\ prev # 0 => SchedKey(prev) \notin DOMAIN out.map
    <3>1. CASE prev = 0 \/ SchedKey(prev) \notin DOMAIN start_times
      BY <3>1, <1>5 DEF SwitchedOut
    <3>2. CASE prev # 0 /\ SchedKey(prev) \in DOMAIN start_times
      <4>1. out.map = DeleteElem(start_times, SchedKey(prev))
        BY <3>2 DEF SwitchedOut
      <4> HIDE DEF out, prev
      <4> QED BY <4>1, <3>2, <1>1, <1>5, MapSteps DEF DeleteElem
    <3> QED BY <3>1, <3>2
  <2>3. /\ out.ring \in Seq(Events)
        /\ \A i \in DOMAIN out.ring :
             out.ring[i].latency_ns = out.ring[i].ran /\ out.ring[i].ran > SlowNs
    <3>1. CASE out.ring = events
      BY <3>1 DEF IInv, TypeOK, SliceLatency, Reported
    <3>2. CASE out.ring # events
      <4>1. /\ prev \in Threads /\ SchedKey(prev) \in DOMAIN start_times
            /\ calc_latency(start_times[SchedKey(prev)], now) > SlowNs
            /\ out.ring = RingOutput(events, Event(prev))
        BY <3>2, <1>1 DEF SwitchedOut
      <4>2. /\ Event(prev) \in Events
            /\ Event(prev).latency_ns = Event(prev).ran /\ Event(prev).ran > SlowNs
        BY <4>1, EventTrue
      <4> HIDE DEF out, prev
      <4> QED BY <4>1, <4>2, RingTrue
    <3> QED BY <3>1, <3>2
  <2> HIDE DEF out
  <2>4. MapOK(start_times')
    BY <2>1, <2>2, <1>1, <1>5, MapSteps DEF SwitchedIn
  <2>5. TypeOK'
    <3>1. DOMAIN start_times' \subseteq {SchedKey(t) : t \in Threads} \cup {CallKey(t) : t \in Threads}
          /\ \A k \in DOMAIN start_times' : start_times'[k] \in Nat
      BY <2>4 DEF MapOK, Keys
    <3> QED
      BY <3>1, <2>1, <2>3, <1>1, <1>2 DEF IInv, TypeOK, SchedKey, CallKey
  <2>6. Timed'
    <3> SUFFICES ASSUME NEW t \in Threads, SchedKey(t) \in DOMAIN start_times'
                 PROVE  attached' /\ t \in Running' /\ start_times'[SchedKey(t)] = switched'[t]
      BY DEF Timed, SchedKey
    <3>1. CASE t = next
      <4>1. start_times' = UpdateElem(out.map, SchedKey(t), now)
        BY <3>1, <2>1, <1>1 DEF SwitchedIn
      <4>2. start_times'[SchedKey(t)] = now
        BY <4>1, <1>5 DEF UpdateElem
      <4> QED BY <4>2, <3>1, <1>1, <1>4, <1>7
    <3>2. CASE t # next
      <4>1. SchedKey(t) # SchedKey(next) \/ next = 0
        BY <3>2, <1>1, SchedKeyInjective
      <4>2. SchedKey(t) \in DOMAIN out.map /\ start_times'[SchedKey(t)] = out.map[SchedKey(t)]
        BY <4>1, <2>1 DEF SwitchedIn, UpdateElem
      <4>3. t # prev
        BY <4>2, <2>2, <1>1
      <4> QED BY <4>2, <4>3, <3>2, <2>2, <1>1, <1>4, <1>7 DEF IInv, Timed
    <3> QED BY <3>1, <3>2
  <2>7. SliceLatency'
    BY <2>1, <2>3 DEF SliceLatency, Reported
  <2> QED BY <2>5, <2>6, <2>7, <1>2, <1>3 DEF IInv
<1> QED BY <1>6, <1>7

(* A step of a call probe touches no scheduling entry. *)
LEMMA CallInv ==
  ASSUME IInv, NEW t \in Threads, CallEntry(t) \/ CallReturn(t)
  PROVE  IInv'
<1>1. CallKey(t) \in Keys /\ MapOK(start_times) /\ now \in Nat
  BY DEF IInv, TypeOK, MapOK, Keys
<1>2. MapOK(start_times')
  BY <1>1, MapSteps DEF CallEntry, CallReturn
<1>3. UNCHANGED <<attached, now, events, oncpu, switched, waited>>
  BY DEF CallEntry, CallReturn
<1>4. TypeOK'
  <2>1. DOMAIN start_times' \subseteq {SchedKey(u) : u \in Threads} \cup {CallKey(u) : u \in Threads}
        /\ \A k \in DOMAIN start_times' : start_times'[k] \in Nat
    BY <1>2 DEF MapOK, Keys
  <2> QED BY <2>1, <1>3 DEF IInv, TypeOK, SchedKey, CallKey
<1>5. Timed'
  <2> SUFFICES ASSUME NEW u \in Threads, SchedKey(u) \in DOMAIN start_times'
               PROVE  attached' /\ u \in Running' /\ start_times'[SchedKey(u)] = switched'[u]
    BY DEF Timed, SchedKey
  <2>1. SchedKey(u) # CallKey(t)
    BY KeysApart
  <2>2. SchedKey(u) \in DOMAIN start_times /\ start_times'[SchedKey(u)] = start_times[SchedKey(u)]
    BY <2>1 DEF CallEntry, CallReturn, UpdateElem, DeleteElem
  <2> QED BY <2>2, <1>3 DEF IInv, Timed, Running
<1> QED
  BY <1>3, <1>4, <1>5 DEF IInv, OneCpu, SliceLatency, Reported

(* Every step keeps the invariant. *)
LEMMA NextInv == IInv /\ [Next]_vars => IInv'
<1> SUFFICES ASSUME IInv, [Next]_vars PROVE IInv'
  OBVIOUS
<1>1. CASE Attach
  BY <1>1 DEF Attach, IInv, TypeOK, OneCpu, Timed, SliceLatency, Reported, Running, SchedKey, CallKey
<1>2. ASSUME NEW c \in CPUs, NEW next \in Threads \cup {0}, SchedSwitch(c, next) PROVE IInv'
  BY <1>2, SwitchInv
<1>3. ASSUME NEW t \in Threads, CallEntry(t) \/ CallReturn(t) PROVE IInv'
  BY <1>3, CallInv
<1>4. CASE Consume
  <2>1. /\ events' \in Seq(Events)
        /\ \A i \in DOMAIN events' : \E j \in DOMAIN events : events'[i] = events[j]
    <3>1. events \in Seq(Events) /\ events # <<>> /\ events' = Tail(events)
      BY <1>4 DEF Consume, IInv, TypeOK
    <3>2. ASSUME NEW i \in DOMAIN events' PROVE i + 1 \in DOMAIN events /\ events'[i] = events[i + 1]
      BY <3>1
    <3> QED BY <3>1, <3>2
  <2>2. SliceLatency'
    BY <2>1 DEF IInv, SliceLatency, Reported
  <2> QED
    BY <1>4, <2>1, <2>2 DEF Consume, IInv, TypeOK, OneCpu, Timed, Running, SchedKey, CallKey
<1>5. CASE Tick
  <2>1. now' \in Nat /\ \A t \in Threads : switched'[t] <= now'
    BY <1>5 DEF Tick, IInv, TypeOK
  <2> QED
    BY <1>5, <2>1 DEF Tick, IInv, TypeOK, OneCpu, Timed, SliceLatency, Reported, Running, SchedKey, CallKey
<1>6. CASE UNCHANGED vars
  BY <1>6 DEF vars, IInv, TypeOK, OneCpu, Timed, SliceLatency, Reported, Running, SchedKey, CallKey
<1> QED
  BY <1>1, <1>2, <1>3, <1>4, <1>5, <1>6 DEF Next

(* The invariant holds in every state of every behaviour. *)
LEMMA Invariance == Spec => []IInv
BY InitInv, NextInv, PTL DEF Spec

(* TypeOK: the keys of the shared map are those of traced threads. *)
THEOREM TypeCorrect == Spec => []TypeOK
<1>1. IInv => TypeOK
  BY DEF IInv
<1> QED BY <1>1, Invariance, PTL

(* SliceLatency: the latency of a scheduling event is the time slice that ended. *)
THEOREM SliceLatencyCorrect == Spec => []SliceLatency
<1>1. IInv => SliceLatency
  BY DEF IInv
<1> QED BY <1>1, Invariance, PTL

(* EntriesOfRunning: a scheduling entry is that of a running thread, so there are *)
(* no more of them than CPUs.                                                    *)
THEOREM EntriesOfRunningCorrect == Spec => []EntriesOfRunning
<1>1. IInv => EntriesOfRunning
  BY DEF IInv, Timed, EntriesOfRunning
<1> QED BY <1>1, Invariance, PTL
=============================================================================
