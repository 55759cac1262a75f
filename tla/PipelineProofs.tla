--------------------------- MODULE PipelineProofs ---------------------------
(***************************************************************************)
(* Proofs about Pipeline, for any number of events and any capacity of the *)
(* ring buffer and of eventChan: no event is lost or doubled, the order of *)
(* production is kept, and the pipeline implements Dispatch.  Liveness     *)
(* (EveryEventMovesOn) is left to TLC, and no proof here uses Fairness.    *)
(***************************************************************************)
EXTENDS Pipeline, FiniteSetTheorems, TLAPS
-----------------------------------------------------------------------------
(* Facts about the queues. *)

Increasing(seq) == \A i, j \in DOMAIN seq : i < j => seq[i] < seq[j]
Before(S, T) == \A a \in S, b \in T : a < b

(* InOrder, with its local operators named. *)
LEMMA InOrderParts ==
  InOrder <=>
    /\ Increasing(ring) /\ Increasing(eventChan)
    /\ Increasing(exported) /\ Increasing(recorded)
    /\ Before(Holding, Ids(ring))
    /\ Before(Ids(eventChan), Holding \cup Ids(ring))
    /\ Before(Delivered, Ids(eventChan) \cup Holding \cup Ids(ring))
BY DEF InOrder, Increasing, Before

(* The elements of a sequence over S are in S. *)
LEMMA IdsIn ==
  ASSUME NEW S, NEW seq \in Seq(S)
  PROVE  Ids(seq) \subseteq S
BY DEF Ids

(* What an element put at the end of a queue changes. *)
LEMMA AppendFacts ==
  ASSUME NEW S, NEW seq \in Seq(S), NEW x \in S
  PROVE  /\ Append(seq, x) \in Seq(S)
         /\ Len(Append(seq, x)) = Len(seq) + 1
         /\ Ids(Append(seq, x)) = Ids(seq) \cup {x}
<1>1. /\ Append(seq, x) \in Seq(S) /\ Len(Append(seq, x)) = Len(seq) + 1 /\ Len(seq) \in Nat
      /\ DOMAIN Append(seq, x) = 1 .. Len(seq) + 1 /\ DOMAIN seq = 1 .. Len(seq)
      /\ \A i \in 1 .. Len(seq) : Append(seq, x)[i] = seq[i]
      /\ Append(seq, x)[Len(seq) + 1] = x
  OBVIOUS
<1>2. 1 .. Len(seq) + 1 = (1 .. Len(seq)) \cup {Len(seq) + 1}
  BY <1>1
<1> QED BY <1>1, <1>2 DEF Ids

(* The same for the queues of Pipeline. *)
LEMMA AppendIds ==
  ASSUME NEW seq \in Seq(1 .. MaxEvents), NEW x \in 1 .. MaxEvents
  PROVE  Ids(Append(seq, x)) = Ids(seq) \cup {x}
<1> DEFINE S == 1 .. MaxEvents
<1>1. seq \in Seq(S) /\ x \in S
  OBVIOUS
<1> HIDE DEF S
<1> QED BY <1>1, AppendFacts

(* A queue in order stays in order when a younger element is put at its end. *)
LEMMA AppendOrder ==
  ASSUME NEW S \in SUBSET Nat, NEW seq \in Seq(S), NEW x \in S,
         Increasing(seq), Before(Ids(seq), {x})
  PROVE  Increasing(Append(seq, x))
<1>1. /\ DOMAIN Append(seq, x) = 1 .. Len(seq) + 1 /\ DOMAIN seq = 1 .. Len(seq)
      /\ Len(seq) \in Nat
      /\ \A i \in 1 .. Len(seq) : Append(seq, x)[i] = seq[i]
      /\ Append(seq, x)[Len(seq) + 1] = x
  OBVIOUS
<1>2. \A i \in DOMAIN seq : seq[i] < x
  BY DEF Before, Ids
<1> QED BY <1>1, <1>2 DEF Increasing

(* What the oldest element taken from a queue leaves. *)
LEMMA TailFacts ==
  ASSUME NEW S, NEW seq \in Seq(S), seq # <<>>
  PROVE  /\ Head(seq) \in S
         /\ Tail(seq) \in Seq(S)
         /\ Len(Tail(seq)) = Len(seq) - 1 /\ Len(seq) > 0
         /\ Ids(seq) = Ids(Tail(seq)) \cup {Head(seq)}
<1>1. /\ Len(seq) \in Nat /\ Len(seq) > 0 /\ DOMAIN seq = 1 .. Len(seq) /\ Head(seq) = seq[1]
      /\ Tail(seq) \in Seq(S) /\ Len(Tail(seq)) = Len(seq) - 1
      /\ DOMAIN Tail(seq) = 1 .. Len(seq) - 1
      /\ \A i \in 1 .. Len(seq) - 1 : Tail(seq)[i] = seq[i + 1]
  OBVIOUS
<1>2. Ids(seq) \subseteq Ids(Tail(seq)) \cup {Head(seq)}
  <2> SUFFICES ASSUME NEW i \in 1 .. Len(seq)
               PROVE  seq[i] \in Ids(Tail(seq)) \cup {Head(seq)}
    BY <1>1 DEF Ids
  <2>1. CASE i = 1
    BY <2>1, <1>1
  <2>2. CASE i # 1
    <3>1. i - 1 \in DOMAIN Tail(seq) /\ Tail(seq)[i - 1] = seq[i]
      BY <2>2, <1>1
    <3> QED BY <3>1 DEF Ids
  <2> QED BY <2>1, <2>2
<1>3. Ids(Tail(seq)) \cup {Head(seq)} \subseteq Ids(seq)
  BY <1>1 DEF Ids
<1> QED BY <1>1, <1>2, <1>3

(* The head of a queue in order is its oldest element, and the rest is in order. *)
LEMMA TailOrder ==
  ASSUME NEW S \in SUBSET Nat, NEW seq \in Seq(S), seq # <<>>, Increasing(seq)
  PROVE  /\ Increasing(Tail(seq))
         /\ Before({Head(seq)}, Ids(Tail(seq)))
<1>1. /\ Len(seq) \in Nat /\ Len(seq) > 0 /\ DOMAIN seq = 1 .. Len(seq) /\ Head(seq) = seq[1]
      /\ DOMAIN Tail(seq) = 1 .. Len(seq) - 1
      /\ \A i \in 1 .. Len(seq) - 1 : Tail(seq)[i] = seq[i + 1]
  OBVIOUS
<1> QED BY <1>1 DEF Increasing, Before, Ids
-----------------------------------------------------------------------------
(* The reader holds a record exactly while it filters it or sends it, and    *)
(* nothing runs before Start.                                                *)
HoldsOne ==
  /\ record # 0 <=> reader \in {"filter", "send"}
  /\ pc = "loaded" => reader = "idle"

(* TypeOK is inductive with the record the reader holds. *)
TypeInv == TypeOK /\ HoldsOne

(* The initial state satisfies the type invariant. *)
LEMMA TypeInit == Init => TypeInv
BY PipelineAssumption DEF Init, TypeInv, TypeOK, HoldsOne, InLoop, Stopping

(* Every step keeps the types. *)
LEMMA TypeStep == TypeInv /\ [Next]_vars => TypeInv'
<1> SUFFICES ASSUME TypeInv, [Next]_vars PROVE TypeInv'
  OBVIOUS
<1> USE DEF TypeInv, TypeOK, HoldsOne, InLoop, Stopping, progress, reading
<1> USE PipelineAssumption
<1>1. CASE Produce
  <2>1. produced' \in 1 .. MaxEvents
    BY <1>1 DEF Produce
  <2>2. CASE Len(ring) < RingCap
    <3>1. ring' = Append(ring, produced') /\ dropped' = dropped
      BY <1>1, <2>2 DEF Produce
    <3>2. ring' \in Seq(1 .. MaxEvents) /\ Len(ring') <= RingCap
      BY <2>1, <2>2, <3>1, AppendFacts
    <3> QED BY <1>1, <2>1, <3>1, <3>2 DEF Produce
  <2>3. CASE ~(Len(ring) < RingCap)
    <3>1. ring' = ring /\ dropped' = dropped \cup {produced'}
      BY <1>1, <2>3 DEF Produce
    <3> QED BY <1>1, <2>1, <3>1 DEF Produce
  <2> QED BY <2>2, <2>3
<1>2. CASE Read
  <2>1. Head(ring) \in 1 .. MaxEvents /\ ring' \in Seq(1 .. MaxEvents) /\ Len(ring') <= RingCap
    BY <1>2, TailFacts DEF Read
  <2>2. /\ record' = Head(ring) /\ reader' = "filter" /\ pc # "loaded"
        /\ produced' = produced /\ dropped' = dropped /\ eventChan' = eventChan
        /\ exported' = exported /\ recorded' = recorded /\ pc' = pc
    BY <1>2 DEF Read
  <2>3. record' \in 1 .. MaxEvents
    BY <2>1, <2>2
  <2>4. TypeOK'
    BY <2>1, <2>2, <2>3
  <2>5. record' # 0
    BY <2>3
  <2>6. HoldsOne'
    BY <2>2, <2>5
  <2> QED
    <3> HIDE DEF TypeOK, HoldsOne
    <3> QED BY <2>4, <2>6
<1>3. CASE ReadClosed
  BY <1>3 DEF ReadClosed
<1>4. CASE Filter
  <2>1. CASE reader' = "send" /\ UNCHANGED <<record, dropped>>
    BY <1>4, <2>1 DEF Filter
  <2>2. CASE reader' = "read" /\ record' = 0 /\ dropped' = dropped \cup {record}
    <3>1. record \in 1 .. MaxEvents /\ pc # "loaded"
      BY <1>4 DEF Filter
    <3>2. dropped' \subseteq 1 .. MaxEvents /\ record' \in 0 .. MaxEvents
      BY <2>2, <3>1
    <3> QED BY <1>4, <2>2, <3>1, <3>2 DEF Filter
  <2> QED BY <1>4, <2>1, <2>2 DEF Filter
<1>5. CASE Send
  <2>1. record \in 1 .. MaxEvents
    BY <1>5 DEF Send
  <2>2. eventChan' \in Seq(1 .. MaxEvents) /\ Len(eventChan') <= ChanCap
    BY <1>5, <2>1, AppendFacts DEF Send
  <2> QED BY <1>5, <2>2 DEF Send
<1>6. CASE Export
  <2>1. /\ Head(eventChan) \in 1 .. MaxEvents
        /\ eventChan' \in Seq(1 .. MaxEvents) /\ Len(eventChan') <= ChanCap
    BY <1>6, TailFacts DEF Export
  <2>2. exported' \in Seq(1 .. MaxEvents)
    BY <1>6, <2>1, AppendFacts DEF Export
  <2> QED BY <1>6, <2>1, <2>2 DEF Export
<1>7. CASE Start
  BY <1>7 DEF Start
<1>8. CASE AddEvent
  <2>1. /\ Head(eventChan) \in 1 .. MaxEvents
        /\ eventChan' \in Seq(1 .. MaxEvents) /\ Len(eventChan') <= ChanCap
    BY <1>8, TailFacts DEF AddEvent
  <2>2. recorded' \in Seq(1 .. MaxEvents)
    BY <1>8, <2>1, AppendFacts DEF AddEvent
  <2> QED BY <1>8, <2>1, <2>2 DEF AddEvent
<1>9. CASE LeaveSelect
  BY <1>9 DEF LeaveSelect
<1>10. CASE Report
  BY <1>10 DEF Report
<1>11. CASE Stop
  BY <1>11 DEF Stop
<1>12. CASE UNCHANGED vars
  BY <1>12 DEF vars
<1> QED BY <1>1, <1>2, <1>3, <1>4, <1>5, <1>6, <1>7, <1>8, <1>9, <1>10, <1>11, <1>12 DEF Next

(* The variables of the pipeline keep their types for every capacity: the    *)
(* ring buffer and the channel are never overfilled, and what the reader     *)
(* filters or sends is always an event.                                      *)
THEOREM TypeCorrect == Spec => []TypeOK
<1>1. Spec => []TypeInv
  BY TypeInit, TypeStep, PTL DEF Spec
<1>2. TypeInv => TypeOK
  BY DEF TypeInv
<1> QED BY <1>1, <1>2, PTL
-----------------------------------------------------------------------------
(* The first part of Conservation. *)
NoneLost ==
  Ids(ring) \cup Holding \cup Ids(eventChan) \cup Delivered \cup dropped = 1 .. produced

(* What is dropped is not also on its way to a receiver. *)
DroppedApart == dropped \cap (Ids(ring) \cup Holding) = {}

(* The order is inductive with the bound that NoneLost puts on every id. *)
FlowInv == NoneLost /\ DroppedApart /\ InOrder

(* What the ring buffer, the reader and so on hold are events produced. *)
LEMMA Bounded ==
  ASSUME TypeOK, NoneLost
  PROVE  /\ produced \in Nat
         /\ Ids(ring) \subseteq 1 .. produced /\ Holding \subseteq 1 .. produced
         /\ Ids(eventChan) \subseteq 1 .. produced /\ Delivered \subseteq 1 .. produced
         /\ dropped \subseteq 1 .. produced
         /\ MaxEvents \in Nat /\ 1 .. MaxEvents \in SUBSET Nat
<1>1. produced \in Nat
  BY PipelineAssumption DEF TypeOK
<1> QED BY <1>1, PipelineAssumption DEF NoneLost

(* Nothing has been produced in the initial state. *)
LEMMA FlowInit == Init => FlowInv
<1> SUFFICES ASSUME Init PROVE FlowInv
  OBVIOUS
<1>1. Ids(<<>>) = {}
  BY DEF Ids
<1>2. Increasing(<<>>)
  BY DEF Increasing
<1>3. Holding = {} /\ Delivered = {}
  BY <1>1 DEF Init, Holding, Delivered
<1>4. InOrder
  BY <1>1, <1>2, <1>3, InOrderParts DEF Init, Before
<1> QED BY <1>1, <1>3, <1>4 DEF Init, FlowInv, NoneLost, DroppedApart

(* Every step keeps each event in one place, and the places in order. *)
LEMMA FlowStep == TypeInv /\ FlowInv /\ [Next]_vars => FlowInv'
<1> SUFFICES ASSUME TypeInv, FlowInv, [Next]_vars PROVE FlowInv'
  OBVIOUS
<1> DEFINE R == Ids(ring)
           C == Ids(eventChan)
           M == Ids(exported)
           A == Ids(recorded)
<1>t. /\ produced \in Nat /\ MaxEvents \in Nat /\ 1 .. MaxEvents \in SUBSET Nat
      /\ ring \in Seq(1 .. MaxEvents) /\ eventChan \in Seq(1 .. MaxEvents)
      /\ exported \in Seq(1 .. MaxEvents) /\ recorded \in Seq(1 .. MaxEvents)
      /\ record \in 0 .. MaxEvents
  BY PipelineAssumption DEF TypeInv, TypeOK
<1>f. /\ R \cup Holding \cup C \cup M \cup A \cup dropped = 1 .. produced
      /\ dropped \cap (R \cup Holding) = {}
  BY DEF FlowInv, NoneLost, DroppedApart, Delivered
<1>o. /\ Increasing(ring) /\ Increasing(eventChan)
      /\ Increasing(exported) /\ Increasing(recorded)
      /\ Before(Holding, R) /\ Before(C, Holding \cup R)
      /\ Before(M \cup A, C \cup Holding \cup R)
  BY InOrderParts DEF FlowInv, Delivered
<1>h. Holding = IF record = 0 THEN {} ELSE {record}
  BY DEF Holding
<1>n. FlowInv' <=>
      /\ (R \cup Holding \cup C \cup M \cup A \cup dropped = 1 .. produced)'
      /\ (dropped \cap (R \cup Holding) = {})'
      /\ (Increasing(ring) /\ Increasing(eventChan))'
      /\ (Increasing(exported) /\ Increasing(recorded))'
      /\ Before(Holding, R)' /\ Before(C, Holding \cup R)'
      /\ Before(M \cup A, C \cup Holding \cup R)'
  BY DEF FlowInv, NoneLost, DroppedApart, Delivered, InOrder, Increasing, Before
<1>1. CASE Produce
  <2>1. /\ produced' = produced + 1 /\ produced' \in 1 .. MaxEvents
        /\ UNCHANGED <<record, eventChan, exported, recorded>>
    BY <1>1, <1>t DEF Produce, reading
  <2>2. 1 .. produced' = (1 .. produced) \cup {produced'}
    BY <2>1, <1>t
  <2>3. Holding' = Holding /\ C' = C /\ M' = M /\ A' = A
    BY <2>1 DEF Holding
  <2>4. CASE Len(ring) < RingCap
    <3>1. ring' = Append(ring, produced') /\ dropped' = dropped
      BY <1>1, <2>4 DEF Produce
    <3>2. R' = R \cup {produced'}
      BY <3>1, <2>1, <1>t, AppendFacts
    <3>3. Before(R, {produced'})
      BY <1>f, <1>t, <2>1 DEF Before
    <3>4. Increasing(ring')
      BY <3>1, <3>3, <2>1, <1>t, <1>o, AppendOrder
    <3>5. /\ Before(Holding, {produced'}) /\ Before(C, {produced'})
          /\ Before(M \cup A, {produced'})
      BY <1>f, <1>t, <2>1 DEF Before
    <3>6. /\ Before(Holding', R') /\ Before(C', Holding' \cup R')
          /\ Before(M' \cup A', C' \cup Holding' \cup R')
      BY <1>o, <2>3, <3>2, <3>5 DEF Before
    <3>7. produced' \notin dropped
      BY <1>f, <1>t, <2>1
    <3> QED
      <4> HIDE DEF R, C, M, A
      <4> QED BY <1>n, <1>f, <1>o, <2>1, <2>2, <2>3, <3>1, <3>2, <3>4, <3>6, <3>7
  <2>5. CASE ~(Len(ring) < RingCap)
    <3>1. ring' = ring /\ dropped' = dropped \cup {produced'}
      BY <1>1, <2>5 DEF Produce
    <3>2. R' = R
      BY <3>1
    <3>3. produced' \notin R \cup Holding
      BY <1>f, <1>t, <2>1
    <3> QED
      <4> HIDE DEF R, C, M, A
      <4> QED BY <1>n, <1>f, <1>o, <2>1, <2>2, <2>3, <3>1, <3>2, <3>3
  <2> QED BY <2>4, <2>5
<1>2. CASE Read
  <2>1. /\ ring # <<>> /\ record' = Head(ring) /\ ring' = Tail(ring)
        /\ UNCHANGED <<produced, dropped, eventChan, exported, recorded>>
        /\ record = 0
    BY <1>2 DEF Read, TypeInv, HoldsOne
  <2>2. /\ R = R' \cup {record'} /\ record' \in 1 .. MaxEvents
        /\ Increasing(ring') /\ Before({record'}, R')
    BY <2>1, <1>t, <1>o, TailFacts, TailOrder
  <2>3. Holding = {} /\ Holding' = {record'}
    BY <2>1, <2>2, <1>t DEF Holding
  <2>4. C' = C /\ M' = M /\ A' = A
    BY <2>1
  <2>5. /\ Before(Holding', R') /\ Before(C', Holding' \cup R')
        /\ Before(M' \cup A', C' \cup Holding' \cup R')
    BY <1>o, <2>2, <2>3, <2>4 DEF Before
  <2> QED
    <3> HIDE DEF R, C, M, A
    <3> QED BY <1>n, <1>f, <1>o, <2>1, <2>2, <2>3, <2>4, <2>5
<1>3. CASE Filter
  <2>1. /\ UNCHANGED <<produced, ring, eventChan, exported, recorded>>
        /\ \/ UNCHANGED <<record, dropped>>
           \/ record # 0 /\ record' = 0 /\ dropped' = dropped \cup {record}
    BY <1>3 DEF Filter, TypeInv, HoldsOne
  <2>2. R' = R /\ C' = C /\ M' = M /\ A' = A
    BY <2>1
  <2>3. CASE UNCHANGED <<record, dropped>>
    <3>1. Holding' = Holding
      BY <2>3 DEF Holding
    <3> QED
      <4> HIDE DEF R, C, M, A
      <4> QED BY <1>n, <1>f, <1>o, <2>1, <2>2, <2>3, <3>1
  <2>4. CASE record # 0 /\ record' = 0 /\ dropped' = dropped \cup {record}
    <3>1. Holding = {record} /\ Holding' = {}
      BY <2>4 DEF Holding
    <3>2. record \notin R
      BY <1>o, <1>t, <3>1 DEF Before
    <3>3. /\ Before(Holding', R') /\ Before(C', Holding' \cup R')
          /\ Before(M' \cup A', C' \cup Holding' \cup R')
      BY <1>o, <2>2, <3>1 DEF Before
    <3> QED
      <4> HIDE DEF R, C, M, A
      <4> QED BY <1>n, <1>f, <1>o, <2>1, <2>2, <2>4, <3>1, <3>2, <3>3
  <2> QED BY <2>1, <2>3, <2>4
<1>4. CASE Send
  <2>1. /\ record # 0 /\ record' = 0 /\ eventChan' = Append(eventChan, record)
        /\ UNCHANGED <<produced, dropped, ring, exported, recorded>>
    BY <1>4 DEF Send, TypeInv, HoldsOne, progress
  <2>2. Holding = {record} /\ Holding' = {} /\ record \in 1 .. MaxEvents
    BY <2>1, <1>t DEF Holding
  <2>3. R' = R /\ M' = M /\ A' = A
    BY <2>1
  <2>4. C' = C \cup {record}
    <3>1. Ids(Append(eventChan, record)) = Ids(eventChan) \cup {record}
      <4>1. eventChan \in Seq(1 .. MaxEvents) /\ record \in 1 .. MaxEvents
        BY <2>2, <1>t
      <4> QED BY <4>1, AppendIds
    <3> QED BY <2>1, <3>1
  <2>5. Before(C, {record})
    BY <1>o, <2>2 DEF Before
  <2>6. Increasing(eventChan')
    BY <2>1, <2>2, <2>5, <1>t, <1>o, AppendOrder
  <2>7. /\ Before(Holding', R') /\ Before(C', Holding' \cup R')
        /\ Before(M' \cup A', C' \cup Holding' \cup R')
    BY <1>o, <2>2, <2>3, <2>4 DEF Before
  <2> QED
    <3> HIDE DEF R, C, M, A
    <3> QED BY <1>n, <1>f, <1>o, <2>1, <2>2, <2>3, <2>4, <2>6, <2>7
<1>5. ASSUME eventChan # <<>>, eventChan' = Tail(eventChan),
             \/ exported' = Append(exported, Head(eventChan)) /\ recorded' = recorded
             \/ recorded' = Append(recorded, Head(eventChan)) /\ exported' = exported,
             UNCHANGED <<produced, dropped, ring, record>>
      PROVE  FlowInv'
  <2> DEFINE x == Head(eventChan)
  <2>1. /\ C = C' \cup {x} /\ x \in 1 .. MaxEvents
        /\ Increasing(eventChan') /\ Before({x}, C')
    BY <1>5, <1>t, <1>o, TailFacts, TailOrder
  <2>2. R' = R /\ Holding' = Holding
    BY <1>5 DEF Holding
  <2> HIDE DEF x
  <2>3. Before(M, {x}) /\ Before(A, {x})
    BY <1>o, <2>1 DEF Before
  <2>4. (M \cup A)' = M \cup A \cup {x} /\ Increasing(exported') /\ Increasing(recorded')
    <3>1. CASE exported' = Append(exported, x) /\ recorded' = recorded
      <4>1. M' = M \cup {x} /\ A' = A
        <5>1. Ids(Append(exported, x)) = Ids(exported) \cup {x}
          <6>1. exported \in Seq(1 .. MaxEvents) /\ x \in 1 .. MaxEvents
            BY <2>1, <1>t
          <6> QED BY <6>1, AppendIds
        <5> QED BY <3>1, <5>1
      <4>2. Increasing(exported')
        BY <3>1, <2>1, <2>3, <1>t, <1>o, AppendOrder
      <4> QED BY <3>1, <4>1, <4>2, <1>o
    <3>2. CASE recorded' = Append(recorded, x) /\ exported' = exported
      <4>1. A' = A \cup {x} /\ M' = M
        <5>1. Ids(Append(recorded, x)) = Ids(recorded) \cup {x}
          <6>1. recorded \in Seq(1 .. MaxEvents) /\ x \in 1 .. MaxEvents
            BY <2>1, <1>t
          <6> QED BY <6>1, AppendIds
        <5> QED BY <3>2, <5>1
      <4>2. Increasing(recorded')
        BY <3>2, <2>1, <2>3, <1>t, <1>o, AppendOrder
      <4> QED BY <3>2, <4>1, <4>2, <1>o
    <3> QED BY <1>5, <3>1, <3>2 DEF x
  <2>5. /\ Before(Holding', R') /\ Before(C', Holding' \cup R')
        /\ Before((M \cup A)', C' \cup Holding' \cup R')
    BY <1>o, <2>1, <2>2, <2>4 DEF Before
  <2> QED
    <3> HIDE DEF R, C, M, A
    <3> QED BY <1>n, <1>f, <1>o, <1>5, <2>1, <2>2, <2>4, <2>5
<1>6. CASE Export
  BY <1>5, <1>6 DEF Export, progress, reading
<1>7. CASE AddEvent
  BY <1>5, <1>7 DEF AddEvent, progress, reading
<1>8. ASSUME UNCHANGED <<produced, dropped, ring, record, eventChan, exported, recorded>>
      PROVE  FlowInv'
  BY <1>8 DEF FlowInv, NoneLost, DroppedApart, Delivered, Holding, InOrder
<1>9. CASE ReadClosed \/ Start \/ LeaveSelect \/ Report \/ Stop \/ UNCHANGED vars
  BY <1>8, <1>9 DEF ReadClosed, Start, LeaveSelect, Report, Stop, vars, progress, reading
<1> QED BY <1>1, <1>2, <1>3, <1>4, <1>6, <1>7, <1>9 DEF Next
-----------------------------------------------------------------------------
(* The second part of Conservation. *)
Counted ==
  Len(ring) + Cardinality(Holding) + Len(eventChan) + Len(exported) + Len(recorded)
    + Cardinality(dropped) = produced

(* The counts that Counted adds up. *)
LEMMA Counts ==
  ASSUME TypeInv, NoneLost
  PROVE  /\ Len(ring) \in Nat /\ Len(eventChan) \in Nat
         /\ Len(exported) \in Nat /\ Len(recorded) \in Nat /\ produced \in Nat
         /\ Cardinality(Holding) = IF record = 0 THEN 0 ELSE 1
         /\ IsFiniteSet(dropped) /\ Cardinality(dropped) \in Nat
<1>1. produced \in Nat /\ dropped \subseteq 1 .. produced
  BY Bounded DEF TypeInv
<1>2. IsFiniteSet(dropped) /\ Cardinality(dropped) \in Nat
  <2>1. IsFiniteSet(1 .. produced)
    BY <1>1, FS_Interval
  <2>2. IsFiniteSet(dropped)
    BY <1>1, <2>1, FS_Subset
  <2> QED BY <2>2, FS_CardinalityType
<1>3. Holding = IF record = 0 THEN {} ELSE {record}
  BY DEF Holding
<1>4. Cardinality(Holding) = IF record = 0 THEN 0 ELSE 1
  BY <1>3, FS_EmptySet, FS_Singleton
<1> QED BY <1>1, <1>2, <1>4 DEF TypeInv, TypeOK

(* Nothing has been counted in the initial state. *)
LEMMA CountInit == Init => Counted
<1> SUFFICES ASSUME Init PROVE Counted
  OBVIOUS
<1>1. Holding = {}
  BY DEF Init, Holding
<1> QED BY <1>1, FS_EmptySet DEF Init, Counted

(* Every step moves an event from one place to one other. *)
LEMMA CountStep ==
  TypeInv /\ FlowInv /\ Counted /\ [Next]_vars /\ TypeInv' /\ NoneLost' => Counted'
<1> SUFFICES ASSUME TypeInv, FlowInv, Counted, [Next]_vars, TypeInv', NoneLost'
             PROVE  Counted'
  OBVIOUS
<1>f. NoneLost /\ DroppedApart /\ InOrder
  BY DEF FlowInv
<1>t. /\ ring \in Seq(1 .. MaxEvents) /\ eventChan \in Seq(1 .. MaxEvents)
      /\ exported \in Seq(1 .. MaxEvents) /\ recorded \in Seq(1 .. MaxEvents)
      /\ record \in 0 .. MaxEvents
  BY DEF TypeInv, TypeOK
<1> DEFINE r == Len(ring)
           c == Len(eventChan)
           m == Len(exported)
           a == Len(recorded)
           h == Cardinality(Holding)
           d == Cardinality(dropped)
<1>c. /\ r \in Nat /\ c \in Nat /\ m \in Nat /\ a \in Nat /\ d \in Nat /\ produced \in Nat
      /\ IsFiniteSet(dropped)
  BY <1>f, Counts
<1>h. /\ record = 0 => h = 0
      /\ record # 0 => h = 1
      /\ record' = 0 => h' = 0
      /\ record' # 0 => h' = 1
  <2>1. /\ Holding = IF record = 0 THEN {} ELSE {record}
        /\ Holding' = IF record' = 0 THEN {} ELSE {record'}
    BY DEF Holding
  <2> QED BY <2>1, FS_EmptySet, FS_Singleton
<1>k. h \in Nat /\ (record' = record => h' = h)
  BY <1>h
<1>n. r + h + c + m + a + d = produced
  BY DEF Counted
<1>g. Counted' <=> (r' + h' + c' + m' + a' + d' = produced')
  BY DEF Counted
<1>a. \A q \in Seq(1 .. MaxEvents) : \A x : Len(Append(q, x)) = Len(q) + 1
  OBVIOUS
<1>b. \A q \in Seq(1 .. MaxEvents) : q # <<>> => Len(Tail(q)) = Len(q) - 1
  OBVIOUS
<1>d. ASSUME NEW x, x \notin dropped, dropped' = dropped \cup {x}
      PROVE  d' = d + 1
  BY <1>d, <1>c, FS_AddElement
<1>s. /\ ring' = ring => r' = r
      /\ eventChan' = eventChan => c' = c
      /\ exported' = exported => m' = m
      /\ recorded' = recorded => a' = a
      /\ dropped' = dropped => d' = d
  OBVIOUS
<1>1. CASE Produce
  <2>1. /\ produced' = produced + 1
        /\ record' = record /\ eventChan' = eventChan
        /\ exported' = exported /\ recorded' = recorded
    BY <1>1 DEF Produce, reading
  <2>2. CASE ring' = Append(ring, produced') /\ dropped' = dropped
    <3>1. r' = r + 1
      BY <2>2, <1>a, <1>t
    <3> HIDE DEF r, c, m, a, h, d
    <3> QED BY <3>1, <2>1, <2>2, <1>c, <1>k, <1>n, <1>g, <1>s
  <2>3. CASE ring' = ring /\ dropped' = dropped \cup {produced'}
    <3>1. produced' \notin dropped
      BY <2>1, <1>c, <1>f, Bounded DEF TypeInv
    <3>2. d' = d + 1
      BY <2>3, <3>1, <1>d
    <3> HIDE DEF r, c, m, a, h, d
    <3> QED BY <3>2, <2>1, <2>3, <1>c, <1>k, <1>n, <1>g, <1>s
  <2> QED BY <1>1, <2>2, <2>3 DEF Produce
<1>2. CASE Read
  <2>1. /\ ring # <<>> /\ ring' = Tail(ring) /\ record = 0 /\ record' # 0
        /\ produced' = produced /\ dropped' = dropped /\ eventChan' = eventChan
        /\ exported' = exported /\ recorded' = recorded
    BY <1>2 DEF Read, TypeInv, HoldsOne
  <2>2. r' = r - 1
    BY <2>1, <1>b, <1>t
  <2> HIDE DEF r, c, m, a, h, d
  <2> QED BY <2>1, <2>2, <1>c, <1>h, <1>k, <1>n, <1>g, <1>s
<1>3. CASE Filter
  <2>1. /\ record # 0
        /\ produced' = produced /\ ring' = ring /\ eventChan' = eventChan
        /\ exported' = exported /\ recorded' = recorded
        /\ \/ record' = record /\ dropped' = dropped
           \/ record' = 0 /\ dropped' = dropped \cup {record}
    BY <1>3 DEF Filter, TypeInv, HoldsOne
  <2>2. CASE record' = record /\ dropped' = dropped
    <3> HIDE DEF r, c, m, a, h, d
    <3> QED BY <2>1, <2>2, <1>c, <1>h, <1>k, <1>n, <1>g, <1>s
  <2>3. CASE record' = 0 /\ dropped' = dropped \cup {record}
    <3>1. record \notin dropped
      BY <2>1, <1>f DEF DroppedApart, Holding
    <3>2. d' = d + 1
      BY <2>3, <3>1, <1>d
    <3> HIDE DEF r, c, m, a, h, d
    <3> QED BY <2>1, <2>3, <3>2, <1>c, <1>h, <1>k, <1>n, <1>g, <1>s
  <2> QED BY <2>1, <2>2, <2>3
<1>4. CASE Send
  <2>1. /\ record # 0 /\ record' = 0 /\ eventChan' = Append(eventChan, record)
        /\ produced' = produced /\ dropped' = dropped /\ ring' = ring
        /\ exported' = exported /\ recorded' = recorded
    BY <1>4 DEF Send, TypeInv, HoldsOne, progress
  <2>2. c' = c + 1
    BY <2>1, <1>a, <1>t
  <2> HIDE DEF r, c, m, a, h, d
  <2> QED BY <2>1, <2>2, <1>c, <1>h, <1>k, <1>n, <1>g, <1>s
<1>5. CASE Export
  <2>1. /\ eventChan # <<>> /\ eventChan' = Tail(eventChan)
        /\ exported' = Append(exported, Head(eventChan)) /\ recorded' = recorded
        /\ produced' = produced /\ dropped' = dropped /\ ring' = ring /\ record' = record
    BY <1>5 DEF Export, progress, reading
  <2>2. c' = c - 1 /\ m' = m + 1
    BY <2>1, <1>a, <1>b, <1>t
  <2> HIDE DEF r, c, m, a, h, d
  <2> QED BY <2>1, <2>2, <1>c, <1>k, <1>n, <1>g, <1>s
<1>6. CASE AddEvent
  <2>1. /\ eventChan # <<>> /\ eventChan' = Tail(eventChan)
        /\ recorded' = Append(recorded, Head(eventChan)) /\ exported' = exported
        /\ produced' = produced /\ dropped' = dropped /\ ring' = ring /\ record' = record
    BY <1>6 DEF AddEvent, progress, reading
  <2>2. c' = c - 1 /\ a' = a + 1
    BY <2>1, <1>a, <1>b, <1>t
  <2> HIDE DEF r, c, m, a, h, d
  <2> QED BY <2>1, <2>2, <1>c, <1>k, <1>n, <1>g, <1>s
<1>7. CASE ReadClosed \/ Start \/ LeaveSelect \/ Report \/ Stop \/ UNCHANGED vars
  <2>1. /\ produced' = produced /\ dropped' = dropped /\ ring' = ring /\ record' = record
        /\ eventChan' = eventChan /\ exported' = exported /\ recorded' = recorded
    BY <1>7 DEF ReadClosed, Start, LeaveSelect, Report, Stop, vars, progress, reading
  <2> QED BY <2>1 DEF Counted, Holding
<1> QED BY <1>1, <1>2, <1>3, <1>4, <1>5, <1>6, <1>7 DEF Next
-----------------------------------------------------------------------------
(* The three invariants together. *)
THEOREM Invariant == Spec => [](TypeInv /\ FlowInv /\ Counted)
<1>1. Init => TypeInv /\ FlowInv /\ Counted
  BY TypeInit, FlowInit, CountInit
<1>2. TypeInv /\ FlowInv /\ Counted /\ [Next]_vars => (TypeInv /\ FlowInv /\ Counted)'
  BY TypeStep, FlowStep, CountStep DEF FlowInv
<1> QED BY <1>1, <1>2, PTL DEF Spec

(* No event is lost or doubled between the ring buffer and the two receivers,    *)
(* for any number of events and any capacities.                                  *)
THEOREM ConservationCorrect == Spec => []Conservation
<1>1. FlowInv /\ Counted => Conservation
  BY DEF FlowInv, Counted, NoneLost, Conservation
<1> QED BY <1>1, Invariant, PTL

(* Whoever receives an event, it is younger than all that were received before:  *)
(* each receiver sees a subsequence of what the programs produced, in order.     *)
THEOREM InOrderCorrect == Spec => []InOrder
<1>1. FlowInv => InOrder
  BY DEF FlowInv
<1> QED BY <1>1, Invariant, PTL
-----------------------------------------------------------------------------
(* The initial state of the pipeline is one of Dispatch. *)
LEMMA AbstractInit == Init => Abstract!Init
BY DEF Init, Abstract!Init

(* Every step of the pipeline delivers the next event, produces one, or is    *)
(* not visible to the receivers.                                              *)
LEMMA AbstractStep ==
  TypeInv /\ FlowInv /\ [Next]_vars => [Abstract!Next]_(Abstract!vars)
<1> SUFFICES ASSUME TypeInv, FlowInv, [Next]_vars
             PROVE  Abstract!Next \/ UNCHANGED <<produced, exported, recorded>>
  BY DEF Abstract!vars
<1> DEFINE got == [r \in {"metrics", "report"} |-> IF r = "metrics" THEN exported ELSE recorded]
<1>1. CASE Produce
  <2>1. produced' = produced + 1 /\ exported' = exported /\ recorded' = recorded
    BY <1>1 DEF Produce
  <2> QED BY <2>1 DEF Abstract!Next, Abstract!Produce
<1>2. ASSUME eventChan # <<>>
      PROVE  LET id == Head(eventChan)
             IN /\ id \in 1 .. produced
                /\ \A q \in {"metrics", "report"} : \A i \in DOMAIN got[q] : got[q][i] < id
  <2> DEFINE id == Head(eventChan)
  <2>1. eventChan \in Seq(1 .. MaxEvents)
    BY DEF TypeInv, TypeOK
  <2>2. id \in Ids(eventChan)
    BY <2>1, <1>2, TailFacts
  <2>3. id \in 1 .. produced
    BY <2>2, Bounded DEF TypeInv, FlowInv
  <2>4. \A a \in Delivered : a < id
    BY <2>2, InOrderParts DEF FlowInv, Before
  <2>5. /\ \A i \in DOMAIN exported : exported[i] \in Delivered
        /\ \A i \in DOMAIN recorded : recorded[i] \in Delivered
    BY DEF Delivered, Ids
  <2> QED BY <2>3, <2>4, <2>5
<1>3. CASE Export
  <2>1. /\ eventChan # <<>> /\ exported' = Append(exported, Head(eventChan))
        /\ recorded' = recorded /\ produced' = produced
    BY <1>3 DEF Export, progress
  <2>2. Abstract!Deliver("metrics")
    BY <2>1, <1>2 DEF Abstract!Deliver
  <2> QED BY <2>2 DEF Abstract!Next
<1>4. CASE AddEvent
  <2>1. /\ eventChan # <<>> /\ recorded' = Append(recorded, Head(eventChan))
        /\ exported' = exported /\ produced' = produced
    BY <1>4 DEF AddEvent, progress
  <2>2. Abstract!Deliver("report")
    BY <2>1, <1>2 DEF Abstract!Deliver
  <2> QED BY <2>2 DEF Abstract!Next
<1>5. CASE Read \/ ReadClosed \/ Filter \/ Send \/ Start \/ LeaveSelect \/ Report \/ Stop
           \/ UNCHANGED vars
  BY <1>5 DEF Read, ReadClosed, Filter, Send, Start, LeaveSelect, Report, Stop, vars,
              progress, reading
<1> QED BY <1>1, <1>3, <1>4, <1>5 DEF Next

(* The pipeline implements Dispatch: at most one delivery per event, to one      *)
(* receiver, in the order of production.                                         *)
THEOREM DispatchImplemented == Spec => ImplementsDispatch
BY AbstractInit, AbstractStep, Invariant, PTL DEF Spec, ImplementsDispatch, Abstract!Spec
=============================================================================
