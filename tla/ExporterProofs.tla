--------------------------- MODULE ExporterProofs ---------------------------
(***************************************************************************)
(* Proofs about Exporter, for any events and any number of them, and for   *)
(* any interleaving of updates and scrapes: what the series add up to, and *)
(* what a page shows of them.                                              *)
(***************************************************************************)
EXTENDS Exporter, FiniteSetTheorems, WellFoundedInduction, SequenceTheorems, TLAPS
-----------------------------------------------------------------------------
(* The two orders of an Export function and what is left after each step. *)
ObserveFirst == <<"new histogram", "observe", "new gauge", "set">>
ObserveLeft == <<"observe", "new gauge", "set">>
GaugeLeft == <<"new gauge", "set">>
SetLeft == <<"set">>
SetFirst == <<"new gauge", "set", "new histogram", "observe">>
SetNext == <<"set", "new histogram", "observe">>
HistogramLeft == <<"new histogram", "observe">>
ObserveLast == <<"observe">>

(* Taking the head off three elements. *)
LEMMA TailOfThree ==
  \A a, b, c :
    Head(<<a, b, c>>) = a /\ Tail(<<a, b, c>>) = <<b, c>>
<1> TAKE a, b, c
<1> DEFINE S == {a, b, c}
           s == <<a, b, c>>
           t == <<b, c>>
<1>1. s \in Seq(S) /\ Len(s) = 3 /\ s[1] = a /\ s[2] = b /\ s[3] = c
  OBVIOUS
<1>2. t \in Seq(S) /\ Len(t) = 2 /\ t[1] = b /\ t[2] = c
  OBVIOUS
<1>3. s # <<>>
  OBVIOUS
<1> HIDE DEF S, s, t
<1>4. /\ Tail(s) \in Seq(S) /\ Len(Tail(s)) = Len(s) - 1
      /\ \A i \in 1 .. Len(Tail(s)) : Tail(s)[i] = s[i + 1]
  BY <1>1, <1>3, HeadTailProperties
<1>5. Len(Tail(s)) = 2
  BY <1>1, <1>4
<1>6. Tail(s)[1] = s[2] /\ Tail(s)[2] = s[3]
  <2>1. Tail(s)[1] = s[2]
    <3>1. 1 \in 1 .. Len(Tail(s)) /\ 1 + 1 = 2
      BY <1>5
    <3> QED BY <1>4, <3>1
  <2>2. Tail(s)[2] = s[3]
    <3>1. 2 \in 1 .. Len(Tail(s)) /\ 2 + 1 = 3
      BY <1>5
    <3> QED BY <1>4, <3>1
  <2> QED BY <2>1, <2>2
<1>7. \A i \in 1 .. 2 : i = 1 \/ i = 2
  OBVIOUS
<1>8. \A i \in 1 .. 2 : Tail(s)[i] = t[i]
  BY <1>1, <1>2, <1>6, <1>7
<1>9. Tail(s) = t
  BY <1>2, <1>4, <1>5, <1>8, SeqEqual
<1>10. Head(s) = a
  BY <1>1, <1>3
<1> QED BY <1>9, <1>10 DEF s, t

(* Taking the head off four elements. *)
LEMMA TailOfFour ==
  \A a, b, c, d :
    Head(<<a, b, c, d>>) = a /\ Tail(<<a, b, c, d>>) = <<b, c, d>>
<1> TAKE a, b, c, d
<1> DEFINE S == {a, b, c, d}
           s == <<a, b, c, d>>
           t == <<b, c, d>>
<1>1. s \in Seq(S) /\ Len(s) = 4 /\ s[1] = a /\ s[2] = b /\ s[3] = c /\ s[4] = d
  OBVIOUS
<1>2. t \in Seq(S) /\ Len(t) = 3 /\ t[1] = b /\ t[2] = c /\ t[3] = d
  OBVIOUS
<1>3. s # <<>>
  OBVIOUS
<1> HIDE DEF S, s, t
<1>4. /\ Tail(s) \in Seq(S) /\ Len(Tail(s)) = Len(s) - 1
      /\ \A i \in 1 .. Len(Tail(s)) : Tail(s)[i] = s[i + 1]
  BY <1>1, <1>3, HeadTailProperties
<1>5. Len(Tail(s)) = 3
  BY <1>1, <1>4
<1>6. Tail(s)[1] = s[2] /\ Tail(s)[2] = s[3] /\ Tail(s)[3] = s[4]
  <2>1. Tail(s)[1] = s[2]
    <3>1. 1 \in 1 .. Len(Tail(s)) /\ 1 + 1 = 2
      BY <1>5
    <3> QED BY <1>4, <3>1
  <2>2. Tail(s)[2] = s[3]
    <3>1. 2 \in 1 .. Len(Tail(s)) /\ 2 + 1 = 3
      BY <1>5
    <3> QED BY <1>4, <3>1
  <2>3. Tail(s)[3] = s[4]
    <3>1. 3 \in 1 .. Len(Tail(s)) /\ 3 + 1 = 4
      BY <1>5
    <3> QED BY <1>4, <3>1
  <2> QED BY <2>1, <2>2, <2>3
<1>7. \A i \in 1 .. 3 : i = 1 \/ i = 2 \/ i = 3
  OBVIOUS
<1>8. \A i \in 1 .. 3 : Tail(s)[i] = t[i]
  BY <1>1, <1>2, <1>6, <1>7
<1>9. Tail(s) = t
  BY <1>2, <1>4, <1>5, <1>8, SeqEqual
<1>10. Head(s) = a
  BY <1>1, <1>3
<1> QED BY <1>9, <1>10 DEF s, t

(* Every step of an Export function leads to the next of these. *)
LEMMA Order ==
  /\ Head(ObserveFirst) = "new histogram" /\ Tail(ObserveFirst) = ObserveLeft
  /\ Head(ObserveLeft) = "observe" /\ Tail(ObserveLeft) = GaugeLeft
  /\ Head(GaugeLeft) = "new gauge" /\ Tail(GaugeLeft) = SetLeft
  /\ Head(SetLeft) = "set" /\ Tail(SetLeft) = <<>>
  /\ Head(SetFirst) = "new gauge" /\ Tail(SetFirst) = SetNext
  /\ Head(SetNext) = "set" /\ Tail(SetNext) = HistogramLeft
  /\ Head(HistogramLeft) = "new histogram" /\ Tail(HistogramLeft) = ObserveLast
  /\ Head(ObserveLast) = "observe" /\ Tail(ObserveLast) = <<>>
<1> USE DEF ObserveFirst, ObserveLeft, GaugeLeft, SetLeft,
            SetFirst, SetNext, HistogramLeft, ObserveLast
<1>1. /\ Head(ObserveFirst) = "new histogram" /\ Tail(ObserveFirst) = ObserveLeft
      /\ Head(SetFirst) = "new gauge" /\ Tail(SetFirst) = SetNext
  <2>1. Head(ObserveFirst) = "new histogram" /\ Tail(ObserveFirst) = ObserveLeft
    BY TailOfFour
  <2>2. Head(SetFirst) = "new gauge" /\ Tail(SetFirst) = SetNext
    BY TailOfFour
  <2> QED BY <2>1, <2>2
<1>2. /\ Head(ObserveLeft) = "observe" /\ Tail(ObserveLeft) = GaugeLeft
      /\ Head(SetNext) = "set" /\ Tail(SetNext) = HistogramLeft
  BY TailOfThree
<1>3. /\ Head(GaugeLeft) = "new gauge" /\ Tail(GaugeLeft) = SetLeft
      /\ Head(HistogramLeft) = "new histogram" /\ Tail(HistogramLeft) = ObserveLast
  OBVIOUS
<1>4. Head(SetLeft) = "set" /\ Tail(SetLeft) = <<>>
  OBVIOUS
<1>5. Head(ObserveLast) = "observe" /\ Tail(ObserveLast) = <<>>
  OBVIOUS
<1> QED BY <1>1, <1>2, <1>3, <1>4, <1>5

(* An event has one of the two orders, or no steps at all. *)
LEMMA StepsAre == \A e : Steps(e) \in {<<>>, ObserveFirst, SetFirst}
BY DEF Steps, ObserveFirst, SetFirst

(* Nothing in progress is the empty sequence only. *)
LEMMA NotIdle ==
  <<>> \notin {ObserveFirst, ObserveLeft, GaugeLeft, SetLeft,
               SetFirst, SetNext, HistogramLeft, ObserveLast}
BY DEF ObserveFirst, ObserveLeft, GaugeLeft, SetLeft,
       SetFirst, SetNext, HistogramLeft, ObserveLast

(* What an event belongs to is the series it updates. *)
LEMMA BelongsToItsSeries ==
  ASSUME NEW e \in Inputs, NEW s \in AllSeries, Belongs(e, s)
  PROVE  Steps(e) # <<>> /\ Series(e) = s
<1>1. PICK x \in Inputs : s = Series(x) /\ Steps(x) # <<>>
  BY DEF AllSeries
<1>2. x.type \in EventTypes /\ e.type \in EventTypes
  BY ExporterAssumption
<1>3. s[1] = Family(x.type) /\ s[2] = TypeString(x.type) /\ s[3] = x.name
  BY <1>1 DEF Series
<1>4. x.type # "READ"
  BY <1>1 DEF Steps, Family
<1>5. Family(e.type) = Family(x.type) /\ TypeString(e.type) = TypeString(x.type)
  <2> USE DEF Family, TypeString
  <2>1. CASE x.type \in {"TCP_SEND", "TCP_RECV"}
    BY <1>3, <2>1 DEF Belongs
  <2>2. CASE x.type = "CONNECT"
    BY <1>3, <2>2 DEF Belongs
  <2>3. CASE x.type = "DNS"
    BY <1>3, <2>3 DEF Belongs
  <2>4. CASE x.type \in {"WRITE", "FSYNC"}
    BY <1>3, <2>4 DEF Belongs
  <2>5. CASE x.type = "SCHED_SWITCH"
    BY <1>3, <2>5 DEF Belongs
  <2> QED BY <1>2, <1>4, <2>1, <2>2, <2>3, <2>4, <2>5 DEF EventTypes
<1>6. Series(e) = s
  BY <1>1, <1>3, <1>5 DEF Belongs, Series
<1>7. Steps(e) = Steps(x)
  BY <1>5 DEF Steps
<1> QED BY <1>1, <1>6, <1>7

(* And it belongs to the series it updates. *)
LEMMA SeriesHasItsEvents ==
  ASSUME NEW e \in Inputs, Steps(e) # <<>>
  PROVE  Series(e) \in AllSeries /\ Belongs(e, Series(e))
<1>1. e.type \in EventTypes
  BY ExporterAssumption
<1>2. Family(e.type) # "none"
  BY DEF Steps
<1>3. Belongs(e, Series(e))
  <2>1. Series(e)[1] = Family(e.type) /\ Series(e)[3] = e.name
    BY DEF Series
  <2>2. CASE e.type \in {"TCP_SEND", "TCP_RECV"}
    BY <2>1, <2>2 DEF Belongs, Family
  <2>3. CASE e.type = "CONNECT"
    BY <2>1, <2>3 DEF Belongs, Family
  <2>4. CASE e.type = "DNS"
    BY <2>1, <2>4 DEF Belongs, Family
  <2>5. CASE e.type \in {"WRITE", "FSYNC"}
    BY <2>1, <2>5 DEF Belongs, Family
  <2>6. CASE e.type = "SCHED_SWITCH"
    BY <2>1, <2>6 DEF Belongs, Family
  <2>7. CASE e.type = "READ"
    BY <1>2, <2>7 DEF Family
  <2> QED BY <1>1, <2>2, <2>3, <2>4, <2>5, <2>6, <2>7 DEF EventTypes
<1> QED BY <1>3 DEF AllSeries

(* Only reads update nothing. *)
LEMMA OnlyReadsDropped ==
  ASSUME NEW e \in Inputs, e.type # "READ"
  PROVE  Steps(e) # <<>>
<1>1. e.type \in EventTypes
  BY ExporterAssumption
<1>2. Family(e.type) # "none"
  BY <1>1 DEF EventTypes, Family
<1>3. Steps(e) \in {ObserveFirst, SetFirst}
  BY <1>2 DEF Steps, ObserveFirst, SetFirst
<1> QED BY <1>3, NotIdle

-----------------------------------------------------------------------------
(* The inductive invariant: which series of the event in progress exist after   *)
(* each step, and whether it is still to be counted.                            *)
InHistograms == Series(Last(taken)) \in DOMAIN histograms
InGauges == Series(Last(taken)) \in DOMAIN gauges
Uncounted == \A s \in DOMAIN histograms : histograms[s].count < Len(taken)

Progress ==
  \/ pending = <<>>
  \/ pending = ObserveFirst /\ Uncounted
  \/ pending = ObserveLeft /\ Uncounted /\ InHistograms
  \/ pending = GaugeLeft /\ InHistograms
  \/ pending = SetLeft /\ InHistograms /\ InGauges
  \/ pending = SetFirst /\ Uncounted
  \/ pending = SetNext /\ Uncounted /\ InGauges
  \/ pending = HistogramLeft /\ Uncounted /\ InGauges
  \/ pending = ObserveLast /\ Uncounted /\ InGauges /\ InHistograms

(* The series of an event exist, unless it is of the kind that has none. *)
Exported(e) == Steps(e) # <<>> => Series(e) \in DOMAIN histograms \cap DOMAIN gauges

(* Every completed event is exported, and the one in progress is a real one. *)
ProgressInv ==
  /\ Progress
  /\ \A i \in 1 .. Completed : Exported(taken[i])
  /\ ~Idle => taken # <<>> /\ Steps(Last(taken)) # <<>>

(* The events completed when a scrape started stay completed. *)
BeforeInv == before <= Completed

(* What the series add up to: the event in progress is in the histogram or the   *)
(* gauge of its series as soon as that step is done.                            *)
Unobserved ==
  pending \in {ObserveFirst, ObserveLeft, SetFirst, SetNext, HistogramLeft, ObserveLast}
Unset == pending \in {ObserveFirst, ObserveLeft, GaugeLeft, SetLeft, SetFirst, SetNext}
Done(todo) == IF todo THEN Len(taken) - 1 ELSE Len(taken)

GaugeOf(own) == IF own = {} THEN 0 ELSE Latest(own)

ValuesInv ==
  /\ \A s \in AllSeries :
       IF s \in DOMAIN histograms THEN histograms[s] = Observed(EventsOf(s, Done(Unobserved)))
       ELSE EventsOf(s, Done(Unobserved)) = {}
  /\ \A s \in AllSeries :
       IF s \in DOMAIN gauges THEN gauges[s] = GaugeOf(EventsOf(s, Done(Unset)))
       ELSE EventsOf(s, Done(Unset)) = {}
  /\ \A s \in DOMAIN histograms \cup DOMAIN gauges : EventsOf(s, Len(taken)) # {}

IInv == TypeOK /\ ProgressInv /\ BeforeInv /\ ScrapeComplete /\ ValuesInv /\ ScrapeFresh

(* The numbers of events, and the last of them. *)
LEMMA Counted ==
  ASSUME TypeOK, ProgressInv
  PROVE  /\ Len(taken) \in Nat /\ Completed \in Nat /\ Completed <= Len(taken)
         /\ before \in Nat /\ before <= Len(taken)
         /\ ~Idle => Completed + 1 = Len(taken) /\ Last(taken) = taken[Len(taken)]
                     /\ Last(taken) \in Inputs /\ Series(Last(taken)) \in AllSeries
<1>1. taken \in Seq(Inputs)
  BY DEF TypeOK
<1>2. Len(taken) \in Nat /\ (taken # <<>> => Len(taken) # 0 /\ taken[Len(taken)] \in Inputs)
  BY <1>1
<1>3. before \in Nat /\ before <= Len(taken)
  BY <1>2 DEF TypeOK
<1>4. Last(taken) = taken[Len(taken)]
  BY DEF Last
<1>5. ~Idle => Len(taken) # 0 /\ Last(taken) \in Inputs /\ Steps(Last(taken)) # <<>>
  BY <1>2, <1>4 DEF ProgressInv
<1>6. ~Idle => Series(Last(taken)) \in AllSeries
  BY <1>5 DEF AllSeries
<1>7. Completed = IF Idle THEN Len(taken) ELSE Len(taken) - 1
  BY DEF Completed
<1> QED BY <1>2, <1>3, <1>4, <1>5, <1>6, <1>7

(* There are no values at first. *)
LEMMA ValuesInit == Init => ValuesInv /\ ScrapeFresh
<1> SUFFICES ASSUME Init PROVE ValuesInv /\ ScrapeFresh
  OBVIOUS
<1>1. histograms = <<>> /\ gauges = <<>> /\ page = <<>> /\ taken = <<>> /\ pending = <<>>
  BY DEF Init
<1>2. DOMAIN <<>> = {} /\ Len(<<>>) = 0 /\ 1 .. 0 = {}
  OBVIOUS
<1>3. ~Unobserved /\ ~Unset
  BY <1>1, NotIdle DEF Unobserved, Unset
<1>4. \A s : EventsOf(s, 0) = {}
  BY <1>2 DEF EventsOf
<1>5. Done(Unobserved) = 0 /\ Done(Unset) = 0
  BY <1>1, <1>2, <1>3 DEF Done
<1>6. ValuesInv
  BY <1>1, <1>2, <1>4, <1>5 DEF ValuesInv
<1>7. ScrapeFresh
  BY <1>1, <1>2 DEF ScrapeFresh
<1> QED BY <1>6, <1>7

(* Nothing is taken or read at first. *)
THEOREM IInvInit == Init => IInv
<1> SUFFICES ASSUME Init PROVE IInv
  OBVIOUS
<1>1. /\ DOMAIN <<>> = {} /\ Len(<<>>) = 0 /\ <<>> \in Seq(Inputs) /\ 1 .. 0 = {}
  OBVIOUS
<1>2. TypeOK
  BY <1>1, ExporterAssumption DEF Init, TypeOK
<1>3. ProgressInv
  BY <1>1 DEF Init, ProgressInv, Progress, Idle, Completed
<1>4. ScrapeComplete
  BY <1>1 DEF Init, ScrapeComplete
<1>5. BeforeInv
  BY <1>1 DEF Init, BeforeInv, Completed, Idle
<1> QED BY <1>2, <1>3, <1>4, <1>5, ValuesInit DEF IInv

(* What one step of an Export function does to the series. *)
LEMMA UpdateEffect ==
  ASSUME Update
  PROVE  LET s == Series(Last(taken))
         IN /\ DOMAIN histograms \subseteq DOMAIN histograms'
            /\ DOMAIN histograms' \subseteq DOMAIN histograms \cup {s}
            /\ DOMAIN gauges \subseteq DOMAIN gauges'
            /\ DOMAIN gauges' \subseteq DOMAIN gauges \cup {s}
            /\ Head(pending) \in {"new histogram", "observe"} => s \in DOMAIN histograms'
            /\ Head(pending) \in {"new gauge", "set"} => s \in DOMAIN gauges'
            /\ Head(pending) \in {"new gauge", "set"} => histograms' = histograms
            /\ \A x \in DOMAIN histograms' :
                 \/ x \in DOMAIN histograms /\ histograms'[x] = histograms[x]
                 \/ Head(pending) = "new histogram" /\ histograms'[x] = [count |-> 0, sum |-> 0]
                 \/ /\ Head(pending) = "observe" /\ x = s
                    /\ histograms'[x] = Observation(histograms[s], Last(taken).latency)
            /\ \A x \in DOMAIN gauges' :
                 \/ x \in DOMAIN gauges /\ gauges'[x] = gauges[x]
                 \/ gauges'[x] \in {0, Last(taken).latency}
<1> DEFINE s == Series(Last(taken))
           step == Head(pending)
<1>1. histograms' =
        IF step = "new histogram" /\ s \notin DOMAIN histograms
        THEN Put(histograms, s, [count |-> 0, sum |-> 0])
        ELSE IF step = "observe"
             THEN Put(histograms, s, Observation(histograms[s], Last(taken).latency))
             ELSE histograms
  BY DEF Update
<1>2. gauges' =
        IF step = "new gauge" /\ s \notin DOMAIN gauges THEN Put(gauges, s, 0)
        ELSE IF step = "set" THEN Put(gauges, s, Last(taken).latency) ELSE gauges
  BY DEF Update
<1> HIDE DEF s, step
<1>3. /\ DOMAIN histograms \subseteq DOMAIN histograms'
      /\ DOMAIN histograms' \subseteq DOMAIN histograms \cup {s}
      /\ step \in {"new histogram", "observe"} => s \in DOMAIN histograms'
      /\ step \in {"new gauge", "set"} => histograms' = histograms
      /\ \A x \in DOMAIN histograms' :
           \/ x \in DOMAIN histograms /\ histograms'[x] = histograms[x]
           \/ step = "new histogram" /\ histograms'[x] = [count |-> 0, sum |-> 0]
           \/ /\ step = "observe" /\ x = s
              /\ histograms'[x] = Observation(histograms[s], Last(taken).latency)
  <2>1. CASE step = "new histogram" /\ s \notin DOMAIN histograms
    BY <1>1, <2>1 DEF Put
  <2>2. CASE step = "observe"
    BY <1>1, <2>2 DEF Put
  <2>3. CASE step # "observe" /\ ~(step = "new histogram" /\ s \notin DOMAIN histograms)
    BY <1>1, <2>3
  <2> QED BY <2>1, <2>2, <2>3
<1>4. /\ DOMAIN gauges \subseteq DOMAIN gauges'
      /\ DOMAIN gauges' \subseteq DOMAIN gauges \cup {s}
      /\ step \in {"new gauge", "set"} => s \in DOMAIN gauges'
      /\ \A x \in DOMAIN gauges' :
           \/ x \in DOMAIN gauges /\ gauges'[x] = gauges[x]
           \/ gauges'[x] \in {0, Last(taken).latency}
  <2>1. CASE step = "new gauge" /\ s \notin DOMAIN gauges
    BY <1>2, <2>1 DEF Put
  <2>2. CASE step = "set"
    BY <1>2, <2>2 DEF Put
  <2>3. CASE step # "set" /\ ~(step = "new gauge" /\ s \notin DOMAIN gauges)
    BY <1>2, <2>3
  <2> QED BY <2>1, <2>2, <2>3
<1> QED BY <1>3, <1>4 DEF s, step

(* Each step of an Export function, what it finds and what it leaves to do. *)
LEMMA UpdateSteps ==
  ASSUME ProgressInv, Update
  PROVE  \/ /\ Head(pending) = "new histogram" /\ Uncounted
            /\ \/ pending' = ObserveLeft
               \/ pending' = ObserveLast /\ InGauges
         \/ /\ Head(pending) = "observe" /\ Uncounted /\ InHistograms
            /\ \/ pending' = GaugeLeft
               \/ pending' = <<>> /\ InGauges
         \/ /\ Head(pending) = "new gauge"
            /\ \/ pending' = SetLeft /\ InHistograms
               \/ pending' = SetNext /\ Uncounted
         \/ /\ Head(pending) = "set" /\ InGauges
            /\ \/ pending' = <<>> /\ InHistograms
               \/ pending' = HistogramLeft /\ Uncounted
<1>1. pending # <<>> /\ pending' = Tail(pending)
  BY DEF Update, Idle
<1>2. \/ pending = ObserveFirst /\ Uncounted
      \/ pending = ObserveLeft /\ Uncounted /\ InHistograms
      \/ pending = GaugeLeft /\ InHistograms
      \/ pending = SetLeft /\ InHistograms /\ InGauges
      \/ pending = SetFirst /\ Uncounted
      \/ pending = SetNext /\ Uncounted /\ InGauges
      \/ pending = HistogramLeft /\ Uncounted /\ InGauges
      \/ pending = ObserveLast /\ Uncounted /\ InGauges /\ InHistograms
  BY <1>1 DEF ProgressInv, Progress
<1> QED BY <1>1, <1>2, Order

(* No list of steps is longer than four. *)
LEMMA Lengths ==
  \A p \in {<<>>, ObserveFirst, ObserveLeft, GaugeLeft, SetLeft,
            SetFirst, SetNext, HistogramLeft, ObserveLast} : Len(p) <= 4
<1>1. Len(ObserveFirst) = 4 /\ Len(SetFirst) = 4
  BY DEF ObserveFirst, SetFirst
<1>2. Len(ObserveLeft) = 3 /\ Len(SetNext) = 3
  BY DEF ObserveLeft, SetNext
<1>3. Len(GaugeLeft) = 2 /\ Len(HistogramLeft) = 2
  BY DEF GaugeLeft, HistogramLeft
<1>4. Len(SetLeft) = 1 /\ Len(ObserveLast) = 1 /\ Len(<<>>) = 0
  BY DEF SetLeft, ObserveLast
<1>5. 4 <= 4 /\ 3 <= 4 /\ 2 <= 4 /\ 1 <= 4 /\ 0 <= 4
  OBVIOUS
<1> QED BY <1>1, <1>2, <1>3, <1>4, <1>5, Zenon

(* Taking an event adds it at the end and leaves the rest alone. *)
LEMMA TakeEffect ==
  ASSUME TypeOK, ProgressInv, NEW e \in Inputs, Take(e)
  PROVE  /\ taken' \in Seq(Inputs) /\ Len(taken') = Len(taken) + 1
         /\ Last(taken') = e /\ taken' # <<>>
         /\ \A i \in 1 .. Len(taken) : taken'[i] = taken[i]
<1>1. taken \in Seq(Inputs) /\ taken' = Append(taken, e)
  BY DEF TypeOK, Take
<1>2. /\ taken' \in Seq(Inputs) /\ Len(taken') = Len(taken) + 1 /\ Len(taken) \in Nat
      /\ taken'[Len(taken) + 1] = e
      /\ \A i \in 1 .. Len(taken) : taken'[i] = taken[i]
  BY <1>1
<1> QED BY <1>2 DEF Last

(* The types are kept: a counter never exceeds the number of events because an  *)
(* event is observed at most once.                                              *)
LEMMA TypeNext == TypeOK /\ ProgressInv /\ [Next]_vars => TypeOK'
<1> SUFFICES ASSUME TypeOK, ProgressInv, [Next]_vars PROVE TypeOK'
  OBVIOUS
<1>1. ASSUME NEW e \in Inputs, Take(e) PROVE TypeOK'
  <2>1. Len(pending') <= 4
    BY <1>1, StepsAre, Lengths DEF Take
  <2>2. Len(taken) \in Nat /\ Len(taken) < MaxEvents /\ MaxEvents \in Nat
    BY <1>1, Counted, ExporterAssumption DEF Take
  <2>3. /\ taken' \in Seq(Inputs) /\ Len(taken') = Len(taken) + 1 /\ Len(taken') <= MaxEvents
    BY <1>1, <2>2, TakeEffect
  <2>4. \A n \in 0 .. Len(taken) : n \in 0 .. Len(taken')
    BY <2>2, <2>3
  <2>5. /\ \A s \in DOMAIN histograms : histograms[s].count \in 0 .. Len(taken')
        /\ before \in 0 .. Len(taken')
    BY <2>4 DEF TypeOK
  <2> QED BY <1>1, <2>1, <2>3, <2>5 DEF Take, metrics, scraping, TypeOK
<1>2. CASE Update
  <2> DEFINE s == Series(Last(taken))
             e == Last(taken)
  <2>1. s \in AllSeries /\ e.latency \in Nat /\ e \in Inputs /\ Len(taken) \in Nat
    BY <1>2, Counted, ExporterAssumption DEF Update
  <2>2. Len(pending') <= 4
    BY <1>2, UpdateSteps, Lengths
  <2>3. DOMAIN histograms' \subseteq AllSeries /\ DOMAIN gauges' \subseteq AllSeries
    BY <1>2, <2>1, UpdateEffect DEF TypeOK
  <2>4. ASSUME NEW x \in DOMAIN histograms'
        PROVE  histograms'[x].count \in 0 .. Len(taken) /\ histograms'[x].sum \in Nat
    <3>1. CASE x \in DOMAIN histograms /\ histograms'[x] = histograms[x]
      BY <3>1 DEF TypeOK
    <3>2. CASE histograms'[x] = [count |-> 0, sum |-> 0]
      BY <2>1, <3>2
    <3>3. CASE /\ Head(pending) = "observe"
               /\ histograms'[x] = Observation(histograms[s], e.latency)
      <4>1. Uncounted /\ s \in DOMAIN histograms
        BY <1>2, <3>3, UpdateSteps DEF InHistograms
      <4>2. /\ histograms[s].count \in 0 .. Len(taken) /\ histograms[s].count < Len(taken)
            /\ histograms[s].sum \in Nat
        BY <4>1 DEF Uncounted, TypeOK
      <4>3. /\ histograms'[x].count = histograms[s].count + 1
            /\ histograms'[x].sum = histograms[s].sum + e.latency
        BY <3>3 DEF Observation
      <4> HIDE DEF s, e
      <4> QED BY <2>1, <4>2, <4>3
    <3> QED BY <1>2, <3>1, <3>2, <3>3, UpdateEffect
  <2>5. ASSUME NEW x \in DOMAIN gauges' PROVE gauges'[x] \in Latencies \cup {0}
    <3>1. e.latency \in Latencies
      BY <2>1 DEF Latencies
    <3> QED BY <1>2, <3>1, UpdateEffect DEF TypeOK
  <2>6. UNCHANGED <<serving, taken, scraping>>
    BY <1>2 DEF Update
  <2> HIDE DEF s, e
  <2> QED BY <2>2, <2>3, <2>4, <2>5, <2>6 DEF TypeOK, scraping
<1>3. CASE StartScrape
  <2>1. Completed \in 0 .. Len(taken) /\ scrapes + 1 \in 0 .. MaxScrapes /\ DOMAIN <<>> = {}
    BY <1>3, Counted, ExporterAssumption DEF StartScrape, TypeOK
  <2> QED BY <1>3, <2>1 DEF StartScrape, metrics, TypeOK
<1>4. ASSUME NEW m \in Metrics, ReadMetric(m) PROVE TypeOK'
  <2>1. DOMAIN page' \subseteq Metrics
    <3>1. page' = page \/ \E v : page' = Put(page, m, v)
      BY <1>4 DEF ReadMetric
    <3>2. CASE page' = page
      BY <3>2 DEF TypeOK
    <3>3. ASSUME NEW v, page' = Put(page, m, v) PROVE DOMAIN page' \subseteq Metrics
      BY <3>3 DEF Put, TypeOK
    <3> QED BY <3>1, <3>2, <3>3
  <2> QED BY <1>4, <2>1 DEF ReadMetric, metrics, TypeOK
<1>5. CASE UNCHANGED vars
  BY <1>5 DEF vars, metrics, scraping, TypeOK
<1> QED BY <1>1, <1>2, <1>3, <1>4, <1>5 DEF Next

(* A step that leaves the events and the series alone keeps what is exported. *)
LEMMA ProgressFrame ==
  ASSUME ProgressInv, UNCHANGED <<taken, pending, metrics>>
  PROVE  ProgressInv'
BY DEF ProgressInv, Progress, InHistograms, InGauges, Uncounted, Exported, Completed, Idle,
       metrics, Last

(* Every step keeps the event in progress on its way, and the completed ones    *)
(* exported.                                                                    *)
LEMMA ProgressNext == TypeOK /\ ProgressInv /\ [Next]_vars => ProgressInv'
<1> SUFFICES ASSUME TypeOK, ProgressInv, [Next]_vars PROVE ProgressInv'
  OBVIOUS
<1>1. ASSUME NEW e \in Inputs, Take(e) PROVE ProgressInv'
  <2>1. /\ Idle /\ Completed = Len(taken) /\ Len(taken) \in Nat
        /\ pending' = Steps(e) /\ histograms' = histograms /\ gauges' = gauges
    BY <1>1, Counted DEF Take, Completed, metrics
  <2>2. /\ Len(taken') = Len(taken) + 1 /\ Last(taken') = e /\ taken' # <<>>
        /\ \A i \in 1 .. Len(taken) : taken'[i] = taken[i]
        /\ taken'[Len(taken')] = e
    BY <1>1, TakeEffect DEF Last
  <2>3. Uncounted'
    <3>1. \A s \in DOMAIN histograms : histograms[s].count \in 0 .. Len(taken)
      BY DEF TypeOK
    <3> QED BY <2>1, <2>2, <3>1 DEF Uncounted
  <2>4. Progress'
    BY <2>1, <2>3, StepsAre DEF Progress
  <2>5. ASSUME NEW i \in 1 .. Completed' PROVE Exported(taken[i])' 
    <3>1. CASE i \in 1 .. Len(taken)
      BY <2>1, <2>2, <3>1 DEF ProgressInv, Exported
    <3>2. CASE i = Len(taken) + 1
      <4>1. pending' = <<>>
        BY <2>1, <2>2, <3>2 DEF Completed, Idle
      <4> QED BY <2>1, <2>2, <3>2, <4>1 DEF Exported
    <3>3. i \in 1 .. Len(taken) + 1
      BY <2>1, <2>2 DEF Completed
    <3> QED BY <2>1, <3>1, <3>2, <3>3
  <2>6. ~Idle' => taken' # <<>> /\ Steps(Last(taken')) # <<>>
    BY <2>1, <2>2 DEF Idle
  <2> QED BY <2>4, <2>5, <2>6 DEF ProgressInv
<1>2. CASE Update
  <2>1. taken' = taken /\ ~Idle
    BY <1>2 DEF Update
  <2>2. /\ InHistograms => InHistograms'
        /\ InGauges => InGauges'
        /\ Head(pending) \in {"new histogram", "observe"} => InHistograms'
        /\ Head(pending) \in {"new gauge", "set"} => InGauges'
    BY <1>2, <2>1, UpdateEffect DEF InHistograms, InGauges
  <2>3. Uncounted /\ Head(pending) # "observe" => Uncounted'
    <3> SUFFICES ASSUME Uncounted, Head(pending) # "observe", NEW x \in DOMAIN histograms'
                 PROVE  histograms'[x].count < Len(taken)
      BY <2>1 DEF Uncounted
    <3>1. Len(taken) \in Nat /\ 0 < Len(taken)
      BY <2>1, Counted
    <3>2. CASE x \in DOMAIN histograms /\ histograms'[x] = histograms[x]
      BY <3>2 DEF Uncounted
    <3>3. CASE histograms'[x] = [count |-> 0, sum |-> 0]
      BY <3>1, <3>3
    <3> QED BY <1>2, <3>2, <3>3, UpdateEffect
  <2>4. Progress'
    BY <1>2, <2>2, <2>3, UpdateSteps DEF Progress
  <2>5. pending' = <<>> => InHistograms' /\ InGauges'
    BY <1>2, <2>2, UpdateSteps, NotIdle
  <2>6. ASSUME NEW i \in 1 .. Completed' PROVE Exported(taken[i])'
    <3>1. /\ Completed + 1 = Len(taken) /\ Completed \in Nat /\ Last(taken) = taken[Len(taken)]
      BY <2>1, Counted
    <3>2. CASE i \in 1 .. Completed
      <4>1. Exported(taken[i])
        BY <3>2 DEF ProgressInv
      <4>2. DOMAIN histograms \subseteq DOMAIN histograms' /\ DOMAIN gauges \subseteq DOMAIN gauges'
        BY <1>2, UpdateEffect
      <4> QED BY <2>1, <4>1, <4>2 DEF Exported
    <3>3. CASE i = Len(taken)
      <4>1. pending' = <<>>
        BY <2>1, <3>1, <3>3 DEF Completed, Idle
      <4> QED BY <2>1, <2>5, <3>1, <3>3, <4>1 DEF Exported, InHistograms, InGauges
    <3>4. i \in 1 .. Completed \/ i = Len(taken)
      <4>1. Completed' \in {Len(taken), Len(taken) - 1}
        BY <2>1 DEF Completed
      <4>2. i \in 1 .. Len(taken)
        BY <3>1, <4>1
      <4> QED BY <3>1, <4>2
    <3> QED BY <3>2, <3>3, <3>4
  <2>7. taken' # <<>> /\ Steps(Last(taken')) # <<>>
    BY <2>1 DEF ProgressInv
  <2> QED BY <2>4, <2>6, <2>7 DEF ProgressInv
<1>3. CASE StartScrape
  BY <1>3, ProgressFrame DEF StartScrape
<1>4. ASSUME NEW m \in Metrics, ReadMetric(m) PROVE ProgressInv'
  BY <1>4, ProgressFrame DEF ReadMetric
<1>5. CASE UNCHANGED vars
  BY <1>5, ProgressFrame DEF vars
<1> QED BY <1>1, <1>2, <1>3, <1>4, <1>5 DEF Next

(* Every step keeps pages complete: an event that belongs to a metric was       *)
(* exported before the scrape began, so the metric is there when it is read.    *)
LEMMA ScrapeNext == IInv /\ [Next]_vars => ScrapeComplete'
<1> SUFFICES ASSUME IInv, [Next]_vars PROVE ScrapeComplete'
  OBVIOUS
<1>1. ASSUME NEW e \in Inputs, Take(e) PROVE ScrapeComplete'
  <2>1. before \in Nat /\ before <= Len(taken) /\ Len(taken) \in Nat
    BY Counted DEF IInv
  <2>2. \A i \in 1 .. before : taken'[i] = taken[i]
    BY <1>1, <2>1, TakeEffect DEF IInv
  <2> QED BY <1>1, <2>2 DEF Take, scraping, IInv, ScrapeComplete
<1>2. CASE Update
  BY <1>2 DEF Update, scraping, IInv, ScrapeComplete
<1>3. CASE StartScrape
  BY <1>3 DEF StartScrape, ScrapeComplete
<1>4. ASSUME NEW m \in Metrics, ReadMetric(m) PROVE ScrapeComplete'
  <2> SUFFICES ASSUME NEW k \in Metrics \ unread', NEW i \in 1 .. before,
                      Belongs(taken[i], k[2])
               PROVE  k \in DOMAIN page'
    BY <1>4 DEF ReadMetric, ScrapeComplete
  <2>1. DOMAIN page \subseteq DOMAIN page'
    <3>1. page' = page \/ \E v : page' = Put(page, m, v)
      BY <1>4 DEF ReadMetric
    <3> QED BY <3>1 DEF Put
  <2>2. CASE k # m
    <3>1. k \in Metrics \ unread
      BY <1>4, <2>2 DEF ReadMetric
    <3> QED BY <2>1, <3>1 DEF IInv, ScrapeComplete
  <2>3. CASE k = m
    <3>1. PICK s \in AllSeries, kind \in {"histogram", "gauge"} : m = <<kind, s>>
      BY DEF Metrics
    <3>2. taken[i] \in Inputs
      <4>1. taken \in Seq(Inputs) /\ before \in Nat /\ before <= Len(taken)
        BY Counted DEF IInv, TypeOK
      <4> QED BY <4>1
    <3>3. Steps(taken[i]) # <<>> /\ Series(taken[i]) = s
      BY <2>3, <3>1, <3>2, BelongsToItsSeries
    <3>4. before \in Nat /\ Completed \in Nat /\ before <= Completed
      BY Counted DEF IInv, BeforeInv
    <3>5. s \in DOMAIN histograms \cap DOMAIN gauges
      <4>1. i \in 1 .. Completed
        BY <3>4
      <4> QED BY <3>3, <4>1 DEF IInv, ProgressInv, Exported
    <3>6. m[2] \in DOMAIN (IF m[1] = "histogram" THEN histograms ELSE gauges)
      BY <3>1, <3>5
    <3>7. \E v : page' = Put(page, m, v)
      BY <1>4, <3>6 DEF ReadMetric
    <3> QED BY <2>3, <3>7 DEF Put
  <2> QED BY <2>2, <2>3
<1>5. CASE UNCHANGED vars
  BY <1>5 DEF vars, scraping, IInv, ScrapeComplete
<1> QED BY <1>1, <1>2, <1>3, <1>4, <1>5 DEF Next

(* The number of completed events never falls. *)
LEMMA BeforeNext == IInv /\ [Next]_vars => BeforeInv'
<1> SUFFICES ASSUME IInv, [Next]_vars PROVE BeforeInv'
  OBVIOUS
<1>1. /\ Len(taken) \in Nat /\ Completed \in Nat /\ before \in Nat /\ before <= Completed
      /\ Completed = IF Idle THEN Len(taken) ELSE Len(taken) - 1
      /\ Completed' = IF Idle' THEN Len(taken') ELSE Len(taken') - 1
  BY Counted DEF IInv, BeforeInv, Completed
<1>2. ASSUME NEW e \in Inputs, Take(e) PROVE BeforeInv'
  <2>1. Idle /\ Len(taken') = Len(taken) + 1 /\ before' = before
    BY <1>2, TakeEffect DEF IInv, Take, scraping
  <2> QED BY <1>1, <2>1 DEF BeforeInv
<1>3. CASE Update
  <2>1. ~Idle /\ taken' = taken /\ before' = before
    BY <1>3 DEF Update, scraping
  <2> QED BY <1>1, <2>1 DEF BeforeInv
<1>4. CASE StartScrape
  <2>1. before' = Completed /\ taken' = taken /\ Idle' = Idle
    BY <1>4 DEF StartScrape, Idle
  <2> QED BY <1>1, <2>1 DEF BeforeInv
<1>5. CASE (\E m \in Metrics : ReadMetric(m)) \/ UNCHANGED vars
  <2>1. before' = before /\ taken' = taken /\ Idle' = Idle
    BY <1>5 DEF ReadMetric, vars, scraping, Idle
  <2> QED BY <1>1, <2>1 DEF BeforeInv
<1> QED BY <1>2, <1>3, <1>4, <1>5 DEF Next

-----------------------------------------------------------------------------
(* The values.  What the first n events of a series come to, and n + 1 of them. *)
LEMMA OwnFinite ==
  ASSUME NEW s, NEW n \in Nat
  PROVE  IsFiniteSet(EventsOf(s, n)) /\ EventsOf(s, n) \subseteq 1 .. n
<1>1. IsFiniteSet(1 .. n)
  BY FS_Interval
<1>2. EventsOf(s, n) \subseteq 1 .. n
  BY DEF EventsOf
<1> QED BY <1>1, <1>2, FS_Subset

(* One more event belongs to a series or leaves its events as they are. *)
LEMMA OwnNext ==
  ASSUME NEW s, NEW n \in Nat
  PROVE  /\ Belongs(taken[n + 1], s) => EventsOf(s, n + 1) = EventsOf(s, n) \cup {n + 1}
         /\ ~Belongs(taken[n + 1], s) => EventsOf(s, n + 1) = EventsOf(s, n)
<1>1. 1 .. n + 1 = (1 .. n) \cup {n + 1}
  OBVIOUS
<1> QED BY <1>1 DEF EventsOf

(* An event has as many units as its latency. *)
LEMMA UnitsCount ==
  ASSUME TypeOK, NEW i \in 1 .. Len(taken)
  PROVE  /\ taken[i].latency \in Nat
         /\ IsFiniteSet(Units(i)) /\ Cardinality(Units(i)) = taken[i].latency
<1>1. taken[i] \in Inputs
  BY DEF TypeOK
<1>2. PICK l \in Nat : l = taken[i].latency
  BY <1>1, ExporterAssumption
<1>3. IsFiniteSet(1 .. l) /\ Cardinality(1 .. l) = l
  BY FS_Interval
<1>4. IsFiniteSet({i}) /\ Cardinality({i}) = 1
  BY FS_Singleton
<1>5. \A A, B : IsFiniteSet(A) /\ IsFiniteSet(B) =>
                IsFiniteSet(A \X B) /\ Cardinality(A \X B) = Cardinality(A) * Cardinality(B)
  BY FS_Product
<1>6. IsFiniteSet({i} \X (1 .. l))
  BY <1>3, <1>4, <1>5
<1>7. Cardinality({i} \X (1 .. l)) = Cardinality({i}) * Cardinality(1 .. l)
  BY <1>3, <1>4, <1>5
<1>8. Cardinality({i} \X (1 .. l)) = l
  BY <1>3, <1>4, <1>7
<1> QED BY <1>2, <1>6, <1>8 DEF Units

(* The units of some events are finitely many. *)
LEMMA UnitsFinite ==
  ASSUME TypeOK, NEW n \in 0 .. Len(taken), NEW S \in SUBSET (1 .. n)
  PROVE  IsFiniteSet(UNION {Units(i) : i \in S})
<1> DEFINE f == [i \in S |-> Units(i)]
           T == {Units(i) : i \in S}
<1>1. IsFiniteSet(S)
  <2>1. IsFiniteSet(1 .. n)
    BY FS_Interval
  <2> QED BY <2>1, FS_Subset
<1>2. f \in Surjection(S, T)
  BY DEF Surjection
<1>3. IsFiniteSet(T)
  <2> HIDE DEF f, T
  <2> QED BY <1>1, <1>2, FS_Surjection
<1>4. \A t \in T : IsFiniteSet(t)
  BY UnitsCount
<1> HIDE DEF T
<1> QED BY <1>3, <1>4, FS_UNION DEF T

(* No events come to no observations. *)
LEMMA NoneObserved == Observed({}) = [count |-> 0, sum |-> 0]
BY FS_EmptySet DEF Observed

(* An event of a series is one more observation of its histogram. *)
LEMMA ObservedNext ==
  ASSUME TypeOK, NEW s, NEW n \in Nat, n + 1 <= Len(taken), Belongs(taken[n + 1], s)
  PROVE  Observed(EventsOf(s, n + 1)) = Observation(Observed(EventsOf(s, n)), taken[n + 1].latency)
<1>1. PICK S : S = EventsOf(s, n)
  OBVIOUS
<1>2. IsFiniteSet(S) /\ S \subseteq 1 .. n /\ n + 1 \notin S
  BY <1>1, OwnFinite
<1>3. EventsOf(s, n + 1) = S \cup {n + 1}
  BY <1>1, OwnNext
<1>4. Cardinality(S \cup {n + 1}) = Cardinality(S) + 1
  BY <1>2, FS_AddElement
<1>5. PICK U : U = UNION {Units(i) : i \in S}
  OBVIOUS
<1>6. IsFiniteSet(U) /\ \A u \in U : u[1] \in S
  <2>1. S \in SUBSET (1 .. n) /\ n \in 0 .. Len(taken)
    BY <1>2 DEF TypeOK
  <2>2. IsFiniteSet(U)
    BY <1>5, <2>1, UnitsFinite
  <2>3. \A u \in U : u[1] \in S
    BY <1>5 DEF Units
  <2> QED BY <2>2, <2>3
<1>7. PICK V : V = Units(n + 1)
  OBVIOUS
<1>8. /\ IsFiniteSet(V) /\ Cardinality(V) = taken[n + 1].latency
      /\ \A u \in V : u[1] = n + 1
      /\ taken[n + 1].latency \in Nat
  <2>1. n + 1 \in 1 .. Len(taken)
    BY DEF TypeOK
  <2>2. \A u \in V : u[1] = n + 1
    BY <1>7 DEF Units
  <2> QED BY <1>7, <2>1, <2>2, UnitsCount
<1>9. UNION {Units(i) : i \in S \cup {n + 1}} = U \cup V
  BY <1>5, <1>7
<1>10. U \cap V = {}
  BY <1>2, <1>6, <1>8
<1>11. Cardinality(U \cup V) = Cardinality(U) + taken[n + 1].latency
  <2>1. Cardinality(U \cap V) = 0
    BY <1>10, FS_EmptySet
  <2>2. Cardinality(U) \in Nat
    BY <1>6, FS_CardinalityType
  <2>3. Cardinality(U \cup V) = Cardinality(U) + Cardinality(V) - Cardinality(U \cap V)
    BY <1>6, <1>8, FS_Union
  <2> QED BY <1>8, <2>1, <2>2, <2>3
<1>12. Observed(EventsOf(s, n + 1))
         = [count |-> Cardinality(S) + 1, sum |-> Cardinality(U) + taken[n + 1].latency]
  BY <1>3, <1>4, <1>9, <1>11 DEF Observed
<1>13. Observed(EventsOf(s, n)) = [count |-> Cardinality(S), sum |-> Cardinality(U)]
  BY <1>1, <1>5 DEF Observed
<1> QED BY <1>12, <1>13 DEF Observation

(* The gauge that the events of a series leave is that of the last of them. *)
LEMMA LatestNext ==
  ASSUME NEW s, NEW n \in Nat, Belongs(taken[n + 1], s)
  PROVE  GaugeOf(EventsOf(s, n + 1)) = taken[n + 1].latency
<1>1. PICK S : S = EventsOf(s, n + 1)
  OBVIOUS
<1>2. S \subseteq 1 .. n + 1 /\ n + 1 \in S
  BY <1>1 DEF EventsOf
<1>3. Max(S) = n + 1
  <2>1. \A y \in S : n + 1 >= y
    BY <1>2
  <2>2. \A x \in S : (\A y \in S : x >= y) => x = n + 1
    BY <1>2, <2>1
  <2> QED BY <1>2, <2>1, <2>2 DEF Max
<1> QED BY <1>1, <1>2, <1>3 DEF GaugeOf, Latest

(* Of some of the first n events one is the last. *)
LEMMA LastExists ==
  ASSUME NEW n \in Nat, NEW S \in SUBSET (1 .. n), S # {}
  PROVE  \E m \in S : \A x \in S : m >= x
<1> DEFINE R == OpToRel(<, Nat)
           T == {n - x : x \in S}
<1>1. T \subseteq Nat /\ T # {}
  <2>1. \A x \in S : n - x \in Nat
    OBVIOUS
  <2>2. PICK x \in S : TRUE
    OBVIOUS
  <2> QED BY <2>1, <2>2
<1>2. \E d \in T : \A e \in T : <<e, d>> \notin R
  <2> HIDE DEF R, T
  <2> QED BY <1>1, NatLessThanWellFounded, WFMin DEF R
<1>3. PICK m \in S : \A e \in T : <<e, n - m>> \notin R
  BY <1>2
<1>4. \A x \in S : ~(n - x < n - m)
  BY <1>1, <1>3 DEF OpToRel
<1> QED BY <1>4

(* Taking another event changes nothing of those before it. *)
LEMMA TakeKeeps ==
  ASSUME TypeOK, ProgressInv, NEW e \in Inputs, Take(e), NEW s, NEW n \in 0 .. Len(taken)
  PROVE  /\ EventsOf(s, n)' = EventsOf(s, n)
         /\ Observed(EventsOf(s, n))' = Observed(EventsOf(s, n))
         /\ GaugeOf(EventsOf(s, n))' = GaugeOf(EventsOf(s, n))
<1>1. \A i \in 1 .. n : taken'[i] = taken[i]
  BY TakeEffect, Counted
<1>2. EventsOf(s, n)' = EventsOf(s, n)
  BY <1>1 DEF EventsOf
<1>3. n \in Nat
  BY Counted
<1>4. PICK S : S = EventsOf(s, n)
  OBVIOUS
<1>5. S \subseteq 1 .. n /\ IsFiniteSet(S)
  BY <1>3, <1>4, OwnFinite
<1>6. {Units(i)' : i \in S} = {Units(i) : i \in S}
  BY <1>1, <1>5 DEF Units
<1>7. Observed(EventsOf(s, n))' = Observed(EventsOf(s, n))
  BY <1>2, <1>4, <1>6 DEF Observed
<1>8. S # {} => Max(S) \in S
  BY <1>3, <1>5, LastExists DEF Max
<1>9. GaugeOf(EventsOf(s, n))' = GaugeOf(EventsOf(s, n))
  BY <1>1, <1>2, <1>4, <1>5, <1>8 DEF GaugeOf, Latest
<1> QED BY <1>2, <1>7, <1>9

(* The lists of steps that are left are different ones. *)
LEMMA LeftDiffer ==
  /\ GaugeLeft \notin {ObserveFirst, ObserveLeft, SetFirst, SetNext, HistogramLeft, ObserveLast}
  /\ SetLeft \notin {ObserveFirst, ObserveLeft, SetFirst, SetNext, HistogramLeft, ObserveLast}
  /\ HistogramLeft \notin {ObserveFirst, ObserveLeft, GaugeLeft, SetLeft, SetFirst, SetNext}
  /\ ObserveLast \notin {ObserveFirst, ObserveLeft, GaugeLeft, SetLeft, SetFirst, SetNext}
<1>1. Len(ObserveFirst) = 4 /\ Len(SetFirst) = 4
  BY DEF ObserveFirst, SetFirst
<1>2. Len(ObserveLeft) = 3 /\ Len(SetNext) = 3
  BY DEF ObserveLeft, SetNext
<1>3. /\ Len(GaugeLeft) = 2 /\ Head(GaugeLeft) = "new gauge"
      /\ Len(HistogramLeft) = 2 /\ Head(HistogramLeft) = "new histogram"
  BY DEF GaugeLeft, HistogramLeft
<1>4. /\ Len(SetLeft) = 1 /\ Head(SetLeft) = "set"
      /\ Len(ObserveLast) = 1 /\ Head(ObserveLast) = "observe"
  BY DEF SetLeft, ObserveLast
<1>5. 1 # 2 /\ 1 # 3 /\ 1 # 4 /\ 2 # 3 /\ 2 # 4
  OBVIOUS
<1>6. "set" # "observe" /\ "new gauge" # "new histogram"
  OBVIOUS
<1>7. /\ GaugeLeft # ObserveFirst /\ GaugeLeft # SetFirst
      /\ GaugeLeft # ObserveLeft /\ GaugeLeft # SetNext /\ GaugeLeft # ObserveLast
  BY <1>1, <1>2, <1>3, <1>4, <1>5, Zenon
<1>8. /\ SetLeft # ObserveFirst /\ SetLeft # SetFirst
      /\ SetLeft # ObserveLeft /\ SetLeft # SetNext /\ SetLeft # HistogramLeft
  BY <1>1, <1>2, <1>3, <1>4, <1>5, Zenon
<1>9. /\ HistogramLeft # ObserveFirst /\ HistogramLeft # SetFirst
      /\ HistogramLeft # ObserveLeft /\ HistogramLeft # SetNext
  BY <1>1, <1>2, <1>3, <1>4, <1>5, Zenon
<1>10. /\ ObserveLast # ObserveFirst /\ ObserveLast # SetFirst
       /\ ObserveLast # ObserveLeft /\ ObserveLast # SetNext
  BY <1>1, <1>2, <1>3, <1>4, <1>5, Zenon
<1>11. GaugeLeft # HistogramLeft /\ SetLeft # ObserveLast
  BY <1>3, <1>4, <1>6, Zenon
<1> QED BY <1>7, <1>8, <1>9, <1>10, <1>11

(* Which steps are left before and after each step. *)
LEMMA UpdateTodo ==
  ASSUME ProgressInv, Update
  PROVE  /\ Head(pending) = "new histogram" => Unobserved /\ Unobserved' /\ (Unset' <=> Unset)
         /\ Head(pending) = "observe" => Unobserved /\ ~Unobserved' /\ (Unset' <=> Unset)
         /\ Head(pending) = "new gauge" => Unset /\ Unset' /\ (Unobserved' <=> Unobserved)
         /\ Head(pending) = "set" => Unset /\ ~Unset' /\ (Unobserved' <=> Unobserved)
         /\ Head(pending) \in {"new histogram", "observe", "new gauge", "set"}
<1>1. pending # <<>> /\ pending' = Tail(pending)
  BY DEF Update, Idle
<1>2. pending \in {ObserveFirst, ObserveLeft, GaugeLeft, SetLeft,
                   SetFirst, SetNext, HistogramLeft, ObserveLast}
  BY <1>1 DEF ProgressInv, Progress
<1> USE DEF Unobserved, Unset
<1>3. CASE pending = ObserveFirst
  BY <1>1, <1>3, Order
<1>4. CASE pending = ObserveLeft
  BY <1>1, <1>4, Order, LeftDiffer
<1>5. CASE pending = GaugeLeft
  BY <1>1, <1>5, Order, LeftDiffer
<1>6. CASE pending = SetLeft
  BY <1>1, <1>6, Order, LeftDiffer, NotIdle
<1>7. CASE pending = SetFirst
  BY <1>1, <1>7, Order
<1>8. CASE pending = SetNext
  BY <1>1, <1>8, Order, LeftDiffer
<1>9. CASE pending = HistogramLeft
  BY <1>1, <1>9, Order, LeftDiffer
<1>10. CASE pending = ObserveLast
  BY <1>1, <1>10, Order, LeftDiffer, NotIdle
<1> QED BY <1>2, <1>3, <1>4, <1>5, <1>6, <1>7, <1>8, <1>9, <1>10

(* A new series is one without events so far; an observation adds one event to  *)
(* those of the histogram, a set makes the gauge show it.                       *)
LEMMA ValuesUpdate ==
  ASSUME TypeOK, ProgressInv, ValuesInv, Update
  PROVE  ValuesInv'
<1> DEFINE e == Last(taken)
           s0 == Series(e)
           step == Head(pending)
<1>0. PICK n \in Int : n = Len(taken) - 1
  <2>1. Len(taken) \in Nat
    BY Counted
  <2> QED BY <2>1
<1>1. /\ ~Idle /\ taken' = taken /\ e = taken[Len(taken)] /\ e \in Inputs /\ Steps(e) # <<>>
      /\ Len(taken) \in Nat /\ n \in Nat /\ n + 1 = Len(taken)
  <2>1. ~Idle /\ taken' = taken
    BY DEF Update
  <2>2. /\ Len(taken) \in Nat /\ Completed \in Nat /\ Completed + 1 = Len(taken)
        /\ e = taken[Len(taken)] /\ e \in Inputs
    BY <2>1, Counted
  <2>3. Steps(e) # <<>>
    BY <2>1 DEF ProgressInv
  <2> QED BY <1>0, <2>1, <2>2, <2>3
<1>2. s0 \in AllSeries /\ Belongs(e, s0)
  BY <1>1, SeriesHasItsEvents
<1>3. \A s \in AllSeries : Belongs(e, s) => s = s0
  BY <1>1, BelongsToItsSeries
<1> HIDE DEF e, s0
<1>4. \A s, k : /\ EventsOf(s, k)' = EventsOf(s, k)
                /\ Observed(EventsOf(s, k))' = Observed(EventsOf(s, k))
                /\ GaugeOf(EventsOf(s, k))' = GaugeOf(EventsOf(s, k))
  BY <1>1 DEF EventsOf, Observed, Units, GaugeOf, Latest
<1>5. \A s \in AllSeries : s # s0 => EventsOf(s, n + 1) = EventsOf(s, n)
  BY <1>1, <1>3, OwnNext
<1>6. /\ Observed(EventsOf(s0, n + 1)) = Observation(Observed(EventsOf(s0, n)), e.latency)
      /\ GaugeOf(EventsOf(s0, n + 1)) = e.latency
      /\ EventsOf(s0, n + 1) # {}
  <2>1. taken[n + 1] = e /\ n + 1 <= Len(taken)
    BY <1>1
  <2>2. Observed(EventsOf(s0, n + 1)) = Observation(Observed(EventsOf(s0, n)), e.latency)
    BY <1>1, <1>2, <2>1, ObservedNext
  <2>3. GaugeOf(EventsOf(s0, n + 1)) = e.latency
    BY <1>1, <1>2, <2>1, LatestNext
  <2>4. EventsOf(s0, n + 1) = EventsOf(s0, n) \cup {n + 1}
    BY <1>1, <1>2, <2>1, OwnNext
  <2> QED BY <2>2, <2>3, <2>4
<1>7. Done(Unobserved) = IF Unobserved THEN n ELSE n + 1
  BY <1>1 DEF Done
<1>8. Done(Unset) = IF Unset THEN n ELSE n + 1
  BY <1>1 DEF Done
<1>9. Done(Unobserved)' = IF Unobserved' THEN n ELSE n + 1
  BY <1>1 DEF Done
<1>10. Done(Unset)' = IF Unset' THEN n ELSE n + 1
  BY <1>1 DEF Done
<1>11. histograms' =
         IF step = "new histogram" /\ s0 \notin DOMAIN histograms
         THEN Put(histograms, s0, [count |-> 0, sum |-> 0])
         ELSE IF step = "observe" THEN Put(histograms, s0, Observation(histograms[s0], e.latency))
         ELSE histograms
  BY DEF Update, e, s0
<1>12. gauges' =
         IF step = "new gauge" /\ s0 \notin DOMAIN gauges THEN Put(gauges, s0, 0)
         ELSE IF step = "set" THEN Put(gauges, s0, e.latency) ELSE gauges
  BY DEF Update, e, s0
<1>13. step = "observe" => s0 \in DOMAIN histograms
  BY UpdateSteps DEF InHistograms, e, s0
<1>14. step = "set" => s0 \in DOMAIN gauges
  BY UpdateSteps DEF InGauges, e, s0
<1>15. /\ step = "new histogram" => Unobserved /\ Unobserved' /\ (Unset' <=> Unset)
       /\ step = "observe" => Unobserved /\ ~Unobserved' /\ (Unset' <=> Unset)
       /\ step = "new gauge" => Unset /\ Unset' /\ (Unobserved' <=> Unobserved)
       /\ step = "set" => Unset /\ ~Unset' /\ (Unobserved' <=> Unobserved)
       /\ step \in {"new histogram", "observe", "new gauge", "set"}
  BY UpdateTodo
<1>16. /\ \A s \in AllSeries :
            IF s \in DOMAIN histograms THEN histograms[s] = Observed(EventsOf(s, Done(Unobserved)))
            ELSE EventsOf(s, Done(Unobserved)) = {}
       /\ \A s \in AllSeries :
            IF s \in DOMAIN gauges THEN gauges[s] = GaugeOf(EventsOf(s, Done(Unset)))
            ELSE EventsOf(s, Done(Unset)) = {}
       /\ \A s \in DOMAIN histograms \cup DOMAIN gauges : EventsOf(s, Len(taken)) # {}
  BY DEF ValuesInv
<1> HIDE DEF step
<1>17. ASSUME NEW s \in AllSeries
       PROVE  IF s \in DOMAIN histograms'
              THEN histograms'[s] = Observed(EventsOf(s, Done(Unobserved)'))
              ELSE EventsOf(s, Done(Unobserved)') = {}
  <2>1. CASE s # s0
    <3>1. (s \in DOMAIN histograms' <=> s \in DOMAIN histograms)
          /\ (s \in DOMAIN histograms => histograms'[s] = histograms[s])
      BY <1>11, <2>1 DEF Put
    <3>2. EventsOf(s, Done(Unobserved)') = EventsOf(s, Done(Unobserved))
      BY <1>5, <1>7, <1>9, <2>1
    <3> QED BY <1>16, <3>1, <3>2
  <2>2. CASE s = s0 /\ step = "new histogram" /\ s0 \notin DOMAIN histograms
    <3>1. EventsOf(s0, n) = {} /\ Done(Unobserved)' = n
      BY <1>2, <1>7, <1>9, <1>15, <1>16, <2>2
    <3>2. s0 \in DOMAIN histograms' /\ histograms'[s0] = [count |-> 0, sum |-> 0]
      BY <1>11, <2>2 DEF Put
    <3> QED BY <2>2, <3>1, <3>2, NoneObserved
  <2>3. CASE s = s0 /\ step = "observe"
    <3>1. s0 \in DOMAIN histograms /\ histograms[s0] = Observed(EventsOf(s0, n))
      BY <1>2, <1>7, <1>13, <1>15, <1>16, <2>3
    <3>2. s0 \in DOMAIN histograms'
          /\ histograms'[s0] = Observation(histograms[s0], e.latency)
      BY <1>11, <2>3 DEF Put
    <3> QED BY <1>6, <1>9, <1>15, <2>3, <3>1, <3>2
  <2>4. CASE s = s0 /\ step # "observe" /\ ~(step = "new histogram" /\ s0 \notin DOMAIN histograms)
    <3>1. histograms' = histograms /\ Done(Unobserved)' = Done(Unobserved)
      BY <1>7, <1>9, <1>11, <1>15, <2>4
    <3> QED BY <1>16, <3>1
  <2> QED BY <2>1, <2>2, <2>3, <2>4
<1>18. ASSUME NEW s \in AllSeries
       PROVE  IF s \in DOMAIN gauges'
              THEN gauges'[s] = GaugeOf(EventsOf(s, Done(Unset)'))
              ELSE EventsOf(s, Done(Unset)') = {}
  <2>1. CASE s # s0
    <3>1. (s \in DOMAIN gauges' <=> s \in DOMAIN gauges)
          /\ (s \in DOMAIN gauges => gauges'[s] = gauges[s])
      BY <1>12, <2>1 DEF Put
    <3>2. EventsOf(s, Done(Unset)') = EventsOf(s, Done(Unset))
      BY <1>5, <1>8, <1>10, <2>1
    <3> QED BY <1>16, <3>1, <3>2
  <2>2. CASE s = s0 /\ step = "new gauge" /\ s0 \notin DOMAIN gauges
    <3>1. EventsOf(s0, n) = {} /\ Done(Unset)' = n
      BY <1>2, <1>8, <1>10, <1>15, <1>16, <2>2
    <3>2. s0 \in DOMAIN gauges' /\ gauges'[s0] = 0
      BY <1>12, <2>2 DEF Put
    <3> QED BY <2>2, <3>1, <3>2 DEF GaugeOf
  <2>3. CASE s = s0 /\ step = "set"
    <3>1. s0 \in DOMAIN gauges' /\ gauges'[s0] = e.latency
      BY <1>12, <2>3 DEF Put
    <3> QED BY <1>6, <1>10, <1>15, <2>3, <3>1
  <2>4. CASE s = s0 /\ step # "set" /\ ~(step = "new gauge" /\ s0 \notin DOMAIN gauges)
    <3>1. gauges' = gauges /\ Done(Unset)' = Done(Unset)
      BY <1>8, <1>10, <1>12, <1>15, <2>4
    <3> QED BY <1>16, <3>1
  <2> QED BY <2>1, <2>2, <2>3, <2>4
<1>19. ASSUME NEW s \in DOMAIN histograms' \cup DOMAIN gauges' PROVE EventsOf(s, Len(taken)) # {}
  <2>1. s \in DOMAIN histograms \cup DOMAIN gauges \cup {s0}
    BY <1>11, <1>12 DEF Put
  <2> QED BY <1>1, <1>6, <1>16, <2>1
<1> QED BY <1>1, <1>4, <1>17, <1>18, <1>19 DEF ValuesInv

(* Taking an event leaves the values alone: it is still to be counted, or it is *)
(* in no series.                                                                *)
LEMMA ValuesTake ==
  ASSUME TypeOK, ProgressInv, ValuesInv, NEW e \in Inputs, Take(e)
  PROVE  ValuesInv'
<1>0. PICK n \in Nat : n = Len(taken)
  BY Counted
<1>1. Idle /\ n = Len(taken) /\ n \in Nat /\ histograms' = histograms /\ gauges' = gauges /\ pending' = Steps(e)
  BY <1>0 DEF Take, metrics
<1>2. Len(taken') = n + 1 /\ taken'[n + 1] = e
  BY <1>0, TakeEffect DEF Last
<1>3. Done(Unobserved) = n /\ Done(Unset) = n
  BY <1>1, NotIdle DEF Done, Unobserved, Unset, Idle
<1>4. \A s \in AllSeries : EventsOf(s, n + 1)' # EventsOf(s, n)' => Steps(e) # <<>>
  <2> SUFFICES ASSUME NEW s \in AllSeries, Steps(e) = <<>>
               PROVE  EventsOf(s, n + 1)' = EventsOf(s, n)'
    OBVIOUS
  <2>1. ~Belongs(taken'[n + 1], s)
    BY <1>2, BelongsToItsSeries
  <2>2. 1 .. n + 1 = (1 .. n) \cup {n + 1}
    BY <1>1
  <2> QED BY <2>1, <2>2 DEF EventsOf
<1>5. \A s : /\ EventsOf(s, n)' = EventsOf(s, n)
             /\ Observed(EventsOf(s, n))' = Observed(EventsOf(s, n))
             /\ GaugeOf(EventsOf(s, n))' = GaugeOf(EventsOf(s, n))
  <2> TAKE s
  <2>1. n \in 0 .. Len(taken)
    BY <1>1
  <2> QED BY <2>1, TakeKeeps
<1>6. \A s \in AllSeries :
        /\ EventsOf(s, Done(Unobserved))' = EventsOf(s, n)'
        /\ EventsOf(s, Done(Unset))' = EventsOf(s, n)'
  <2>1. CASE Steps(e) # <<>>
    <3>1. Steps(e) \in {ObserveFirst, SetFirst}
      BY <2>1, StepsAre
    <3>2. Unobserved' /\ Unset'
      BY <1>1, <3>1 DEF Unobserved, Unset
    <3>3. Done(Unobserved)' = n /\ Done(Unset)' = n
      BY <1>1, <1>2, <3>2 DEF Done
    <3> QED BY <3>3 DEF EventsOf
  <2>2. CASE Steps(e) = <<>>
    <3>1. ~Unobserved' /\ ~Unset'
      BY <1>1, <2>2, NotIdle DEF Unobserved, Unset
    <3>2. Done(Unobserved)' = n + 1 /\ Done(Unset)' = n + 1
      BY <1>1, <1>2, <3>1 DEF Done
    <3>3. \A s \in AllSeries : EventsOf(s, n + 1)' = EventsOf(s, n)'
      BY <1>4, <2>2
    <3> QED BY <3>2, <3>3 DEF EventsOf
  <2> QED BY <2>1, <2>2
<1>7. \A s \in AllSeries :
        /\ EventsOf(s, Done(Unobserved))' = EventsOf(s, n)
        /\ Observed(EventsOf(s, Done(Unobserved)))' = Observed(EventsOf(s, n))
        /\ EventsOf(s, Done(Unset))' = EventsOf(s, n)
        /\ GaugeOf(EventsOf(s, Done(Unset)))' = GaugeOf(EventsOf(s, n))
  <2> TAKE s \in AllSeries
  <2>1. Observed(EventsOf(s, Done(Unobserved)))' = Observed(EventsOf(s, n))'
    BY <1>6 DEF Observed
  <2>2. GaugeOf(EventsOf(s, Done(Unset)))' = GaugeOf(EventsOf(s, n))'
    BY <1>6 DEF GaugeOf, Latest
  <2> QED BY <1>5, <1>6, <2>1, <2>2
<1>8. \A s : EventsOf(s, Len(taken))' # EventsOf(s, n) => EventsOf(s, Len(taken))' # {}
  <2> TAKE s
  <2>1. EventsOf(s, n)' \subseteq EventsOf(s, Len(taken))'
    BY <1>1, <1>2 DEF EventsOf
  <2> QED BY <1>5, <2>1
<1>9. /\ \A s \in AllSeries :
           IF s \in DOMAIN histograms THEN histograms[s] = Observed(EventsOf(s, n))
           ELSE EventsOf(s, n) = {}
      /\ \A s \in AllSeries :
           IF s \in DOMAIN gauges THEN gauges[s] = GaugeOf(EventsOf(s, n))
           ELSE EventsOf(s, n) = {}
      /\ \A s \in DOMAIN histograms \cup DOMAIN gauges : EventsOf(s, n) # {}
  BY <1>1, <1>3 DEF ValuesInv
<1> QED BY <1>1, <1>7, <1>8, <1>9 DEF ValuesInv

(* And after every step. *)
LEMMA ValuesNext == TypeOK /\ ProgressInv /\ ValuesInv /\ [Next]_vars => ValuesInv'
<1> SUFFICES ASSUME TypeOK, ProgressInv, ValuesInv, [Next]_vars PROVE ValuesInv'
  OBVIOUS
<1>1. ASSUME UNCHANGED <<taken, pending, metrics>> PROVE ValuesInv'
  <2>1. \A s, k : /\ EventsOf(s, k)' = EventsOf(s, k)
                   /\ Observed(EventsOf(s, k))' = Observed(EventsOf(s, k))
                   /\ GaugeOf(EventsOf(s, k))' = GaugeOf(EventsOf(s, k))
    BY <1>1 DEF EventsOf, Observed, Units, GaugeOf, Latest
  <2>2. Done(Unobserved)' = Done(Unobserved) /\ Done(Unset)' = Done(Unset)
    BY <1>1 DEF Done, Unobserved, Unset
  <2> QED BY <1>1, <2>1, <2>2 DEF ValuesInv, metrics
<1>2. ASSUME NEW e \in Inputs, Take(e) PROVE ValuesInv'
  BY <1>2, ValuesTake
<1>3. CASE Update
  BY <1>3, ValuesUpdate
<1>4. CASE StartScrape
  BY <1>1, <1>4 DEF StartScrape
<1>5. ASSUME NEW m \in Metrics, ReadMetric(m) PROVE ValuesInv'
  BY <1>1, <1>5 DEF ReadMetric
<1>6. CASE UNCHANGED vars
  BY <1>1, <1>6 DEF vars
<1> QED BY <1>2, <1>3, <1>4, <1>5, <1>6 DEF Next

(* Each metric is read when it shows as many events as it then has, which are   *)
(* no fewer than were completed before the scrape; later events change nothing  *)
(* of that.                                                                     *)
LEMMA FreshNext == IInv /\ [Next]_vars => ScrapeFresh'
<1> DEFINE Shown(m, v, n) ==
             v = IF m[1] = "histogram" THEN Observed(EventsOf(m[2], n))
                 ELSE GaugeOf(EventsOf(m[2], n))
<1> SUFFICES ASSUME IInv, [Next]_vars PROVE ScrapeFresh'
  OBVIOUS
<1>1. ScrapeFresh <=> \A m \in DOMAIN page : \E n \in before .. Len(taken) : Shown(m, page[m], n)
  BY DEF ScrapeFresh, GaugeOf
<1>2. ASSUME \A m \in DOMAIN page' : \A v :
                v = page'[m] => \E n \in before' .. Len(taken') : Shown(m, v, n)'
      PROVE  ScrapeFresh'
  BY <1>2 DEF ScrapeFresh, GaugeOf
<1>3. /\ TypeOK /\ ProgressInv /\ Len(taken) \in Nat /\ before \in Nat /\ before <= Completed
      /\ Completed \in Nat /\ Completed <= Len(taken)
  BY Counted DEF IInv, BeforeInv
<1>4. ASSUME UNCHANGED taken PROVE \A m, v, n : Shown(m, v, n)' <=> Shown(m, v, n)
  BY <1>4 DEF EventsOf, Observed, Units, GaugeOf, Latest
<1>5. ASSUME UNCHANGED <<taken, before, page>> PROVE ScrapeFresh'
  <2>1. \A m, v, n : Shown(m, v, n)' <=> Shown(m, v, n)
    BY <1>4, <1>5
  <2> HIDE DEF Shown
  <2> QED BY <1>1, <1>2, <1>5, <2>1 DEF IInv
<1>6. ASSUME NEW e \in Inputs, Take(e) PROVE ScrapeFresh'
  <2>1. before' = before /\ page' = page /\ Len(taken') = Len(taken) + 1
    BY <1>3, <1>6, TakeEffect DEF Take, scraping
  <2>2. \A m, v : \A n \in 0 .. Len(taken) : Shown(m, v, n) => Shown(m, v, n)'
    BY <1>3, <1>6, TakeKeeps
  <2> HIDE DEF Shown
  <2>3. \A n \in before .. Len(taken) : n \in 0 .. Len(taken) /\ n \in before .. Len(taken) + 1
    BY <1>3
  <2> QED BY <1>1, <1>2, <2>1, <2>2, <2>3 DEF IInv
<1>7. CASE Update
  BY <1>5, <1>7 DEF Update, scraping
<1>8. CASE StartScrape
  <2>1. page' = <<>> /\ DOMAIN <<>> = {}
    BY <1>8 DEF StartScrape
  <2> QED BY <1>2, <2>1
<1>9. ASSUME NEW m \in Metrics, ReadMetric(m) PROVE ScrapeFresh'
  <2>1. taken' = taken /\ before' = before
    BY <1>9 DEF ReadMetric
  <2>2. PICK s \in AllSeries, kind \in {"histogram", "gauge"} : m = <<kind, s>>
    BY DEF Metrics
  <2>3. /\ Done(Unobserved) \in before .. Len(taken)
        /\ Done(Unset) \in before .. Len(taken)
    <3>1. CASE Idle
      <4>1. ~Unobserved /\ ~Unset
        BY <3>1, NotIdle DEF Idle, Unobserved, Unset
      <4> QED BY <1>3, <4>1 DEF Done
    <3>2. CASE ~Idle
      <4>1. Completed = Len(taken) - 1
        BY <3>2 DEF Completed
      <4> QED BY <1>3, <4>1 DEF Done
    <3> QED BY <3>1, <3>2
  <2>4. /\ s \in DOMAIN histograms => histograms[s] = Observed(EventsOf(s, Done(Unobserved)))
        /\ s \in DOMAIN gauges => gauges[s] = GaugeOf(EventsOf(s, Done(Unset)))
    BY DEF IInv, ValuesInv
  <2>5. CASE page' = page
    BY <1>5, <2>1, <2>5
  <2>6. CASE kind = "histogram" /\ s \in DOMAIN histograms /\ page' = Put(page, m, histograms[s])
    <3>1. Shown(m, histograms[s], Done(Unobserved))
      BY <2>2, <2>4, <2>6
    <3>2. /\ page'[m] = histograms[s]
          /\ \A k \in DOMAIN page' : k = m \/ (k \in DOMAIN page /\ page'[k] = page[k])
      <4>1. page' = [y \in DOMAIN page \cup {m} |-> IF y = m THEN histograms[s] ELSE page[y]]
        BY <2>6 DEF Put
      <4> HIDE DEF Shown
      <4> QED BY <4>1
    <3>3. \A k \in DOMAIN page' : \E n \in before .. Len(taken) : Shown(k, page'[k], n)
      <4> HIDE DEF Shown
      <4> QED BY <1>1, <2>3, <3>1, <3>2 DEF IInv
    <3>4. \A k, v, n : Shown(k, v, n)' <=> Shown(k, v, n)
      BY <1>4, <2>1
    <3> HIDE DEF Shown
    <3> QED BY <1>2, <2>1, <3>3, <3>4
  <2>7. CASE kind = "gauge" /\ s \in DOMAIN gauges /\ page' = Put(page, m, gauges[s])
    <3>1. Shown(m, gauges[s], Done(Unset))
      BY <2>2, <2>4, <2>7
    <3>2. /\ page'[m] = gauges[s]
          /\ \A k \in DOMAIN page' : k = m \/ (k \in DOMAIN page /\ page'[k] = page[k])
      <4>1. page' = [y \in DOMAIN page \cup {m} |-> IF y = m THEN gauges[s] ELSE page[y]]
        BY <2>7 DEF Put
      <4> HIDE DEF Shown
      <4> QED BY <4>1
    <3>3. \A k \in DOMAIN page' : \E n \in before .. Len(taken) : Shown(k, page'[k], n)
      <4> HIDE DEF Shown
      <4> QED BY <1>1, <2>3, <3>1, <3>2 DEF IInv
    <3>4. \A k, v, n : Shown(k, v, n)' <=> Shown(k, v, n)
      BY <1>4, <2>1
    <3> HIDE DEF Shown
    <3> QED BY <1>2, <2>1, <3>3, <3>4
  <2> QED BY <1>9, <2>2, <2>5, <2>6, <2>7 DEF ReadMetric
<1>10. CASE UNCHANGED vars
  BY <1>5, <1>10 DEF vars, scraping
<1> QED BY <1>6, <1>7, <1>8, <1>9, <1>10 DEF Next

(* Between events the values are those Settled speaks of. *)
LEMMA ValuesSettled == TypeOK /\ ProgressInv /\ ValuesInv => Settled
<1> SUFFICES ASSUME TypeOK, ProgressInv, ValuesInv, Idle PROVE Settled
  BY DEF Settled
<1>1. ~Unobserved /\ ~Unset
  BY NotIdle DEF Idle, Unobserved, Unset
<1>2. Done(Unobserved) = Len(taken) /\ Done(Unset) = Len(taken)
  BY <1>1 DEF Done
<1>3. ASSUME NEW s \in AllSeries
      PROVE  LET own == EventsOf(s, Len(taken))
             IN IF own = {} THEN s \notin DOMAIN histograms \cup DOMAIN gauges
                ELSE /\ s \in DOMAIN histograms /\ histograms[s] = Observed(own)
                     /\ s \in DOMAIN gauges /\ gauges[s] = Latest(own)
  BY <1>2 DEF ValuesInv, GaugeOf
<1> DEFINE exported == {i \in DOMAIN taken : taken[i].type # "READ"}
           series == [i \in exported |-> Series(taken[i])]
<1>4. ASSUME NEW i \in exported
      PROVE  Series(taken[i]) \in AllSeries /\ Belongs(taken[i], Series(taken[i]))
  <2>1. taken[i] \in Inputs /\ Steps(taken[i]) # <<>>
    BY OnlyReadsDropped DEF TypeOK
  <2> QED BY <2>1, SeriesHasItsEvents
<1>5. series \in [exported -> AllSeries]
  BY <1>4
<1>6. \A i \in exported : series[i][3] = taken[i].name
  BY DEF Series
<1>7. \A i, j \in exported :
        taken[i].type = taken[j].type /\ taken[i].name = taken[j].name => series[i] = series[j]
  BY DEF Series
<1>8. ASSUME NEW s \in AllSeries
      PROVE  {i \in exported : series[i] = s} = EventsOf(s, Len(taken))
  <2>1. ASSUME NEW i \in EventsOf(s, Len(taken)) PROVE i \in exported /\ series[i] = s
    <3>1. i \in DOMAIN taken /\ taken[i] \in Inputs /\ Belongs(taken[i], s)
      BY DEF EventsOf, TypeOK
    <3>2. Steps(taken[i]) # <<>> /\ Series(taken[i]) = s
      BY <3>1, BelongsToItsSeries
    <3>3. taken[i].type # "READ"
      BY <3>2 DEF Steps, Family
    <3> QED BY <3>1, <3>2, <3>3
  <2>2. ASSUME NEW i \in exported, series[i] = s PROVE i \in EventsOf(s, Len(taken))
    <3>1. i \in 1 .. Len(taken)
      BY DEF TypeOK
    <3> QED BY <3>1, <2>2, <1>4 DEF EventsOf
  <2> QED BY <2>1, <2>2
<1> HIDE DEF series
<1>9. ASSUME NEW s \in AllSeries
      PROVE  LET own == {i \in exported : series[i] = s}
             IN IF own = {} THEN s \notin DOMAIN histograms \cup DOMAIN gauges
                ELSE /\ s \in DOMAIN histograms /\ histograms[s] = Observed(own)
                     /\ s \in DOMAIN gauges /\ gauges[s] = Latest(own)
  BY <1>3, <1>8
<1> QED BY <1>5, <1>6, <1>7, <1>9 DEF Settled
-----------------------------------------------------------------------------
(* The invariant is inductive. *)
THEOREM Invariant == Spec => []IInv
<1>1. IInv /\ [Next]_vars => IInv'
  BY TypeNext, ProgressNext, ScrapeNext, BeforeNext, ValuesNext, FreshNext DEF IInv
<1> QED BY <1>1, IInvInit, PTL DEF Spec

(* The variables keep their types; no histogram counts more than the events. *)
THEOREM TypeCorrect == Spec => []TypeOK
<1>1. IInv => TypeOK
  BY DEF IInv
<1> QED BY <1>1, Invariant, PTL

(* No series is missing from a page that the events complete before the scrape  *)
(* should have created, in whatever order the metrics are read and however many *)
(* events are exported meanwhile.                                               *)
THEOREM ScrapeCompleteCorrect == Spec => []ScrapeComplete
<1>1. IInv => ScrapeComplete
  BY DEF IInv
<1> QED BY <1>1, Invariant, PTL

(* Between events the events taken, but for reads, can be divided among the      *)
(* series of their processes so that each is exactly what its events come to: the *)
(* number and the sum of the latencies in the histogram, the latest in the gauge. *)
THEOREM SettledCorrect == Spec => []Settled
<1>1. IInv => Settled
  BY ValuesSettled DEF IInv
<1> QED BY <1>1, Invariant, PTL

(* A page shows every series as it was at some time since the scrape began.     *)
THEOREM ScrapeFreshCorrect == Spec => []ScrapeFresh
<1>1. IInv => ScrapeFresh
  BY DEF IInv
<1> QED BY <1>1, Invariant, PTL
=============================================================================
