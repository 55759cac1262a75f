------------------------------ MODULE Exporter ------------------------------
(***************************************************************************)
(* The Prometheus exporter (internal/metricsexporter/promexporter.go): a   *)
(* goroutine takes events and updates, for each, a histogram and a gauge   *)
(* of the event's family, labelled by type and process name; an HTTP       *)
(* handler collects all series meanwhile.                                  *)
(*                                                                         *)
(* The two updates of an event, and the creation of a series by            *)
(* WithLabelValues before its first update, are steps of their own; a      *)
(* scrape reads the series one by one in any order, each at one moment.    *)
(***************************************************************************)
EXTENDS Naturals, Sequences, SequencesExt

CONSTANTS
  Inputs,     \* the events that may come: type, name and latency
  MaxEvents,  \* bound on the events taken
  MaxScrapes  \* bound on the scrapes

EventTypes == {"DNS", "CONNECT", "TCP_SEND", "TCP_RECV", "WRITE", "READ", "FSYNC", "SCHED_SWITCH"}

ASSUME ExporterAssumption ==
  /\ \A e \in Inputs : e.type \in EventTypes /\ e.latency \in Nat
  /\ MaxEvents \in Nat
  /\ MaxScrapes \in Nat

VARIABLES
  serving,    \* whether ListenAndServe got its port; nobody looks
  taken,      \* history: the events received, the last perhaps in progress
  pending,    \* the steps left for the event in progress
  histograms, \* series -> count and sum of the observations
  gauges,     \* series -> the value set last
  scrapes,    \* number of scrapes so far
  before,     \* history: the events completed when the scrape started
  unread,     \* the metrics the scrape has still to read
  page        \* what it has read

metrics == <<histograms, gauges>>
scraping == <<scrapes, before, unread, page>>
vars == <<serving, taken, pending, metrics, scraping>>

(* f with f[x] = v. *)
Put(f, x, v) == [y \in DOMAIN f \cup {x} |-> IF y = x THEN v ELSE f[y]]

(* The label "type": what the event types are merged into. *)
TypeString(type) ==
  CASE type = "DNS" -> "DNS"
    [] type \in {"CONNECT", "TCP_SEND", "TCP_RECV"} -> "NET"
    [] type \in {"WRITE", "READ", "FSYNC"} -> "FS"
    [] type = "SCHED_SWITCH" -> "CPU"

(* Mutant of Family: the case of fsync is left out. *)
FamilyNoFsync(type) ==
  CASE type = "CONNECT" -> "latency"
    [] type \in {"TCP_SEND", "TCP_RECV"} -> "rtt"
    [] type = "DNS" -> "dns"
    [] type = "WRITE" -> "fs"
    [] type = "SCHED_SWITCH" -> "cpu"
    [] OTHER -> "none"
(* HandleEvents: which pair of metrics an event goes to; a read to none. *)
Family(type) ==
  CASE type = "CONNECT" -> "latency"
    [] type \in {"TCP_SEND", "TCP_RECV"} -> "rtt"
    [] type = "DNS" -> "dns"
    [] type \in {"WRITE", "FSYNC"} -> "fs"
    [] type = "SCHED_SWITCH" -> "cpu"
    [] OTHER -> "none"

Series(e) == <<Family(e.type), TypeString(e.type), e.name>>

(* Mutant of Steps: the gauge of file events is left out. *)
StepsNoFsGauge(e) ==
  CASE Family(e.type) = "none" -> <<>>
    [] Family(e.type) \in {"latency", "rtt"} -> <<"new histogram", "observe", "new gauge", "set">>
    [] Family(e.type) = "fs" -> <<"new histogram", "observe">>
    [] OTHER -> <<"new gauge", "set", "new histogram", "observe">>
(* The Export functions: ExportRTTMetric and ExportTCPMetric observe first, the *)
(* others set first.                                                            *)
Steps(e) ==
  CASE Family(e.type) = "none" -> <<>>
    [] Family(e.type) \in {"latency", "rtt"} -> <<"new histogram", "observe", "new gauge", "set">>
    [] OTHER -> <<"new gauge", "set", "new histogram", "observe">>

AllSeries == {Series(e) : e \in {x \in Inputs : Steps(x) # <<>>}}
Metrics == {"histogram", "gauge"} \X AllSeries

Init ==
  /\ serving \in BOOLEAN
  /\ taken = <<>>
  /\ pending = <<>>
  /\ histograms = <<>>
  /\ gauges = <<>>
  /\ scrapes = 0
  /\ before = 0
  /\ unread = {}
  /\ page = <<>>

Idle == pending = <<>>
Completed == IF Idle THEN Len(taken) ELSE Len(taken) - 1

(* The goroutine takes an event out of eventChan. *)
Take(e) ==
  /\ Idle /\ Len(taken) < MaxEvents
  /\ taken' = Append(taken, e)
  /\ pending' = Steps(e)
  /\ UNCHANGED <<serving, metrics, scraping>>

(* Mutants of Observation: counted twice; the last value instead of the sum. *)
ObservationTwice(h, latency) == [count |-> h.count + 2, sum |-> h.sum + latency]
ObservationLast(h, latency) == [count |-> h.count + 1, sum |-> latency]
Observation(h, latency) == [count |-> h.count + 1, sum |-> h.sum + latency]

(* One step of an Export function: WithLabelValues creates the series at zero. *)
Update ==
  LET e == Last(taken)
      s == Series(e)
      step == Head(pending)
  IN /\ ~Idle
     /\ pending' = Tail(pending)
     /\ histograms' =
          IF step = "new histogram" /\ s \notin DOMAIN histograms
          THEN Put(histograms, s, [count |-> 0, sum |-> 0])
          ELSE IF step = "observe" THEN Put(histograms, s, Observation(histograms[s], e.latency))
          ELSE histograms
     /\ gauges' =
          IF step = "new gauge" /\ s \notin DOMAIN gauges THEN Put(gauges, s, 0)
          ELSE IF step = "set" THEN Put(gauges, s, e.latency) ELSE gauges
     /\ UNCHANGED <<serving, taken, scraping>>

(* The handler of GET /metrics, if the server runs. *)
StartScrape ==
  /\ serving /\ unread = {} /\ scrapes < MaxScrapes
  /\ scrapes' = scrapes + 1
  /\ before' = Completed
  /\ unread' = Metrics
  /\ page' = <<>>
  /\ UNCHANGED <<serving, taken, pending, metrics>>

(* It reads one metric; one that does not exist yet is not on the page. *)
ReadMetric(m) ==
  /\ m \in unread
  /\ unread' = unread \ {m}
  /\ LET all == IF m[1] = "histogram" THEN histograms ELSE gauges
     IN page' = IF m[2] \in DOMAIN all THEN Put(page, m, all[m[2]]) ELSE page
  /\ UNCHANGED <<serving, taken, pending, metrics, scrapes, before>>

Next ==
  \/ \E e \in Inputs : Take(e)
  \/ Update
  \/ StartScrape
  \/ \E m \in Metrics : ReadMetric(m)

Spec == Init /\ [][Next]_vars
-----------------------------------------------------------------------------
Latencies == {e.latency : e \in Inputs}

(* The types of the variables. *)
TypeOK ==
  /\ serving \in BOOLEAN
  /\ taken \in Seq(Inputs) /\ Len(taken) <= MaxEvents
  /\ Len(pending) <= 4
  /\ DOMAIN histograms \subseteq AllSeries
  /\ \A s \in DOMAIN histograms : histograms[s].count \in 0 .. Len(taken) /\ histograms[s].sum \in Nat
  /\ DOMAIN gauges \subseteq AllSeries
  /\ \A s \in DOMAIN gauges : gauges[s] \in Latencies \cup {0}
  /\ scrapes \in 0 .. MaxScrapes
  /\ before \in 0 .. Len(taken)
  /\ unread \subseteq Metrics
  /\ DOMAIN page \subseteq Metrics

(* What the series of a family are made of by the code (HandleEvents): the help   *)
(* texts do not say which network event is a round trip and which a latency, and  *)
(* README.md calls connections' the latency of sends and receives.                *)
Belongs(e, s) ==
  /\ e.name = s[3]
  /\ e.type \in
       CASE s[1] = "rtt" -> {"TCP_SEND", "TCP_RECV"}
         [] s[1] = "latency" -> {"CONNECT"}
         [] s[1] = "dns" -> {"DNS"}
         [] s[1] = "fs" -> {"WRITE", "FSYNC"}
         [] s[1] = "cpu" -> {"SCHED_SWITCH"}

(* The events of a series among the first n taken, and what they should add up *)
(* to: a latency is that many units of time, all of which the sum counts.      *)
EventsOf(s, n) == {i \in 1 .. n : Belongs(taken[i], s)}
Units(i) == {i} \X (1 .. taken[i].latency)
Observed(own) ==
  [count |-> Cardinality(own), sum |-> Cardinality(UNION {Units(i) : i \in own})]
Latest(own) == taken[Max(own)].latency

(* Between events the metrics account for every event once: the events taken but  *)
(* for reads, which have no metric, can be divided among the series of their own  *)
(* process, those of one type together, so that each histogram has the number and *)
(* the sum of its events and each gauge shows the latest of them.  Which types    *)
(* share a series is left open: the code and README.md disagree about it.         *)
Settled ==
  Idle =>
    LET exported == {i \in DOMAIN taken : taken[i].type # "READ"}
    IN \E series \in [exported -> AllSeries] :
         /\ \A i \in exported : series[i][3] = taken[i].name
         /\ \A i, j \in exported :
              taken[i].type = taken[j].type /\ taken[i].name = taken[j].name => series[i] = series[j]
         /\ \A s \in AllSeries :
              LET own == {i \in exported : series[i] = s}
              IN IF own = {} THEN s \notin DOMAIN histograms \cup DOMAIN gauges
                 ELSE /\ s \in DOMAIN histograms /\ histograms[s] = Observed(own)
                      /\ s \in DOMAIN gauges /\ gauges[s] = Latest(own)

(* A page, however it interleaves with updates, shows each series as it was     *)
(* after some number of its events: no less than those completed before the     *)
(* scrape, no more than those taken by now.  A new series may show a zero.      *)
ScrapeFresh ==
  \A m \in DOMAIN page :
    \E n \in before .. Len(taken) :
      LET own == EventsOf(m[2], n)
      IN page[m] = IF m[1] = "histogram" THEN Observed(own)
                   ELSE IF own = {} THEN 0 ELSE Latest(own)

(* No series of an event that was complete before the scrape is missing from    *)
(* what the scrape has read.                                                    *)
ScrapeComplete ==
  \A m \in Metrics \ unread :
    (\E i \in 1 .. before : Belongs(taken[i], m[2])) => m \in DOMAIN page
=============================================================================
