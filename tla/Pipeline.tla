------------------------------ MODULE Pipeline ------------------------------
(***************************************************************************)
(* The way of an event through user space: the ring buffer, the reader     *)
(* goroutine of Tracer.Start (internal/ebpf/tracer.go), eventChan, and its *)
(* TWO receivers, metricsexporter.HandleEvents and the select loop of main *)
(* (cmd/podtrace/main.go); and the end of the program, when Tracer.Stop    *)
(* closes the reader, the probes and the BPF objects in turn while the     *)
(* goroutines go on.                                                       *)
(*                                                                         *)
(* Events are numbered in the order the BPF programs produce them.         *)
(***************************************************************************)
EXTENDS Naturals, Sequences, FiniteSets

CONSTANTS
  RingCap,    \* events that fit in the ring buffer
  ChanCap,    \* capacity of eventChan (100)
  MaxEvents   \* bound on the events produced

ASSUME PipelineAssumption ==
  /\ RingCap \in Nat
  /\ ChanCap \in Nat
  /\ MaxEvents \in Nat

VARIABLES
  produced,    \* number of events produced so far
  ring,        \* the ring buffer
  dropped,     \* events lost to a full ring buffer or filtered out
  reader,      \* reader goroutine: "idle", "read", "filter", "send" or "done"
  record,      \* the event it holds, 0 if none
  eventChan,   \* the channel
  exported,    \* events HandleEvents has received, in order
  recorded,    \* Diagnostician.events: events the main loop has added, in order
  pc           \* where the main goroutine is

progress == <<produced, ring, dropped>>
reading == <<reader, record>>
vars == <<progress, reading, eventChan, exported, recorded, pc>>

InLoop == {"select", "report", "final"}
Stopping == {"stopReader", "closeLinks", "closeCollection"}

(* NewTracer has attached the programs; nothing reads the ring buffer yet. *)
Init ==
  /\ produced = 0
  /\ ring = <<>>
  /\ dropped = {}
  /\ reader = "idle"
  /\ record = 0
  /\ eventChan = <<>>
  /\ exported = <<>>
  /\ recorded = <<>>
  /\ pc = "loaded"

(* A program reports an event, as long as its probe is attached. *)
Produce ==
  /\ pc \notin {"closeCollection", "exited"}
  /\ produced < MaxEvents
  /\ produced' = produced + 1
  /\ IF Len(ring) < RingCap
     THEN ring' = Append(ring, produced') /\ UNCHANGED dropped
     ELSE dropped' = dropped \cup {produced'} /\ UNCHANGED ring
  /\ UNCHANGED <<reading, eventChan, exported, recorded, pc>>
-----------------------------------------------------------------------------
(* The reader goroutine. *)

ReaderClosed == pc \notin {"loaded", "stopReader"} \cup InLoop

(* Mutant of Read: the newest record first. *)
ReadNewest ==
  /\ pc # "exited" /\ reader = "read" /\ ~ReaderClosed /\ ring # <<>>
  /\ record' = ring[Len(ring)]
  /\ ring' = SubSeq(ring, 1, Len(ring) - 1)
  /\ reader' = "filter"
  /\ UNCHANGED <<produced, dropped, eventChan, exported, recorded, pc>>

(* reader.Read takes the oldest record; parseEvent accepts all records of the *)
(* programs, which are of full length.                                        *)
Read ==
  /\ pc # "exited" /\ reader = "read" /\ ~ReaderClosed /\ ring # <<>>
  /\ record' = Head(ring)
  /\ ring' = Tail(ring)
  /\ reader' = "filter"
  /\ UNCHANGED <<produced, dropped, eventChan, exported, recorded, pc>>

(* reader.Read fails because the reader is closed: the goroutine ends. *)
ReadClosed ==
  /\ pc # "exited" /\ reader = "read" /\ ReaderClosed
  /\ reader' = "done"
  /\ UNCHANGED <<progress, record, eventChan, exported, recorded, pc>>

(* isPIDInCgroup reads /proc: the process may be of the pod, or not, or gone. *)
Filter ==
  /\ pc # "exited" /\ reader = "filter"
  /\ \/ /\ reader' = "send"
        /\ UNCHANGED <<record, dropped>>
     \/ /\ reader' = "read"
        /\ record' = 0
        /\ dropped' = dropped \cup {record}
  /\ UNCHANGED <<produced, ring, eventChan, exported, recorded, pc>>

(* Mutants of Send: it does not wait for room, or gives the event up instead. *)
SendUnbounded ==
  /\ pc # "exited" /\ reader = "send"
  /\ eventChan' = Append(eventChan, record)
  /\ record' = 0
  /\ reader' = "read"
  /\ UNCHANGED <<progress, exported, recorded, pc>>
SendOrGiveUp ==
  /\ pc # "exited" /\ reader = "send"
  /\ eventChan' = IF Len(eventChan) < ChanCap THEN Append(eventChan, record) ELSE eventChan
  /\ record' = 0
  /\ reader' = "read"
  /\ UNCHANGED <<progress, exported, recorded, pc>>

(* eventChan <- event blocks while the channel is full. *)
Send ==
  /\ pc # "exited" /\ reader = "send" /\ Len(eventChan) < ChanCap
  /\ eventChan' = Append(eventChan, record)
  /\ record' = 0
  /\ reader' = "read"
  /\ UNCHANGED <<progress, exported, recorded, pc>>
-----------------------------------------------------------------------------
(* Mutants of Export: only while the main loop selects; a copy of the event. *)
ExportInSelect ==
  /\ pc = "select" /\ eventChan # <<>>
  /\ exported' = Append(exported, Head(eventChan))
  /\ eventChan' = Tail(eventChan)
  /\ UNCHANGED <<progress, reading, recorded, pc>>
ExportCopy ==
  /\ pc \notin {"loaded", "exited"} /\ eventChan # <<>> /\ Len(exported) < MaxEvents
  /\ exported' = Append(exported, Head(eventChan))
  /\ UNCHANGED <<progress, reading, eventChan, recorded, pc>>

(* HandleEvents receives an event and exports it, in every state of main. *)
Export ==
  /\ pc \notin {"loaded", "exited"} /\ eventChan # <<>>
  /\ exported' = Append(exported, Head(eventChan))
  /\ eventChan' = Tail(eventChan)
  /\ UNCHANGED <<progress, reading, recorded, pc>>

(* The main goroutine: start the exporter and the reader; an invalid duration *)
(* for diagnose mode is found only now and ends the program.                  *)
Start ==
  /\ pc = "loaded"
  /\ reader' = "read"
  /\ pc' \in {"select", "stopReader"}
  /\ UNCHANGED <<progress, record, eventChan, exported, recorded>>

(* The select loop: an event, or the ticker, the diagnose timer or Ctrl+C. *)
AddEvent ==
  /\ pc = "select" /\ eventChan # <<>>
  /\ recorded' = Append(recorded, Head(eventChan))
  /\ eventChan' = Tail(eventChan)
  /\ UNCHANGED <<progress, reading, exported, pc>>

LeaveSelect ==
  /\ pc = "select"
  /\ pc' \in {"report", "final"}
  /\ UNCHANGED <<progress, reading, eventChan, exported, recorded>>

(* The report is generated and printed, outside the select. *)
Report ==
  /\ pc \in {"report", "final"}
  /\ pc' = IF pc = "report" THEN "select" ELSE "stopReader"
  /\ UNCHANGED <<progress, reading, eventChan, exported, recorded>>

(* The deferred Tracer.Stop: the reader, the links, the collection; then exit. *)
Stop ==
  /\ pc \in Stopping
  /\ pc' = CASE pc = "stopReader"      -> "closeLinks"
             [] pc = "closeLinks"      -> "closeCollection"
             [] pc = "closeCollection" -> "exited"
  /\ UNCHANGED <<progress, reading, eventChan, exported, recorded>>

Next ==
  \/ Produce
  \/ Read \/ ReadClosed \/ Filter \/ Send
  \/ Export
  \/ Start \/ AddEvent \/ LeaveSelect \/ Report \/ Stop

(* The reader and the exporter goroutine are scheduled.  Nothing is assumed of *)
(* main once it has started them: it may stay in a report for ever.            *)
Fairness ==
  /\ WF_vars(Start)
  /\ WF_vars(Read) /\ WF_vars(ReadClosed) /\ WF_vars(Filter) /\ WF_vars(Send)
  /\ WF_vars(Export)

Spec == Init /\ [][Next]_vars /\ Fairness
-----------------------------------------------------------------------------
Ids(seq) == {seq[i] : i \in DOMAIN seq}
Holding == {record} \ {0}
Delivered == Ids(exported) \cup Ids(recorded)

(* The types of the variables. *)
TypeOK ==
  /\ produced \in 0 .. MaxEvents
  /\ ring \in Seq(1 .. MaxEvents) /\ Len(ring) <= RingCap
  /\ dropped \subseteq 1 .. MaxEvents
  /\ reader \in {"idle", "read", "filter", "send", "done"}
  /\ record \in 0 .. MaxEvents
  /\ eventChan \in Seq(1 .. MaxEvents) /\ Len(eventChan) <= ChanCap
  /\ exported \in Seq(1 .. MaxEvents)
  /\ recorded \in Seq(1 .. MaxEvents)
  /\ pc \in {"loaded", "exited"} \cup InLoop \cup Stopping

(* No event is lost or doubled in user space: each one is in exactly one of the  *)
(* ring buffer, the reader, the channel, the metrics, the report and the events  *)
(* that were dropped, also while the program stops around the reader.            *)
Conservation ==
  /\ Ids(ring) \cup Holding \cup Ids(eventChan) \cup Delivered \cup dropped = 1 .. produced
  /\ Len(ring) + Cardinality(Holding) + Len(eventChan) + Len(exported) + Len(recorded)
       + Cardinality(dropped) = produced

(* The stages hold the events in the order of their production: what a receiver *)
(* has is older than what the channel holds, that older than the reader's, ...   *)
InOrder ==
  LET Before(S, T) == \A a \in S, b \in T : a < b
      Increasing(seq) == \A i, j \in DOMAIN seq : i < j => seq[i] < seq[j]
  IN /\ Increasing(ring) /\ Increasing(eventChan)
     /\ Increasing(exported) /\ Increasing(recorded)
     /\ Before(Holding, Ids(ring))
     /\ Before(Ids(eventChan), Holding \cup Ids(ring))
     /\ Before(Delivered, Ids(eventChan) \cup Holding \cup Ids(ring))

(* The pipeline implements Dispatch, for the two receivers of eventChan. *)
Abstract == INSTANCE Dispatch WITH
  Receivers <- {"metrics", "report"},
  got <- [r \in {"metrics", "report"} |-> IF r = "metrics" THEN exported ELSE recorded]
ImplementsDispatch == Abstract!Spec

(* The reader is never blocked for good on a full channel, and the ring buffer *)
(* is drained, even while the main loop is busy with a report: the exporter    *)
(* goes on receiving.  Only the end of the program leaves an event behind.      *)
EveryEventMovesOn ==
  \A id \in 1 .. MaxEvents :
    id \in Ids(ring) \cup Holding \cup Ids(eventChan)
      ~> id \in Delivered \cup dropped \/ pc \in Stopping \cup {"exited"}

(* "Collects events for a specified duration and generates a comprehensive       *)
(* summary report" (README.md): the final report covers every event that came    *)
(* out of the channel.                                                           *)
ReportComplete == pc = "final" => Delivered \subseteq Ids(recorded)
=============================================================================
