------------------------------ MODULE MainLoop ------------------------------
(***************************************************************************)
(* The select loops of cmd/podtrace/main.go, runNormalMode and             *)
(* runDiagnoseMode, with the sources they wait on: the event channel, the  *)
(* 5 s ticker or the diagnose timer, and the interrupt.                    *)
(*                                                                         *)
(* Every evaluation of the select calls interruptChan(), which starts a    *)
(* NEW goroutine that registers for signals and forwards one to a NEW      *)
(* channel.  Only the newest of these channels is ever received from.      *)
(***************************************************************************)
EXTENDS Naturals

CONSTANTS ChanCap   \* capacity of eventChan (100)

ASSUME ChanAssumption == ChanCap \in Nat \ {0}

VARIABLES
  mode,        \* "normal" or "diagnose" (--diagnose was given)
  pc,          \* where the main goroutine is
  chan,        \* number of events in eventChan
  tick,        \* ticker.C holds a tick (its buffer is one; later ticks are dropped)
  timer,       \* the diagnose timer: "running", "fired" or "received"
  waiter,      \* the goroutine of the newest interruptChan()
  lateWaiter,  \* some older waiter has not called signal.Notify yet
  notified,    \* signal.Notify was called: a signal no longer kills the process
  pressed      \* history: the user has pressed Ctrl+C

timers == <<tick, timer>>
signals == <<waiter, lateWaiter, notified, pressed>>
vars == <<mode, pc, chan, timers, signals>>

Ended == {"returned", "failed", "killed"}

Init ==
  /\ mode \in {"normal", "diagnose"}
  /\ pc = "start"
  /\ chan \in 0 .. ChanCap
  /\ tick = FALSE
  /\ timer = "running"
  /\ waiter = "none"
  /\ lateWaiter = FALSE
  /\ notified = FALSE
  /\ pressed = FALSE
-----------------------------------------------------------------------------
(* The main goroutine. *)

(* Before the loop; diagnose mode returns an error if the duration does not parse. *)
Start ==
  /\ pc = "start"
  /\ \/ pc' = "loop"
     \/ mode = "diagnose" /\ pc' = "failed"
  /\ UNCHANGED <<mode, chan, timers, signals>>

(* Mutants of EvaluateSelect: time.After or NewTicker inside the loop. *)
EvaluateSelectNewTimer ==
  /\ pc = "loop"
  /\ pc' = "select"
  /\ waiter' = "started"
  /\ lateWaiter' = (lateWaiter \/ waiter = "started")
  /\ timer' = "running"
  /\ UNCHANGED <<mode, chan, tick, notified, pressed>>
EvaluateSelectNewTicker ==
  /\ pc = "loop"
  /\ pc' = "select"
  /\ waiter' = "started"
  /\ lateWaiter' = (lateWaiter \/ waiter = "started")
  /\ tick' = FALSE
  /\ UNCHANGED <<mode, chan, timer, notified, pressed>>

(* The select statement is evaluated: interruptChan() starts the next waiter. *)
EvaluateSelect ==
  /\ pc = "loop"
  /\ pc' = "select"
  /\ waiter' = "started"
  /\ lateWaiter' = (lateWaiter \/ waiter = "started")
  /\ UNCHANGED <<mode, chan, timers, notified, pressed>>

(* The cases; if several are ready the runtime picks one at random. *)
ReceiveEvent ==
  /\ pc = "select" /\ chan > 0
  /\ chan' = chan - 1
  /\ pc' = "loop"
  /\ UNCHANGED <<mode, timers, signals>>

ReceiveTick ==
  /\ mode = "normal" /\ pc = "select" /\ tick
  /\ tick' = FALSE
  /\ pc' = "report"
  /\ UNCHANGED <<mode, chan, timer, signals>>

ReceiveTimeout ==
  /\ mode = "diagnose" /\ pc = "select" /\ timer = "fired"
  /\ timer' = "received"
  /\ pc' = "final"
  /\ UNCHANGED <<mode, chan, tick, signals>>

ReceiveInterrupt ==
  /\ pc = "select" /\ waiter = "sent"
  /\ pc' = "final"
  /\ UNCHANGED <<mode, chan, timers, signals>>

(* Finish, GenerateReport and print: in the loop, or for the last time. *)
Report ==
  /\ pc \in {"report", "final"}
  /\ pc' = IF pc = "report" THEN "loop" ELSE "returned"
  /\ UNCHANGED <<mode, chan, timers, signals>>
-----------------------------------------------------------------------------
(* The newest waiter: WaitForInterrupt, then the send to its own channel. *)
Notify ==
  /\ pc \notin Ended /\ waiter = "started"
  /\ waiter' = "listening"
  /\ notified' = TRUE
  /\ UNCHANGED <<mode, pc, chan, timers, lateWaiter, pressed>>

ForwardInterrupt ==
  /\ pc \notin Ended /\ waiter = "woken"
  /\ waiter' = "sent"
  /\ UNCHANGED <<mode, pc, chan, timers, lateWaiter, notified, pressed>>

(* An older waiter registers late; its own channel is of no interest any more. *)
LateNotify ==
  /\ pc \notin Ended /\ lateWaiter
  /\ lateWaiter' = FALSE
  /\ notified' = TRUE
  /\ UNCHANGED <<mode, pc, chan, timers, waiter, pressed>>

(* SIGINT or SIGTERM: the default action until somebody is registered; then it *)
(* goes to every registered waiter, of which only the newest is received from. *)
Press ==
  /\ pc \notin Ended
  /\ pressed' = TRUE
  /\ pc' = IF notified THEN pc ELSE "killed"
  /\ waiter' = IF waiter = "listening" THEN "woken" ELSE waiter
  /\ UNCHANGED <<mode, chan, timers, lateWaiter, notified>>
-----------------------------------------------------------------------------
(* Mutant of Send: it does not wait for room in the channel. *)
SendUnbounded ==
  /\ pc \notin Ended /\ chan <= ChanCap
  /\ chan' = chan + 1
  /\ UNCHANGED <<mode, pc, timers, signals>>

(* The sources: the reader goroutine sends, the exporter goroutine receives. *)
Send ==
  /\ pc \notin Ended /\ chan < ChanCap
  /\ chan' = chan + 1
  /\ UNCHANGED <<mode, pc, timers, signals>>

ExporterReceive ==
  /\ pc \notin Ended /\ chan > 0
  /\ chan' = chan - 1
  /\ UNCHANGED <<mode, pc, timers, signals>>

TickerFires ==
  /\ mode = "normal" /\ pc \notin Ended \cup {"start"} /\ ~tick
  /\ tick' = TRUE
  /\ UNCHANGED <<mode, pc, chan, timer, signals>>

TimerFires ==
  /\ mode = "diagnose" /\ pc \notin Ended \cup {"start"} /\ timer = "running"
  /\ timer' = "fired"
  /\ UNCHANGED <<mode, pc, chan, tick, signals>>

Next ==
  \/ Start \/ EvaluateSelect
  \/ ReceiveEvent \/ ReceiveTick \/ ReceiveTimeout \/ ReceiveInterrupt
  \/ Report
  \/ Notify \/ ForwardInterrupt \/ LateNotify \/ Press
  \/ Send \/ ExporterReceive \/ TickerFires \/ TimerFires

(* Goroutines are scheduled and timers fire; the random choice of select takes *)
(* a case that is ready again and again.  Nobody has to press Ctrl+C, and      *)
(* nothing is assumed about the traffic.                                       *)
Fairness ==
  /\ WF_vars(Start) /\ WF_vars(EvaluateSelect) /\ WF_vars(Report)
  /\ SF_vars(ReceiveEvent) /\ SF_vars(ReceiveTick)
  /\ SF_vars(ReceiveTimeout) /\ SF_vars(ReceiveInterrupt)
  /\ WF_vars(Notify) /\ WF_vars(ForwardInterrupt) /\ WF_vars(LateNotify)
  /\ WF_vars(TickerFires) /\ WF_vars(TimerFires)

Spec == Init /\ [][Next]_vars /\ Fairness
-----------------------------------------------------------------------------
(* The types of the variables. *)
TypeOK ==
  /\ mode \in {"normal", "diagnose"}
  /\ pc \in {"start", "loop", "select", "report", "final"} \cup Ended
  /\ chan \in 0 .. ChanCap
  /\ tick \in BOOLEAN
  /\ timer \in {"running", "fired", "received"}
  /\ waiter \in {"none", "started", "listening", "woken", "sent"}
  /\ lateWaiter \in BOOLEAN
  /\ notified \in BOOLEAN
  /\ pressed \in BOOLEAN

(* "Running diagnose mode for ...": diagnose mode comes to an end, whatever the *)
(* traffic and even if every Ctrl+C is lost.                                    *)
DiagnoseEnds == mode = "diagnose" ~> pc \in Ended

(* "Real-time diagnostic updates every 5 seconds": normal mode keeps reporting  *)
(* under any traffic, until it ends.                                            *)
ReportsKeepComing == mode = "normal" => []<>(pc \in {"report"} \cup Ended)

(* "Press Ctrl+C to stop": after Ctrl+C the program ends.                       *)
CtrlCStops == pressed ~> pc \in Ended
=============================================================================
