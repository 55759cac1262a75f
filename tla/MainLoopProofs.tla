--------------------------- MODULE MainLoopProofs ---------------------------
(***************************************************************************)
(* Proofs about MainLoop, for any capacity of the channel.  Its other      *)
(* properties are liveness and left to TLC; no proof here uses Fairness.   *)
(***************************************************************************)
EXTENDS MainLoop, TLAPS
-----------------------------------------------------------------------------
(* The types of the variables are inductive: the channel is sent to only when   *)
(* it has room and received from only when it holds an event.                   *)
THEOREM TypeCorrect == Spec => []TypeOK
<1>1. Init => TypeOK
  BY ChanAssumption DEF Init, TypeOK
<1>2. TypeOK /\ [Next]_vars => TypeOK'
  <2> SUFFICES ASSUME TypeOK, [Next]_vars PROVE TypeOK'
    OBVIOUS
  <2> USE DEF TypeOK, timers, signals, Ended
  <2>1. CASE Start
    BY <2>1 DEF Start
  <2>2. CASE EvaluateSelect
    BY <2>2 DEF EvaluateSelect
  <2>3. CASE ReceiveEvent
    BY <2>3, ChanAssumption DEF ReceiveEvent
  <2>4. CASE ReceiveTick
    BY <2>4 DEF ReceiveTick
  <2>5. CASE ReceiveTimeout
    BY <2>5 DEF ReceiveTimeout
  <2>6. CASE ReceiveInterrupt
    BY <2>6 DEF ReceiveInterrupt
  <2>7. CASE Report
    BY <2>7 DEF Report
  <2>8. CASE Notify
    BY <2>8 DEF Notify
  <2>9. CASE ForwardInterrupt
    BY <2>9 DEF ForwardInterrupt
  <2>10. CASE LateNotify
    BY <2>10 DEF LateNotify
  <2>11. CASE Press
    BY <2>11 DEF Press
  <2>12. CASE Send
    BY <2>12, ChanAssumption DEF Send
  <2>13. CASE ExporterReceive
    BY <2>13, ChanAssumption DEF ExporterReceive
  <2>14. CASE TickerFires
    BY <2>14 DEF TickerFires
  <2>15. CASE TimerFires
    BY <2>15 DEF TimerFires
  <2>16. CASE UNCHANGED vars
    BY <2>16 DEF vars
  <2> QED
    BY <2>1, <2>2, <2>3, <2>4, <2>5, <2>6, <2>7, <2>8, <2>9, <2>10, <2>11, <2>12,
       <2>13, <2>14, <2>15, <2>16 DEF Next
<1> QED BY <1>1, <1>2, PTL DEF Spec
=============================================================================
