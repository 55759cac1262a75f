-------------------------- MODULE MCDiagnostician --------------------------
(* A small instance of Diagnostician: a second of 20, three pod processes and *)
(* two kernel threads, events before, at and after the start and on borders.  *)
EXTENDS Diagnostician

Input(type, pid, timestamp, latency, error, target) ==
  [type |-> type, pid |-> pid, timestamp |-> timestamp, latency |-> latency,
   error |-> error, target |-> target]

MCInputs == {
  Input("DNS", 1, 15, 3, 0, "a"),
  Input("FSYNC", 1, 20, 11, 0, ""),
  Input("CONNECT", 1, 22, 2, 0, "a"),
  Input("CONNECT", 2, 24, 5, -111, "?"),
  Input("CONNECT", 2, 45, 5, 0, "b"),
  Input("TCP_SEND", 2, 40, 100, 0, ""),
  Input("TCP_RECV", 1, 45, 150, -11, ""),
  Input("TCP_RECV", 5, 60, 20, -104, ""),
  Input("WRITE", 1, 60, 10, 0, ""),
  Input("SCHED_SWITCH", 3, 24, 2, 0, ""),
  Input("SCHED_SWITCH", 4, 84, 7, 0, "")}
=============================================================================
