----------------------------- MODULE MCExporter -----------------------------
(* A small instance of Exporter: three series, two of them of two types of     *)
(* events, and the kind of event the exporter ignores.                          *)
EXTENDS Exporter

Input(type, name, latency) == [type |-> type, name |-> name, latency |-> latency]

MCInputs == {
  Input("TCP_SEND", "app", 1), Input("TCP_RECV", "app", 2), Input("CONNECT", "sh", 3),
  Input("WRITE", "app", 2), Input("FSYNC", "app", 1), Input("READ", "app", 1)}
=============================================================================
