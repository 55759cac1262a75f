---------------------------- MODULE MCSchedProbe ----------------------------
(* Small instances of SchedProbe for TLC. *)
EXTENDS SchedProbe

(* All threads belong to process 1, whose leader is thread 1. *)
MCTgid == [t \in Threads |-> 1]
=============================================================================
