----------------------------- MODULE MCStartup -----------------------------
(* Startup with three kernel probes and limits below, at and above the need. *)
EXTENDS Startup
============================================================================
