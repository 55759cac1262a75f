----------------------------- MODULE MCMainLoop -----------------------------
(* MainLoop on a channel of two events: empty, in between and full. *)
EXTENDS MainLoop
=============================================================================
