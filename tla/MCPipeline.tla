----------------------------- MODULE MCPipeline -----------------------------
(* Pipeline with a ring buffer and a channel that a few events fill. *)
EXTENDS Pipeline
=============================================================================
