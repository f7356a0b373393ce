----------------------------- MODULE MCPipeline -----------------------------
(* The pipeline on a small instance: see MCPipeline.cfg. *)
EXTENDS Pipeline
=============================================================================
