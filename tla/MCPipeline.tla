----------------------------- MODULE MCPipeline -----------------------------
(* Pipeline with a word of one byte: a message is 7 or 8 bytes behind a    *)
(* prefix of one, and both a write and a read can take any part of it.     *)
EXTENDS Pipeline
=============================================================================
