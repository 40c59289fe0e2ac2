--------------------------- MODULE MCPeerSession ---------------------------
(* One chunk of two sub-blocks.  TimeoutLimit is REQUEST_TIMEOUT_LIMIT.      *)
(* PipelineCap stands for PIPELINE_MIN, 8, as the chunk stands for one of    *)
(* many sub-blocks: three requests given up fill the pipeline, as eight do.  *)
EXTENDS PeerSession
=============================================================================
