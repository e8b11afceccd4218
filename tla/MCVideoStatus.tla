---------------------------- MODULE MCVideoStatus ----------------------------
(***************************************************************************)
(* The single instance of the pipeline with a call of the status endpoint. *)
(***************************************************************************)
EXTENDS VideoStatus, MCVideoPipeline
=============================================================================
