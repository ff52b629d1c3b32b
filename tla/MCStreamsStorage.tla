-------------------------- MODULE MCStreamsStorage ---------------------------
(* Small instances of StreamsStorage for TLC.                                 *)
EXTENDS StreamsStorage
==============================================================================
