----------------------------- MODULE MCToxClient -----------------------------
(* Small instances of ToxClient for TLC.                                      *)
EXTENDS ToxClient

Callers == Client \cup Stopper
==============================================================================
