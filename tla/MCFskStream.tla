---------------------------- MODULE MCFskStream -----------------------------
(* Small instances of FskStream for TLC: the numbers are in the cfg files.    *)
EXTENDS FskStream
=============================================================================
