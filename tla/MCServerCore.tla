---------------------------- MODULE MCServerCore ----------------------------
(* Small instances of ServerCore for TLC.                                     *)
EXTENDS ServerCore

CONSTANTS n1, n2

OneNode == <<n1>>
TwoNodes == <<n1, n2>>
=============================================================================
