---------------------------- MODULE MCEndpoint ------------------------------
(* Small instances of Endpoint for TLC.                                       *)
EXTENDS Endpoint, TLC

CONSTANTS n1, m1, tox

\* m1 is the callsign that the ID n1 is looked up as.
Lookups == n1 :> m1 @@ m1 :> None

Bounds == n1 :> 3 @@ m1 :> 1 @@ tox :> 1

Symmetry == Permutations(Client)
=============================================================================
