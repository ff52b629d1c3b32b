-------------------------- MODULE MCMeshtasticWire --------------------------
(* Small instances of MeshtasticWire for TLC.                                 *)
EXTENDS MeshtasticWire, TLC

\* Listeners, clients and the ids of our own packets are interchangeable.
Symmetry == Permutations(Client) \cup Permutations(Listener) \cup Permutations(Uid)

Callers == Client \cup Listener \cup Stopper
=============================================================================
