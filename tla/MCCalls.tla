------------------------------ MODULE MCCalls ------------------------------
(* Two other parties, two calls and two sessions.                          *)
EXTENDS Calls, TLC

Parties == Permutations(Peers)
=============================================================================
