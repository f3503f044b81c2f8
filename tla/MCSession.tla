------------------------------ MODULE MCSession ------------------------------
(* Two accounts on one machine and up to three calls under way.  The user    *)
(* may enter b without a password while the answer for a is on its way.      *)
EXTENDS Session
CONSTANTS a, b
MCRefused == {[jid |-> a, password |-> b]}
=============================================================================
