---------------------------- MODULE MCMediaDevices ----------------------------
(* Two devices that are a microphone and a camera each.  Speakers run the    *)
(* same code as microphones and share no state with them.                    *)
EXTENDS MediaDevices, TLC
Symmetry == Permutations(Devices)
=============================================================================
