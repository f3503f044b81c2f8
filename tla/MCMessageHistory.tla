--------------------------- MODULE MCMessageHistory ---------------------------
(* Instances of MessageHistory for TLC.                                    *)
EXTENDS MessageHistory, TLC
CONSTANTS m1, m2, m3, r1, r2
\* Messages and requests are interchangeable; no liveness is checked with it.
Symmetric == Permutations({m1, m2, m3}) \cup Permutations({r1, r2})
=============================================================================
