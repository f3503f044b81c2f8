--------------------------- MODULE MCLocalStorage ---------------------------
(* Small instances of LocalStorage: one payload that fits a block and one   *)
(* that needs two, and a directory that needs a second block for its root.  *)
EXTENDS LocalStorage
CONSTANTS Small, Large
MCValues == {Small, Large}
MCValueChunks == [v \in MCValues |-> IF v = Large THEN 2 ELSE 1]
MCDirChunks == [ns \in SUBSET Names |-> IF ns # {} THEN 2 ELSE 1]
=============================================================================
