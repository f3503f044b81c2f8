---------------------------- MODULE MCAuthStorage ----------------------------
(* Small instances of AuthStorage: two accounts, two tokens, two legacy      *)
(* files.                                                                    *)
EXTENDS AuthStorage
MCLegacyPaths == 1..2
=============================================================================
