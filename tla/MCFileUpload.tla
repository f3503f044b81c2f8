----------------------------- MODULE MCFileUpload -----------------------------
(* One single upload next to a batch of two files.                           *)
EXTENDS FileUpload
CONSTANTS solo, first, second
MCBatch == <<first, second>>
=============================================================================
