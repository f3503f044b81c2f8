------------------------------ MODULE MCDownloads ------------------------------
(* Two files that may be saved at one place, and two voice messages: the URL *)
(* of the first file changes, the second one may have none that can be       *)
(* downloaded; one voice message is local until it is uploaded.              *)
EXTENDS Downloads

CONSTANTS f1, f2, v1, v2, u1, u2

MCFiles == {f1, f2}
MCVoices == {v1, v2}
MCUrls == {Local, Bad, u1, u2}
MCSources == [m \in Msgs |->
  CASE m = f1 -> {u1, u2} [] m = f2 -> {u1, Bad} [] m = v1 -> {Local, u2} [] OTHER -> {u2}]
=============================================================================
