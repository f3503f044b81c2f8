--------------------------- MODULE MCVoiceRecording ---------------------------
(* Two conversations, two recordings of up to two pieces of audio.          *)
EXTENDS VoiceRecording
=============================================================================
