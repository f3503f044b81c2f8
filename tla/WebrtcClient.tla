---------------------------- MODULE WebrtcClient ----------------------------
(***************************************************************************)
(* core::rtc::WebrtcClient as a value, with the QtCameraCapture it owns:   *)
(* what each of its operations leaves.  The WebRTC library is behind       *)
(* CreatePeerConnection and the pending description.                       *)
(*                                                                         *)
(* The camera has a thread of its own.  What is posted to it is start()    *)
(* and stop(), of which only the last matters to what it ends up doing, so *)
(* one command is kept.  Deleting the client stops the camera and waits.   *)
(***************************************************************************)

CONSTANTS
  Peers, \* the other parties
  Nil

\* capture: no camera thread yet, the camera off, or on.
\* peer: whom the peer connection is with.
\* pending: the local description that WebRTC is asked for.
Clients ==
  [ready : BOOLEAN, camera : BOOLEAN, capture : {"none", "off", "on"},
   command : {"none", "start", "stop"}, peer : Peers \cup {Nil},
   pending : {"none", "offer", "answer"}]

ASSUME NilAssumption == Nil \notin Peers \cup Clients

NewClient ==
  [ready |-> FALSE, camera |-> FALSE, capture |-> "none", command |-> "none",
   peer |-> Nil, pending |-> "none"]

\* initialize() worked: threads, audio device, factory and audio track exist.
Initialized(c) == [c EXCEPT !.ready = TRUE]

\* The camera is configured on its thread, and not started.
Prepare(c) == IF c.capture = "none" THEN [c EXCEPT !.capture = "off"] ELSE c

UpdateCameraCapture(c) ==
  LET p == IF c.camera THEN Prepare(c) ELSE c IN
  IF p.capture = "none" THEN p
  ELSE [p EXCEPT !.command = IF c.camera THEN "start" ELSE "stop"]

SetCameraEnabled(c, enable) == UpdateCameraCapture([c EXCEPT !.camera = enable])

\* createPeerConnection() needs the factory and no earlier connection.
CanConnect(c) == c.ready /\ c.peer = Nil

\* createPeerConnection(), then createOffer(), or setRemoteSdp() and createAnswer().
Negotiating(c, p, description) ==
  UpdateCameraCapture([c EXCEPT !.peer = p, !.pending = description])

\* The local description is set, or WebRTC failed to make it, which is only logged.
Described(c) == [c EXCEPT !.pending = "none"]

\* The camera's thread takes the command; without a usable camera it stays off.
CameraTurns(c, d) ==
  /\ c.command # "none"
  /\ d \in {[c EXCEPT !.command = "none", !.capture = s] :
              s \in IF c.command = "start" THEN {"on", "off"} ELSE {"off"}}

\* QCamera::errorOccurred: frames are not wanted any more.
CameraFails(c, d) == c.capture = "on" /\ d = [c EXCEPT !.capture = "off"]
=============================================================================
