----------------------------- MODULE MediaDevices -----------------------------
(***************************************************************************)
(* Microphones, speakers and cameras, from the system to a call:           *)
(* MediaDeviceManager and CallVM on the GUI thread, JingleService and      *)
(* WebrtcClient on the signaling thread, QtCameraCapture on its own.       *)
(*                                                                         *)
(* Devices come and go at any time, also between the two questions that a  *)
(* reload asks the system.  A selection travels to the call through the    *)
(* queues of two threads.                                                  *)
(***************************************************************************)
EXTENDS Integers, Sequences, FiniteSets

CONSTANTS
  Audio,     \* kinds of audio devices: input, output
  Camera,    \* the kind of cameras
  Devices,
  MaxPlugs,  \* bound: how often a device is plugged in or out
  MaxPosts,  \* bound: how many calls wait for a thread when another is made
  None

Kinds == Audio \cup {Camera}
Maybe == Devices \cup {None}

ASSUME DevicesAssumption ==
  /\ IsFiniteSet(Audio) /\ Camera \notin Audio /\ None \notin Devices \cup Kinds
  /\ MaxPlugs \in Nat /\ MaxPosts \in Nat

VARIABLES
  plugged,   \* the devices of the system
  default,   \* its default device
  plugs,
  changed,   \* kinds whose audioInputsChanged(), ... signal is posted
  reloading, \* the kind whose reload has read the list and not yet the default
  list,      \* m_audioInputDevices, ...
  selected,  \* m_selectedAudioInputId, ...
  posts,     \* posted to the signaling thread
  device,    \* m_audioInput, ... of JingleService and of its client
  client,    \* m_webrtc: none, made, or ready with its audio device module
  call,      \* WebRTC has audio to record and to play
  adm,       \* the audio device module
  asked,     \* cameraRequested
  capture,   \* the client has a QtCameraCapture
  camera,    \* its state
  tasks      \* posted to the thread of the camera

system == <<plugged, default, plugs>>
manager == <<changed, reloading, list, selected>>
audio == <<client, call, adm>>
video == <<asked, capture, camera, tasks>>
vars == <<system, manager, posts, device, audio, video>>

\* `failed', for the properties: an error was reported, and what it has stopped
\* is not back.
NewAdm == [dev |-> None, on |-> FALSE, resume |-> FALSE, failed |-> FALSE]
\* made: m_camera exists; known: m_hasDeviceSelection.
NewCamera == [dev |-> None, known |-> FALSE, requested |-> FALSE, made |-> FALSE, failed |-> FALSE]

\* The manager is constructed before CallVM listens to it; CallVM posts what is
\* selected then, once for each kind and for the camera last.  JingleService has
\* made a client.
Init ==
  /\ plugged \in [Kinds -> SUBSET Devices]
  /\ default \in [Kinds -> Maybe]
  /\ \A k \in Kinds : default[k] \in IF plugged[k] = {} THEN {None} ELSE plugged[k]
  /\ plugs = 0 /\ changed = {} /\ reloading = None
  /\ list = plugged /\ selected = default
  /\ posts \in [1..Cardinality(Kinds) -> [kind : Kinds, dev : Maybe]]
  /\ posts[Cardinality(Kinds)].kind = Camera
  /\ \A k \in Kinds : \E i \in DOMAIN posts :
       posts[i] = [kind |-> k, dev |-> selected[k]] /\ \A j \in DOMAIN posts \ {i} : posts[j].kind # k
  /\ device = [k \in Kinds |-> None]
  /\ client = "made" /\ call = FALSE /\ adm = [k \in Audio |-> NewAdm]
  /\ asked = FALSE /\ capture = FALSE /\ camera = NewCamera /\ tasks = <<>>

-----------------------------------------------------------------------------
(* The system                                                              *)

\* A device is plugged in or out; the system has a default while it has any.
Plug(k, S) ==
  /\ plugs < MaxPlugs /\ plugs' = plugs + 1
  /\ plugged' = [plugged EXCEPT ![k] = S]
  /\ \E d \in IF S = {} THEN {None} ELSE S : default' = [default EXCEPT ![k] = d]
  /\ changed' = changed \cup {k}
  /\ UNCHANGED <<reloading, list, selected, posts, device, audio, video>>

-----------------------------------------------------------------------------
(* The GUI thread                                                          *)

\* audioInputDeviceChanged() and CallVM: the service is told on its thread.
Post(k, d) == posts' = Append(posts, [kind |-> k, dev |-> d])

\* reloadAudioInputs(): the list of devices, ...
ReloadList(k) ==
  /\ reloading = None /\ k \in changed
  /\ changed' = changed \ {k} /\ reloading' = k
  /\ list' = [list EXCEPT ![k] = plugged[k]]
  /\ UNCHANGED <<system, selected, posts, device, audio, video>>

\* Mutant: the device that is gone stays selected while there is no other.
ReloadSelectionKept(k) ==
  /\ reloading = k /\ reloading' = None
  /\ IF default[k] # None /\ (selected[k] = None \/ selected[k] \notin list[k])
     THEN selected' = [selected EXCEPT ![k] = default[k]] /\ Post(k, default[k])
     ELSE UNCHANGED <<selected, posts>>
  /\ UNCHANGED <<system, changed, list, device, audio, video>>

\* ... then the default one, when nothing is selected or the selected device has
\* disappeared.
ReloadSelection(k) ==
  /\ reloading = k /\ reloading' = None
  /\ IF IF selected[k] = None THEN default[k] # None ELSE selected[k] \notin list[k]
     THEN selected' = [selected EXCEPT ![k] = default[k]] /\ Post(k, default[k])
     ELSE UNCHANGED <<selected, posts>>
  /\ UNCHANGED <<system, changed, list, device, audio, video>>

\* The user picks a device of the list.
Select(k, d) ==
  /\ reloading = None /\ d \in list[k] /\ d # selected[k] /\ Len(posts) < MaxPosts
  /\ selected' = [selected EXCEPT ![k] = d] /\ Post(k, d)
  /\ UNCHANGED <<system, changed, reloading, list, device, audio, video>>

-----------------------------------------------------------------------------
(* The signaling thread                                                    *)

\* What applyAudioDevice(d) can leave of the audio device module: without a device
\* it stops and remembers to resume; a device it does not find is an error;
\* otherwise it stops, switches and starts again, and each of these may fail.
Applied(k, d) ==
  LET a == adm[k]
      active == a.on \/ a.resume
      stopped == [a EXCEPT !.on = FALSE, !.failed = TRUE]
  IN  IF d = None
      THEN {[a EXCEPT !.resume = active, !.on = FALSE],
            [a EXCEPT !.resume = active, !.failed = TRUE]}
      ELSE IF d \notin plugged[k] THEN {[a EXCEPT !.failed = TRUE]}
      ELSE {[a EXCEPT !.failed = TRUE], stopped} \cup
           (IF active THEN {[stopped EXCEPT !.dev = d], [stopped EXCEPT !.dev = d, !.resume = TRUE]}
            ELSE {}) \cup
           {[a EXCEPT !.dev = d, !.on = active, !.resume = FALSE,
                      !.failed = @ /\ call /\ ~active]}

Task(what) == [do |-> what, dev |-> None, prepare |-> FALSE]
SetDevice(d, prepare) == [do |-> "device", dev |-> d, prepare |-> prepare]

\* setAudioInputDevice(), setAudioOutputDevice(), setCameraDevice() of the service
\* and of the client.
HandleDevice ==
  /\ posts # <<>> /\ Len(tasks) <= MaxPosts /\ posts' = Tail(posts)
  /\ LET k == posts[1].kind
         d == posts[1].dev
     IN  /\ device' = [device EXCEPT ![k] = d]
         /\ IF k \in Audio /\ client = "ready"
            THEN \E a \in Applied(k, d) : adm' = [adm EXCEPT ![k] = a]
            ELSE UNCHANGED adm
         /\ tasks' = IF k = Camera /\ capture THEN Append(tasks, SetDevice(d, FALSE)) ELSE tasks
  /\ UNCHANGED <<system, manager, client, call, asked, capture, camera>>

\* createWebrtcClient(): the client is given the devices of the service.
CreateWebrtcClient ==
  /\ client = "none" /\ client' = "made"
  /\ UNCHANGED <<system, manager, posts, device, call, adm, video>>

\* initialize() makes the module and applies the devices; when it fails the
\* client is deleted.
Initialize ==
  /\ client = "made" /\ client' = "ready"
  /\ adm' \in [Audio -> UNION {Applied(k, device[k]) : k \in Audio}]
  /\ \A k \in Audio : adm'[k] \in Applied(k, device[k])
  /\ UNCHANGED <<system, manager, posts, device, call, video>>

\* WebRTC starts to record and to play when the call is connected; a direction
\* without its device fails.
StartAudio ==
  /\ client = "ready" /\ ~call /\ call' = TRUE
  /\ \E ok \in SUBSET {k \in Audio : adm[k].dev \in plugged[k]} :
       adm' = [k \in Audio |-> [adm[k] EXCEPT !.on = k \in ok, !.failed = @ \/ k \notin ok]]
  /\ UNCHANGED <<system, manager, posts, device, client, video>>

\* Mutant: the module outlives the call.
EndCallKeepsAudio ==
  /\ client # "none" /\ client' = "none" /\ call' = FALSE
  /\ asked' = FALSE /\ capture' = FALSE /\ camera' = NewCamera /\ tasks' = <<>>
  /\ UNCHANGED <<system, manager, posts, device, adm>>

\* The client is deleted, when a call ends or initialize() has failed: it stops
\* the camera, waits for its thread, and takes the module with it.
EndCall ==
  /\ client # "none" /\ client' = "none" /\ call' = FALSE
  /\ adm' = [k \in Audio |-> NewAdm]
  /\ asked' = FALSE /\ capture' = FALSE /\ camera' = NewCamera /\ tasks' = <<>>
  /\ UNCHANGED <<system, manager, posts, device>>

\* prepare() of the client.
Prepare ==
  /\ client # "none" /\ Len(tasks) < MaxPosts
  /\ capture' = TRUE /\ tasks' = Append(tasks, SetDevice(device[Camera], TRUE))
  /\ UNCHANGED <<system, manager, posts, device, audio, asked, camera>>

\* setCameraEnabled() and updateCameraCapture().
SetCameraEnabled(enable) ==
  /\ client # "none" /\ Len(tasks) < MaxPosts /\ asked' = enable
  /\ capture' = (capture \/ enable)
  /\ tasks' = tasks
       \o (IF enable /\ ~capture THEN <<SetDevice(device[Camera], TRUE)>> ELSE <<>>)
       \o (IF capture' THEN <<Task(IF enable THEN "start" ELSE "stop")>> ELSE <<>>)
  /\ UNCHANGED <<system, manager, posts, device, audio, camera>>

-----------------------------------------------------------------------------
(* The camera's thread                                                     *)

\* QtCameraCapture::prepare(): it needs a device with a format it supports.
Prepared(c) ==
  IF c.made THEN {c}
  ELSE {[c EXCEPT !.failed = TRUE]} \cup (IF c.dev = None THEN {} ELSE {[c EXCEPT !.made = TRUE]})

Started(c) == IF c.requested THEN {c} ELSE {[p EXCEPT !.requested = p.made] : p \in Prepared(c)}

Stopped(c) == [c EXCEPT !.requested = FALSE]

\* Mutant: the new device is not started.
DeviceSetIdle(c, d) ==
  IF c.known /\ c.dev = d THEN {c}
  ELSE {[Stopped(c) EXCEPT !.made = FALSE, !.dev = d, !.known = TRUE]}
\* setDevice(): the camera is stopped and deleted, and started with the new device
\* if frames were wanted; without a device the wish is remembered.
DeviceSet(c, d) ==
  IF c.known /\ c.dev = d THEN {c}
  ELSE LET new == [Stopped(c) EXCEPT !.made = FALSE, !.dev = d, !.known = TRUE]
       IN  IF ~c.requested THEN {new}
           ELSE IF d = None THEN {[new EXCEPT !.requested = TRUE]}
           ELSE Started(new)

CameraTask ==
  /\ tasks # <<>> /\ tasks' = Tail(tasks)
  /\ LET t == tasks[1] IN
     \/ t.do = "start" /\ camera' \in Started([camera EXCEPT !.failed = FALSE])
     \/ t.do = "stop" /\ camera' = Stopped(camera)
     \/ /\ t.do = "device"
        /\ \E c \in DeviceSet(camera, t.dev) : camera' \in IF t.prepare THEN Prepared(c) ELSE {c}
  /\ UNCHANGED <<system, manager, posts, device, audio, asked, capture>>

\* QCamera::errorOccurred
CameraError ==
  /\ camera.requested /\ camera.made
  /\ camera' = [camera EXCEPT !.requested = FALSE, !.failed = TRUE]
  /\ UNCHANGED <<system, manager, posts, device, audio, asked, capture, tasks>>

-----------------------------------------------------------------------------
System == \E k \in Kinds : \E d \in Devices :
            \/ d \in plugged[k] /\ Plug(k, plugged[k] \ {d})
            \/ d \notin plugged[k] /\ Plug(k, plugged[k] \cup {d})
Gui ==
  \/ \E k \in Kinds : ReloadList(k) \/ ReloadSelection(k)
  \/ \E k \in Kinds : \E d \in Devices : Select(k, d)
Service ==
  \/ HandleDevice \/ CreateWebrtcClient \/ Initialize \/ StartAudio \/ EndCall \/ Prepare
  \/ \E enable \in BOOLEAN : SetCameraEnabled(enable)

Next == System \/ Gui \/ Service \/ CameraTask \/ CameraError

Spec == Init /\ [][Next]_vars

-----------------------------------------------------------------------------
(* Properties                                                              *)

TypeOK ==
  /\ plugged \in [Kinds -> SUBSET Devices] /\ default \in [Kinds -> Maybe] /\ plugs \in 0..MaxPlugs
  /\ changed \subseteq Kinds /\ reloading \in Kinds \cup {None}
  /\ list \in [Kinds -> SUBSET Devices] /\ selected \in [Kinds -> Maybe]
  /\ posts \in Seq([kind : Kinds, dev : Maybe]) /\ device \in [Kinds -> Maybe]
  /\ client \in {"none", "made", "ready"} /\ call \in BOOLEAN
  /\ adm \in [Audio -> [dev : Maybe, on : BOOLEAN, resume : BOOLEAN, failed : BOOLEAN]]
  /\ asked \in BOOLEAN /\ capture \in BOOLEAN
  /\ camera \in [dev : Maybe, known : BOOLEAN, requested : BOOLEAN, made : BOOLEAN, failed : BOOLEAN]
  /\ tasks \in Seq([do : {"device", "start", "stop"}, dev : Maybe, prepare : BOOLEAN])

Reloaded(k) == k \notin changed /\ reloading # k

\* Once the last change of the devices is handled, the list is the system's and the
\* selected device is one of them; nothing is selected only when there is none.
SelectionCurrent ==
  /\ TypeOK
  /\ \A k \in Kinds : Reloaded(k) =>
       /\ list[k] = plugged[k]
       /\ IF plugged[k] = {} THEN selected[k] = None ELSE selected[k] \in plugged[k]

Quiet(k) == Reloaded(k) /\ \A i \in 1..Len(posts) : posts[i].kind # k

\* Once every thread has handled what was posted, and unless a device has failed, the
\* call uses the device that is selected: audio that was running when its device was
\* pulled out runs again on the next one, and so does the camera.  While no device is
\* left, the module keeps the wish to run.
CallFollowsSelection ==
  /\ \A k \in Audio : Quiet(k) /\ client = "ready" /\ ~adm[k].failed =>
       IF selected[k] = None THEN call => adm[k].on \/ adm[k].resume
       ELSE adm[k].dev = selected[k] /\ (call => adm[k].on)
  /\ Quiet(Camera) /\ capture /\ tasks = <<>> /\ ~camera.failed =>
       /\ camera.dev = selected[Camera]
       /\ asked => camera.requested /\ (camera.made <=> selected[Camera] # None)

\* Nothing listens or looks without a call that wants it: plugging devices in and out
\* never starts the microphone outside a call, nor a camera that was turned off.
OnlyWhileAsked ==
  /\ \A k \in Audio : adm[k].on \/ adm[k].resume => call
  /\ tasks = <<>> /\ ~asked => ~camera.requested
=============================================================================
