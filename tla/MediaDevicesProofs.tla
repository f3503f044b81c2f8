-------------------------- MODULE MediaDevicesProofs --------------------------
(***************************************************************************)
(* Proofs about MediaDevices, for any devices and kinds of audio, and any  *)
(* number of changes and posted calls.                                     *)
(*                                                                         *)
(* SelectionCurrent speaks of the moments when nothing is being reloaded;  *)
(* ManagerInv adds what a reload finds in between.  OnlyWhileAsked and     *)
(* CallFollowsSelection speak of empty queues; Settles says what a queue   *)
(* that is not empty will leave behind: CameraInv that a camera which was  *)
(* turned off will be off, FollowInv that the selection will arrive.       *)
(***************************************************************************)
EXTENDS MediaDevices, SequenceTheorems, FiniteSetTheorems, TLAPS

AdmState == [dev : Maybe, on : BOOLEAN, resume : BOOLEAN, failed : BOOLEAN]
CameraState ==
  [dev : Maybe, known : BOOLEAN, requested : BOOLEAN, made : BOOLEAN, failed : BOOLEAN]
Tasks == [do : {"device", "start", "stop"}, dev : Maybe, prepare : BOOLEAN]

SystemTypes ==
  /\ plugged \in [Kinds -> SUBSET Devices] /\ default \in [Kinds -> Maybe] /\ plugs \in 0..MaxPlugs
ManagerTypes ==
  /\ changed \subseteq Kinds /\ reloading \in Kinds \cup {None}
  /\ list \in [Kinds -> SUBSET Devices] /\ selected \in [Kinds -> Maybe]
PostTypes == posts \in Seq([kind : Kinds, dev : Maybe]) /\ device \in [Kinds -> Maybe]
AudioTypes == client \in {"none", "made", "ready"} /\ call \in BOOLEAN /\ adm \in [Audio -> AdmState]
VideoTypes ==
  asked \in BOOLEAN /\ capture \in BOOLEAN /\ camera \in CameraState /\ tasks \in Seq(Tasks)

\* What is selected once the reload of k is over.
Current(k, s) == IF plugged[k] = {} THEN s = None ELSE s \in plugged[k]

ManagerInv ==
  \A k \in Kinds :
    /\ Current(k, default[k])
    /\ k \notin changed => list[k] = plugged[k]
    /\ Reloaded(k) => Current(k, selected[k])

AudioInv == \A k \in Audio : adm[k].on \/ adm[k].resume => call

\* Once the queue q is handled something holds that holds now if w does: an element
\* of G makes it hold, and only one of S may undo it.
Settles(q, S, G, w) ==
  \/ w /\ \A i \in 1..Len(q) : q[i] \notin S
  \/ \E i \in 1..Len(q) : q[i] \in G /\ \A j \in i+1..Len(q) : q[j] \notin S

Does(what) == {t \in Tasks : t.do = what}
Wishes == Does("start") \cup Does("stop")

\* No frames are wanted when the tasks q are done, starting with wish w.
Ends(q, w) == Settles(q, Wishes, Does("stop"), ~w)
CameraInv ==
  /\ ~capture => tasks = <<>> /\ ~camera.requested
  /\ ~asked => Ends(tasks, camera.requested)

DeviceInv ==
  /\ SystemTypes /\ ManagerTypes /\ PostTypes /\ AudioTypes /\ VideoTypes
  /\ ManagerInv /\ AudioInv /\ CameraInv

LEMMA DeviceTypes ==
  SystemTypes /\ ManagerTypes /\ PostTypes /\ AudioTypes /\ VideoTypes <=> TypeOK
  BY DEF SystemTypes, ManagerTypes, PostTypes, AudioTypes, VideoTypes, TypeOK, AdmState,
         CameraState, Tasks

-----------------------------------------------------------------------------
(* Sequences                                                               *)

LEMMA NoneQueued == ASSUME NEW S PROVE <<>> \in Seq(S)
  OBVIOUS

LEMMA FirstIn == ASSUME NEW S, NEW s \in Seq(S), s # <<>> PROVE s[1] \in S
  <1>1. Len(s) \in Nat /\ Len(s) # 0 BY EmptySeq
  <1>2. 1 \in 1..Len(s) BY <1>1
  <1>3. QED BY <1>2, ElementOfSeq

LEMMA Joined ==
  ASSUME NEW S, NEW s \in Seq(S), NEW a \in S, NEW b \in S
  PROVE  /\ s \o <<>> \o <<>> = s
         /\ s \o <<>> \o <<b>> = Append(s, b)
         /\ s \o <<a>> \o <<b>> = Append(Append(s, a), b)
         /\ Append(s, b) \in Seq(S) /\ Append(Append(s, a), b) \in Seq(S)
  <1>1. s \o <<>> = s BY ConcatEmptySeq
  <1>2. Append(s, a) \in Seq(S) /\ Append(s, b) \in Seq(S) BY AppendProperties
  <1>3. s \o <<a>> = Append(s, a) BY AppendIsConcat
  <1>4. s \o <<b>> = Append(s, b) BY AppendIsConcat
  <1>5. Append(s, a) \o <<b>> = Append(Append(s, a), b) BY <1>2, AppendIsConcat
  <1>6. Append(Append(s, a), b) \in Seq(S) BY <1>2, AppendProperties
  <1>7. s \o <<>> \o <<>> = s BY <1>1
  <1>8. s \o <<>> \o <<b>> = Append(s, b) BY <1>1, <1>4
  <1>9. s \o <<a>> \o <<b>> = Append(Append(s, a), b) BY <1>3, <1>5
  <1>10. QED BY <1>2, <1>6, <1>7, <1>8, <1>9

-----------------------------------------------------------------------------
(* What the code does to one device                                        *)

\* applyAudioDevice() leaves a module that runs only if it ran, or was to resume.
LEMMA AppliedFacts ==
  ASSUME AudioTypes, NEW k \in Audio, NEW d \in Maybe, NEW a \in Applied(k, d)
  PROVE  a \in AdmState /\ (a.on \/ a.resume => adm[k].on \/ adm[k].resume)
  <1> DEFINE b == adm[k]
             active == b.on \/ b.resume
             stopped == [b EXCEPT !.on = FALSE, !.failed = TRUE]
             running == [b EXCEPT !.dev = d, !.on = active, !.resume = FALSE,
                                  !.failed = @ /\ call /\ ~active]
  <1>0. b \in AdmState /\ active \in BOOLEAN BY DEF AudioTypes, AdmState
  <1>1. stopped \in AdmState /\ ~stopped.on /\ stopped.resume = b.resume BY <1>0 DEF AdmState
  <1>2. \/ a = [b EXCEPT !.resume = active, !.on = FALSE]
        \/ a = [b EXCEPT !.resume = active, !.failed = TRUE]
        \/ a = [b EXCEPT !.failed = TRUE]
        \/ a = stopped
        \/ active /\ a = [stopped EXCEPT !.dev = d]
        \/ active /\ a = [stopped EXCEPT !.dev = d, !.resume = TRUE]
        \/ a = running
    BY Zenon DEF Applied
  <1>3. CASE a = [b EXCEPT !.resume = active, !.on = FALSE] BY <1>0, <1>3 DEF AdmState
  <1>4. CASE a = [b EXCEPT !.resume = active, !.failed = TRUE] BY <1>0, <1>4 DEF AdmState
  <1>5. CASE a = [b EXCEPT !.failed = TRUE] BY <1>0, <1>5 DEF AdmState
  <1>6. CASE a = stopped BY <1>1, <1>6
  <1>7. CASE active /\ a = [stopped EXCEPT !.dev = d]
    <2>1. a \in AdmState BY <1>1, <1>7 DEF AdmState
    <2>2. QED BY <1>7, <2>1
  <1>8. CASE active /\ a = [stopped EXCEPT !.dev = d, !.resume = TRUE]
    <2>1. a \in AdmState BY <1>1, <1>8 DEF AdmState
    <2>2. QED BY <1>8, <2>1
  <1>9. CASE a = running
    <2>1. (b.failed /\ call /\ ~active) \in BOOLEAN OBVIOUS
    <2>2. a \in AdmState /\ a.on = active /\ a.resume = FALSE BY <1>0, <1>9, <2>1 DEF AdmState
    <2>3. QED BY <2>2
  <1>10. QED BY <1>2, <1>3, <1>4, <1>5, <1>6, <1>7, <1>8, <1>9

\* prepare() of the camera does not want frames by itself.
LEMMA PreparedFacts ==
  ASSUME NEW c \in CameraState, NEW p \in Prepared(c)
  PROVE  p \in CameraState /\ p.requested = c.requested
  BY DEF Prepared, CameraState

LEMMA StartedFacts ==
  ASSUME NEW c \in CameraState, NEW s \in Started(c)
  PROVE  s \in CameraState
  <1>1. CASE c.requested BY <1>1 DEF Started
  <1>2. CASE ~c.requested
    <2>1. PICK p \in Prepared(c) : s = [p EXCEPT !.requested = p.made] BY <1>2 DEF Started
    <2>2. p \in CameraState BY PreparedFacts
    <2>3. QED BY <2>1, <2>2 DEF CameraState
  <1>3. QED BY <1>1, <1>2

\* setDevice() wants frames only if they were wanted before.
LEMMA DeviceSetFacts ==
  ASSUME NEW c \in CameraState, NEW d \in Maybe, NEW s \in DeviceSet(c, d)
  PROVE  s \in CameraState /\ (s.requested => c.requested)
  <1> DEFINE new == [Stopped(c) EXCEPT !.made = FALSE, !.dev = d, !.known = TRUE]
  <1>1. new \in CameraState /\ ~new.requested BY DEF Stopped, CameraState
  <1>2. CASE c.known /\ c.dev = d BY <1>2 DEF DeviceSet
  <1>3. CASE ~(c.known /\ c.dev = d)
    <2>1. CASE ~c.requested
      <3>1. s = new BY <1>3, <2>1 DEF DeviceSet
      <3>2. QED BY <1>1, <3>1
    <2>2. CASE c.requested /\ d = None
      <3>1. s = [new EXCEPT !.requested = TRUE] BY <1>3, <2>2 DEF DeviceSet
      <3>2. s \in CameraState BY <1>1, <3>1 DEF CameraState
      <3>3. QED BY <2>2, <3>2
    <2>3. CASE c.requested /\ d # None
      <3>1. s \in Started(new) BY <1>3, <2>3 DEF DeviceSet
      <3>2. QED BY <1>1, <2>3, <3>1, StartedFacts
    <2>4. QED BY <2>1, <2>2, <2>3
  <1>4. QED BY <1>2, <1>3

\* The head of a queue is handled.
LEMMA SettlesTail ==
  ASSUME NEW T, NEW q \in Seq(T), q # <<>>, NEW S, NEW G, NEW w, NEW v, Settles(q, S, G, w),
         q[1] \in G => v, q[1] \notin S /\ w => v
  PROVE  Settles(Tail(q), S, G, v)
  <1>1. /\ Len(q) \in Nat /\ Len(q) >= 1 /\ Len(Tail(q)) = Len(q) - 1
        /\ \A i \in 1..Len(q) - 1 : Tail(q)[i] = q[i + 1]
    <2>1. Len(q) \in Nat \ {0} BY EmptySeq
    <2>2. Len(Tail(q)) = Len(q) - 1 /\ \A i \in 1..Len(q) - 1 : Tail(q)[i] = q[i + 1]
      BY HeadTailProperties
    <2>3. QED BY <2>1, <2>2
  <1>2. CASE w /\ \A i \in 1..Len(q) : q[i] \notin S
    <2>1. v BY <1>1, <1>2
    <2>2. \A i \in 1..Len(Tail(q)) : Tail(q)[i] \notin S BY <1>1, <1>2
    <2>3. QED BY <2>1, <2>2 DEF Settles
  <1>3. CASE \E i \in 1..Len(q) : q[i] \in G /\ \A j \in i+1..Len(q) : q[j] \notin S
    <2>1. PICK i \in 1..Len(q) : q[i] \in G /\ \A j \in i+1..Len(q) : q[j] \notin S BY <1>3
    <2>2. CASE i = 1
      <3>1. v BY <2>1, <2>2
      <3>2. \A j \in 1..Len(Tail(q)) : Tail(q)[j] \notin S BY <1>1, <2>1, <2>2
      <3>3. QED BY <3>1, <3>2 DEF Settles
    <2>3. CASE i # 1
      <3>1. i - 1 \in 1..Len(Tail(q)) /\ Tail(q)[i - 1] \in G BY <1>1, <2>1, <2>3
      <3>2. \A j \in (i - 1)+1..Len(Tail(q)) : Tail(q)[j] \notin S BY <1>1, <2>1, <2>3
      <3>3. QED BY <3>1, <3>2 DEF Settles
    <2>4. QED BY <2>2, <2>3
  <1>4. QED BY <1>2, <1>3 DEF Settles

\* Something is posted that makes it hold, or does not matter.
LEMMA SettlesAppend ==
  ASSUME NEW T, NEW q \in Seq(T), NEW t \in T, NEW S, NEW G, NEW w,
         t \in G \/ (t \notin S /\ Settles(q, S, G, w))
  PROVE  Append(q, t) \in Seq(T) /\ Settles(Append(q, t), S, G, w)
  <1> DEFINE r == Append(q, t)
  <1>1. /\ Len(q) \in Nat /\ r \in Seq(T) /\ Len(r) = Len(q) + 1 /\ r[Len(q) + 1] = t
        /\ \A i \in 1..Len(q) : r[i] = q[i]
    BY AppendProperties
  <1>2. CASE t \in G
    <2>1. Len(q) + 1 \in 1..Len(r) /\ \A j \in (Len(q) + 1)+1..Len(r) : r[j] \notin S BY <1>1
    <2>2. QED BY <1>1, <1>2, <2>1 DEF Settles
  <1>3. CASE t \notin S /\ w /\ \A i \in 1..Len(q) : q[i] \notin S
    <2>1. \A i \in 1..Len(r) : r[i] \notin S BY <1>1, <1>3
    <2>2. QED BY <1>1, <1>3, <2>1 DEF Settles
  <1>4. CASE /\ t \notin S
             /\ \E i \in 1..Len(q) : q[i] \in G /\ \A j \in i+1..Len(q) : q[j] \notin S
    <2>1. PICK i \in 1..Len(q) : q[i] \in G /\ \A j \in i+1..Len(q) : q[j] \notin S BY <1>4
    <2>2. i \in 1..Len(r) /\ r[i] \in G BY <1>1, <2>1
    <2>3. \A j \in i+1..Len(r) : r[j] \notin S BY <1>1, <1>4, <2>1
    <2>4. QED BY <1>1, <2>2, <2>3 DEF Settles
  <1>5. QED BY <1>2, <1>3, <1>4 DEF Settles

\* Nothing waits: it holds, or it will once something that makes it hold is posted.
LEMMA SettlesEmpty ==
  ASSUME NEW S, NEW G, NEW w
  PROVE  Settles(<<>>, S, G, w) <=> w
  <1>1. Len(<<>>) = 0 OBVIOUS
  <1>2. 1..Len(<<>>) = {} BY <1>1
  <1>3. QED BY <1>2 DEF Settles

LEMMA EndsTail ==
  ASSUME NEW q \in Seq(Tasks), q # <<>>, NEW w, NEW v, Ends(q, w),
         q[1].do = "stop" => ~v, q[1].do = "device" => (v => w)
  PROVE  Ends(Tail(q), v)
  <1>1. q[1] \in Tasks BY FirstIn
  <1>2. q[1] \in Does("stop") => ~v BY DEF Does
  <1>3. q[1] \notin Wishes /\ ~w => ~v BY <1>1 DEF Wishes, Does, Tasks
  <1> DEFINE nw == ~w
             nv == ~v
  <1>4. Settles(q, Wishes, Does("stop"), nw) BY DEF Ends
  <1> HIDE DEF nw, nv
  <1>5. Settles(Tail(q), Wishes, Does("stop"), nv)
    <2>1. (q[1] \in Does("stop") => nv) /\ (q[1] \notin Wishes /\ nw => nv) BY <1>2, <1>3 DEF nw, nv
    <2>2. QED BY <1>4, <2>1, SettlesTail
  <1>6. QED BY <1>5 DEF Ends, nv

LEMMA EndsAppend ==
  ASSUME NEW q \in Seq(Tasks), NEW w, NEW t \in Tasks,
         t.do = "stop" \/ (t.do = "device" /\ Ends(q, w))
  PROVE  Append(q, t) \in Seq(Tasks) /\ Ends(Append(q, t), w)
  <1> DEFINE nw == ~w
  <1>1. t \in Does("stop") \/ (t \notin Wishes /\ Settles(q, Wishes, Does("stop"), nw))
    BY DEF Does, Wishes, Ends
  <1> HIDE DEF nw
  <1>2. Append(q, t) \in Seq(Tasks) /\ Settles(Append(q, t), Wishes, Does("stop"), nw)
    BY <1>1, SettlesAppend
  <1>3. QED BY <1>2 DEF Ends, nw

-----------------------------------------------------------------------------
(* What a step leaves alone                                                *)

LEMMA ManagerSame ==
  ASSUME DeviceInv, UNCHANGED <<system, manager>>
  PROVE  SystemTypes' /\ ManagerTypes' /\ ManagerInv'
  BY DEF DeviceInv, system, manager, SystemTypes, ManagerTypes, ManagerInv, Current, Reloaded

LEMMA PostSame ==
  ASSUME DeviceInv, UNCHANGED <<posts, device>>
  PROVE  PostTypes'
  BY DEF DeviceInv, PostTypes

LEMMA AudioSame ==
  ASSUME DeviceInv, UNCHANGED audio
  PROVE  AudioTypes' /\ AudioInv'
  BY DEF DeviceInv, audio, AudioTypes, AudioInv

LEMMA VideoSame ==
  ASSUME DeviceInv, UNCHANGED video
  PROVE  VideoTypes' /\ CameraInv'
  BY DEF DeviceInv, video, VideoTypes, CameraInv

-----------------------------------------------------------------------------
(* The system and the GUI thread                                           *)

LEMMA PlugStep ==
  ASSUME DeviceInv, NEW k \in Kinds, NEW S \in SUBSET Devices, Plug(k, S)
  PROVE  DeviceInv'
  <1>1. PICK d \in (IF S = {} THEN {None} ELSE S) : default' = [default EXCEPT ![k] = d] BY DEF Plug
  <1>2. d \in Maybe BY <1>1 DEF Maybe
  <1>3. SystemTypes' /\ ManagerTypes'
    BY <1>1, <1>2, DevicesAssumption DEF Plug, DeviceInv, SystemTypes, ManagerTypes
  <1>4. ASSUME NEW l \in Kinds
        PROVE  /\ Current(l, default[l])' /\ (l \notin changed => list[l] = plugged[l])'
               /\ (Reloaded(l) => Current(l, selected[l]))'
    <2>1. CASE l = k
      <3>1. plugged'[l] = S /\ default'[l] = d /\ l \in changed'
        BY <1>1, <2>1 DEF Plug, DeviceInv, SystemTypes
      <3>2. QED BY <1>1, <3>1 DEF Current, Reloaded
    <2>2. CASE l # k
      <3>1. /\ plugged'[l] = plugged[l] /\ default'[l] = default[l] /\ list' = list
            /\ (l \in changed' <=> l \in changed) /\ reloading' = reloading /\ selected' = selected
        BY <1>1, <2>2 DEF Plug, DeviceInv, SystemTypes, ManagerTypes
      <3>2. QED BY <3>1 DEF DeviceInv, ManagerInv, Current, Reloaded
    <2>3. QED BY <2>1, <2>2
  <1>5. ManagerInv' BY <1>4 DEF ManagerInv
  <1>6. PostTypes' /\ AudioTypes' /\ AudioInv' /\ VideoTypes' /\ CameraInv'
    BY PostSame, AudioSame, VideoSame DEF Plug
  <1>7. QED BY <1>3, <1>5, <1>6 DEF DeviceInv

LEMMA ReloadListStep ==
  ASSUME DeviceInv, NEW k \in Kinds, ReloadList(k)
  PROVE  DeviceInv'
  <1>1. SystemTypes' /\ ManagerTypes'
    BY DEF ReloadList, system, DeviceInv, SystemTypes, ManagerTypes
  <1>2. ASSUME NEW l \in Kinds
        PROVE  /\ Current(l, default[l])' /\ (l \notin changed => list[l] = plugged[l])'
               /\ (Reloaded(l) => Current(l, selected[l]))'
    <2>1. plugged' = plugged /\ default' = default /\ selected' = selected
      BY DEF ReloadList, system
    <2>2. CASE l = k
      <3>1. list'[l] = plugged[l] /\ reloading' = l BY <2>2 DEF ReloadList, DeviceInv, ManagerTypes
      <3>2. QED BY <2>1, <3>1 DEF DeviceInv, ManagerInv, Current, Reloaded
    <2>3. CASE l # k
      <3>1. list'[l] = list[l] /\ (l \in changed' <=> l \in changed)
        BY <2>3 DEF ReloadList, DeviceInv, ManagerTypes
      <3>2. (Reloaded(l) => Current(l, selected[l]))'
        <4>1. CASE l \in changed BY <3>1, <4>1 DEF Reloaded
        <4>2. CASE l \notin changed
          <5>1. Reloaded(l) BY <4>2, DevicesAssumption DEF Reloaded, ReloadList
          <5>2. QED BY <2>1, <5>1 DEF DeviceInv, ManagerInv, Current
        <4>3. QED BY <4>1, <4>2
      <3>3. QED BY <2>1, <3>1, <3>2 DEF DeviceInv, ManagerInv, Current
    <2>4. QED BY <2>2, <2>3
  <1>3. ManagerInv' BY <1>2 DEF ManagerInv
  <1>4. PostTypes' /\ AudioTypes' /\ AudioInv' /\ VideoTypes' /\ CameraInv'
    BY PostSame, AudioSame, VideoSame DEF ReloadList
  <1>5. QED BY <1>1, <1>3, <1>4 DEF DeviceInv

LEMMA PostFacts ==
  ASSUME PostTypes, NEW k \in Kinds, NEW d \in Maybe, Post(k, d), device' = device
  PROVE  PostTypes'
  <1>1. [kind |-> k, dev |-> d] \in [kind : Kinds, dev : Maybe] OBVIOUS
  <1>2. QED BY <1>1, AppendProperties DEF Post, PostTypes

LEMMA ReloadSelectionStep ==
  ASSUME DeviceInv, NEW k \in Kinds, ReloadSelection(k)
  PROVE  DeviceInv'
  <1> DEFINE fresh == IF selected[k] = None THEN default[k] # None ELSE selected[k] \notin list[k]
  <1>1. /\ plugged' = plugged /\ default' = default /\ plugs' = plugs /\ list' = list
        /\ changed' = changed /\ reloading = k /\ reloading' = None /\ device' = device
    BY DEF ReloadSelection, system
  <1>2. default[k] \in Maybe BY DEF DeviceInv, SystemTypes
  <1>3. selected' = IF fresh THEN [selected EXCEPT ![k] = default[k]] ELSE selected
    BY DEF ReloadSelection
  <1>4. SystemTypes' /\ ManagerTypes' BY <1>1, <1>2, <1>3 DEF DeviceInv, SystemTypes, ManagerTypes
  <1>5. PostTypes'
    <2>1. CASE fresh
      <3>1. Post(k, default[k]) BY <2>1 DEF ReloadSelection
      <3>2. QED BY <1>1, <1>2, <3>1, PostFacts DEF DeviceInv
    <2>2. CASE ~fresh
      <3>1. posts' = posts BY <2>2 DEF ReloadSelection
      <3>2. QED BY <1>1, <3>1, PostSame
    <2>3. QED BY <2>1, <2>2
  <1>6. ASSUME NEW l \in Kinds
        PROVE  /\ Current(l, default[l])' /\ (l \notin changed => list[l] = plugged[l])'
               /\ (Reloaded(l) => Current(l, selected[l]))'
    <2>1. Current(l, default[l]) /\ (l \notin changed => list[l] = plugged[l])
      BY DEF DeviceInv, ManagerInv
    <2>2. ASSUME Reloaded(l)' PROVE Current(l, selected[l])'
      <3>1. l \notin changed /\ list[l] = plugged[l] BY <1>1, <2>1, <2>2 DEF Reloaded
      <3>2. CASE l = k
        <4>1. CASE fresh
          <5>1. selected'[l] = default[l] BY <1>3, <3>2, <4>1 DEF DeviceInv, ManagerTypes
          <5>2. QED BY <1>1, <2>1, <5>1 DEF Current
        <4>2. CASE ~fresh
          <5>1. selected'[l] = selected[l] BY <1>3, <4>2
          <5>2. CASE selected[k] = None
            <6>1. default[l] = None BY <3>2, <4>2, <5>2
            <6>2. QED BY <1>1, <2>1, <3>2, <5>1, <5>2, <6>1 DEF Current
          <5>3. CASE selected[k] # None
            <6>1. selected[l] \in plugged[l] BY <3>1, <3>2, <4>2, <5>3
            <6>2. QED BY <1>1, <5>1, <6>1 DEF Current
          <5>4. QED BY <5>2, <5>3
        <4>3. QED BY <4>1, <4>2
      <3>3. CASE l # k
        <4>1. Reloaded(l) BY <1>1, <3>1, <3>3 DEF Reloaded
        <4>2. selected'[l] = selected[l] BY <1>3, <3>3 DEF DeviceInv, ManagerTypes
        <4>3. QED BY <1>1, <4>1, <4>2 DEF DeviceInv, ManagerInv, Current
      <3>4. QED BY <3>2, <3>3
    <2>3. QED BY <1>1, <2>1, <2>2 DEF Current
  <1>7. ManagerInv' BY <1>6 DEF ManagerInv
  <1>8. AudioTypes' /\ AudioInv' /\ VideoTypes' /\ CameraInv'
    BY AudioSame, VideoSame DEF ReloadSelection
  <1>9. QED BY <1>4, <1>5, <1>7, <1>8 DEF DeviceInv

LEMMA SelectStep ==
  ASSUME DeviceInv, NEW k \in Kinds, NEW d \in Devices, Select(k, d)
  PROVE  DeviceInv'
  <1>1. /\ plugged' = plugged /\ default' = default /\ plugs' = plugs /\ list' = list
        /\ changed' = changed /\ reloading' = reloading /\ device' = device
        /\ d \in list[k] /\ selected' = [selected EXCEPT ![k] = d] /\ Post(k, d)
    BY DEF Select, system
  <1>2. d \in Maybe BY DEF Maybe
  <1>3. SystemTypes' /\ ManagerTypes' BY <1>1, <1>2 DEF DeviceInv, SystemTypes, ManagerTypes
  <1>4. PostTypes' BY <1>1, <1>2, PostFacts DEF DeviceInv
  <1>5. ASSUME NEW l \in Kinds
        PROVE  /\ Current(l, default[l])' /\ (l \notin changed => list[l] = plugged[l])'
               /\ (Reloaded(l) => Current(l, selected[l]))'
    <2>1. CASE l = k
      <3>1. selected'[l] = d BY <1>1, <2>1 DEF DeviceInv, ManagerTypes
      <3>2. QED BY <1>1, <2>1, <3>1 DEF DeviceInv, ManagerInv, Current, Reloaded
    <2>2. CASE l # k
      <3>1. selected'[l] = selected[l] BY <1>1, <2>2 DEF DeviceInv, ManagerTypes
      <3>2. QED BY <1>1, <3>1 DEF DeviceInv, ManagerInv, Current, Reloaded
    <2>3. QED BY <2>1, <2>2
  <1>6. ManagerInv' BY <1>5 DEF ManagerInv
  <1>7. AudioTypes' /\ AudioInv' /\ VideoTypes' /\ CameraInv' BY AudioSame, VideoSame DEF Select
  <1>8. QED BY <1>3, <1>4, <1>6, <1>7 DEF DeviceInv

-----------------------------------------------------------------------------
(* The signaling thread                                                    *)

LEMMA HandleStep ==
  ASSUME DeviceInv, HandleDevice
  PROVE  DeviceInv'
  <1> DEFINE k == posts[1].kind
             d == posts[1].dev
  <1>1. k \in Kinds /\ d \in Maybe
    <2>1. posts # <<>> /\ posts \in Seq([kind : Kinds, dev : Maybe]) BY DEF HandleDevice, DeviceInv, PostTypes
    <2>2. posts[1] \in [kind : Kinds, dev : Maybe] BY <2>1, FirstIn
    <2>3. QED BY <2>2
  <1>2. SystemTypes' /\ ManagerTypes' /\ ManagerInv' BY ManagerSame DEF HandleDevice
  <1>3. PostTypes'
    <2>1. posts' = Tail(posts) /\ posts # <<>> /\ device' = [device EXCEPT ![k] = d] BY DEF HandleDevice
    <2>2. QED BY <1>1, <2>1, HeadTailProperties DEF DeviceInv, PostTypes
  <1>4. AudioTypes' /\ AudioInv'
    <2>1. UNCHANGED <<client, call>> BY DEF HandleDevice
    <2>2. CASE k \in Audio /\ client = "ready"
      <3>1. PICK a \in Applied(k, d) : adm' = [adm EXCEPT ![k] = a] BY <2>2 DEF HandleDevice
      <3>2. a \in AdmState /\ (a.on \/ a.resume => adm[k].on \/ adm[k].resume)
        BY <1>1, <2>2, AppliedFacts DEF DeviceInv
      <3>3. AudioTypes' BY <2>1, <3>1, <3>2 DEF DeviceInv, AudioTypes
      <3>4. ASSUME NEW l \in Audio, adm'[l].on \/ adm'[l].resume PROVE call'
        <4>1. adm[l].on \/ adm[l].resume BY <2>2, <3>1, <3>2, <3>4 DEF DeviceInv, AudioTypes
        <4>2. QED BY <2>1, <4>1 DEF DeviceInv, AudioInv
      <3>5. QED BY <3>3, <3>4 DEF AudioInv
    <2>3. CASE ~(k \in Audio /\ client = "ready")
      <3>1. UNCHANGED audio BY <2>1, <2>3 DEF HandleDevice, audio
      <3>2. QED BY <3>1, AudioSame
    <2>4. QED BY <2>2, <2>3
  <1>5. VideoTypes' /\ CameraInv'
    <2>1. UNCHANGED <<asked, capture, camera>> BY DEF HandleDevice
    <2>2. CASE k = Camera /\ capture
      <3>1. tasks' = Append(tasks, SetDevice(d, FALSE)) BY <2>2 DEF HandleDevice
      <3>2. SetDevice(d, FALSE) \in Tasks /\ SetDevice(d, FALSE).do = "device"
        BY <1>1 DEF SetDevice, Tasks
      <3>3. VideoTypes' BY <2>1, <3>1, <3>2, AppendProperties DEF DeviceInv, VideoTypes
      <3>4. ~asked' => Ends(tasks', camera'.requested)
        BY <2>1, <3>1, <3>2, EndsAppend DEF DeviceInv, VideoTypes, CameraInv
      <3>5. QED BY <2>1, <2>2, <3>3, <3>4 DEF CameraInv
    <2>3. CASE ~(k = Camera /\ capture)
      <3>1. UNCHANGED video BY <2>1, <2>3 DEF HandleDevice, video
      <3>2. QED BY <3>1, VideoSame
    <2>4. QED BY <2>2, <2>3
  <1>6. QED BY <1>2, <1>3, <1>4, <1>5 DEF DeviceInv

LEMMA ClientStep ==
  ASSUME DeviceInv, CreateWebrtcClient \/ Initialize \/ StartAudio
  PROVE  DeviceInv'
  <1>1. UNCHANGED <<system, manager, posts, device, video>> BY DEF CreateWebrtcClient, Initialize, StartAudio
  <1>2. SystemTypes' /\ ManagerTypes' /\ ManagerInv' /\ PostTypes' /\ VideoTypes' /\ CameraInv'
    BY <1>1, ManagerSame, PostSame, VideoSame
  <1>3. CASE CreateWebrtcClient
    <2>1. AudioTypes' /\ AudioInv' BY <1>3 DEF CreateWebrtcClient, DeviceInv, AudioTypes, AudioInv
    <2>2. QED BY <1>2, <2>1 DEF DeviceInv
  <1>4. CASE Initialize
    <2>1. call' = call /\ client' = "ready" /\ \A k \in Audio : adm'[k] \in Applied(k, device[k])
      BY <1>4 DEF Initialize
    <2>2. \A k \in Audio : device[k] \in Maybe BY DEF DeviceInv, PostTypes, Kinds
    <2>3. \A k \in Audio : /\ adm'[k] \in AdmState
                           /\ adm'[k].on \/ adm'[k].resume => adm[k].on \/ adm[k].resume
      BY <2>1, <2>2, AppliedFacts DEF DeviceInv
    <2>4. \E T : adm' \in [Audio -> T] BY <1>4 DEF Initialize
    <2>5. AudioTypes' BY <2>1, <2>3, <2>4 DEF DeviceInv, AudioTypes
    <2>6. AudioInv' BY <2>1, <2>3 DEF DeviceInv, AudioInv
    <2>7. QED BY <1>2, <2>5, <2>6 DEF DeviceInv
  <1>5. CASE StartAudio
    <2>1. PICK ok \in SUBSET Audio :
            adm' = [k \in Audio |-> [adm[k] EXCEPT !.on = k \in ok, !.failed = @ \/ k \notin ok]]
      BY <1>5 DEF StartAudio
    <2>2. call' = TRUE /\ client' = client BY <1>5 DEF StartAudio
    <2>3. AudioTypes'
      <3>1. ASSUME NEW k \in Audio
            PROVE  [adm[k] EXCEPT !.on = k \in ok, !.failed = @ \/ k \notin ok] \in AdmState
        <4> DEFINE on == k \in ok
                   failed == adm[k].failed \/ k \notin ok
        <4>1. adm[k] \in AdmState BY DEF DeviceInv, AudioTypes
        <4>2. on \in BOOLEAN /\ failed \in BOOLEAN OBVIOUS
        <4> HIDE DEF on, failed
        <4>3. [adm[k] EXCEPT !.on = on, !.failed = failed] \in AdmState BY <4>1, <4>2 DEF AdmState
        <4>4. [adm[k] EXCEPT !.on = k \in ok, !.failed = @ \/ k \notin ok]
                = [adm[k] EXCEPT !.on = on, !.failed = failed]
          BY <4>1 DEF on, failed, AdmState
        <4>5. QED BY <4>3, <4>4
      <3>2. adm' \in [Audio -> AdmState] BY <2>1, <3>1
      <3>3. QED BY <2>2, <3>2 DEF DeviceInv, AudioTypes
    <2>4. QED BY <1>2, <2>2, <2>3 DEF DeviceInv, AudioInv
  <1>6. QED BY <1>3, <1>4, <1>5

LEMMA EndStep ==
  ASSUME DeviceInv, EndCall
  PROVE  DeviceInv'
  <1>1. SystemTypes' /\ ManagerTypes' /\ ManagerInv' /\ PostTypes' BY ManagerSame, PostSame DEF EndCall
  <1>2. NewAdm \in AdmState /\ ~NewAdm.on /\ ~NewAdm.resume BY DEF NewAdm, AdmState, Maybe
  <1>3. AudioTypes' /\ AudioInv'
    <2>1. client' = "none" /\ call' = FALSE /\ adm' = [k \in Audio |-> NewAdm] BY DEF EndCall
    <2>2. adm' \in [Audio -> AdmState] BY <1>2, <2>1
    <2>3. \A k \in Audio : adm'[k] = NewAdm BY <2>1
    <2>4. QED BY <1>2, <2>1, <2>2, <2>3 DEF AudioTypes, AudioInv
  <1>4. NewCamera \in CameraState /\ ~NewCamera.requested BY DEF NewCamera, CameraState, Maybe
  <1>5. VideoTypes' /\ CameraInv'
    <2>1. asked' = FALSE /\ capture' = FALSE /\ camera' = NewCamera /\ tasks' = <<>> BY DEF EndCall
    <2>2. VideoTypes' BY <1>4, <2>1, NoneQueued DEF VideoTypes
    <2>3. Ends(tasks', camera'.requested) BY <1>4, <2>1, SettlesEmpty DEF Ends
    <2>4. QED BY <1>4, <2>1, <2>2, <2>3 DEF CameraInv
  <1>6. QED BY <1>1, <1>3, <1>5 DEF DeviceInv

LEMMA PrepareStep ==
  ASSUME DeviceInv, Prepare
  PROVE  DeviceInv'
  <1>1. SystemTypes' /\ ManagerTypes' /\ ManagerInv' /\ PostTypes' /\ AudioTypes' /\ AudioInv'
    BY ManagerSame, PostSame, AudioSame DEF Prepare
  <1> DEFINE t == SetDevice(device[Camera], TRUE)
  <1>2. t \in Tasks /\ t.do = "device" BY DEF DeviceInv, PostTypes, Kinds, SetDevice, Tasks
  <1>3. capture' = TRUE /\ tasks' = Append(tasks, t) /\ UNCHANGED <<asked, camera>> BY DEF Prepare
  <1>4. VideoTypes' BY <1>2, <1>3, AppendProperties DEF DeviceInv, VideoTypes
  <1>5. ~asked' => Ends(tasks', camera'.requested)
    BY <1>2, <1>3, EndsAppend DEF DeviceInv, VideoTypes, CameraInv
  <1>6. QED BY <1>1, <1>3, <1>4, <1>5 DEF DeviceInv, CameraInv

LEMMA EnableStep ==
  ASSUME DeviceInv, NEW enable \in BOOLEAN, SetCameraEnabled(enable)
  PROVE  DeviceInv'
  <1>1. SystemTypes' /\ ManagerTypes' /\ ManagerInv' /\ PostTypes' /\ AudioTypes' /\ AudioInv'
    BY ManagerSame, PostSame, AudioSame DEF SetCameraEnabled
  <1>2. /\ asked' = enable /\ camera' = camera /\ capture' = (capture \/ enable)
        /\ tasks' = tasks
             \o (IF enable /\ ~capture THEN <<SetDevice(device[Camera], TRUE)>> ELSE <<>>)
             \o (IF capture' THEN <<Task(IF enable THEN "start" ELSE "stop")>> ELSE <<>>)
    BY DEF SetCameraEnabled
  <1>3. /\ SetDevice(device[Camera], TRUE) \in Tasks /\ Task("start") \in Tasks
        /\ Task("stop") \in Tasks /\ Task("stop").do = "stop"
    BY DEF DeviceInv, PostTypes, Kinds, SetDevice, Task, Tasks, Maybe
  <1>4. tasks \in Seq(Tasks) /\ asked \in BOOLEAN /\ capture \in BOOLEAN /\ camera \in CameraState
    BY DEF DeviceInv, VideoTypes
  <1>5. CASE enable
    <2>1. tasks' \in Seq(Tasks)
      <3>1. CASE capture
        <4>1. tasks' = tasks \o <<>> \o <<Task("start")>> BY <1>2, <1>5, <3>1
        <4>2. QED BY <1>3, <1>4, <4>1, Joined
      <3>2. CASE ~capture
        <4> DEFINE a == SetDevice(device[Camera], TRUE)
                   b == Task("start")
        <4>1. tasks' = tasks \o <<a>> \o <<b>> BY <1>2, <1>5, <3>2
        <4>2. a \in Tasks /\ b \in Tasks BY <1>3
        <4> HIDE DEF a, b
        <4>3. tasks \o <<a>> \o <<b>> = Append(Append(tasks, a), b)
          BY <1>4, <4>2, Joined
        <4>4. Append(Append(tasks, a), b) \in Seq(Tasks) BY <1>4, <4>2, Joined
        <4>5. QED BY <4>1, <4>3, <4>4
      <3>3. QED BY <3>1, <3>2
    <2>2. capture' \in BOOLEAN /\ capture' /\ asked' BY <1>2, <1>5
    <2>3. VideoTypes' BY <1>2, <1>4, <2>1, <2>2 DEF VideoTypes
    <2>4. QED BY <1>1, <2>2, <2>3 DEF DeviceInv, CameraInv
  <1>6. CASE ~enable /\ capture
    <2>1. tasks' = Append(tasks, Task("stop"))
      <3>1. tasks' = tasks \o <<>> \o <<Task("stop")>> BY <1>2, <1>6
      <3>2. QED BY <1>3, <1>4, <3>1, Joined
    <2>2. capture' \in BOOLEAN /\ capture' BY <1>2, <1>6
    <2>3. tasks' \in Seq(Tasks) /\ Ends(tasks', camera'.requested) BY <1>3, <1>4, <2>1, EndsAppend
    <2>4. VideoTypes' BY <1>2, <1>4, <2>2, <2>3 DEF VideoTypes
    <2>5. QED BY <1>1, <2>2, <2>3, <2>4 DEF DeviceInv, CameraInv
  <1>7. CASE ~enable /\ ~capture
    <2>1. tasks = <<>> /\ ~camera.requested BY <1>7 DEF DeviceInv, CameraInv
    <2>2. tasks' = <<>> /\ ~capture' BY <1>2, <1>7, <2>1
    <2>3. VideoTypes' BY <1>2, <1>4, <1>7, <2>1, <2>2 DEF VideoTypes
    <2>4. Ends(tasks', camera'.requested) BY <1>2, <2>1, <2>2, SettlesEmpty DEF Ends
    <2>5. QED BY <1>1, <1>2, <2>1, <2>2, <2>3, <2>4 DEF DeviceInv, CameraInv
  <1>8. QED BY <1>5, <1>6, <1>7

-----------------------------------------------------------------------------
(* The thread of the camera                                                *)

LEMMA CameraTaskStep ==
  ASSUME DeviceInv, CameraTask
  PROVE  DeviceInv'
  <1>1. SystemTypes' /\ ManagerTypes' /\ ManagerInv' /\ PostTypes' /\ AudioTypes' /\ AudioInv'
    BY ManagerSame, PostSame, AudioSame DEF CameraTask
  <1>2. tasks # <<>> /\ tasks' = Tail(tasks) /\ UNCHANGED <<asked, capture>> BY DEF CameraTask
  <1>3. tasks \in Seq(Tasks) /\ camera \in CameraState BY DEF DeviceInv, VideoTypes
  <1>4. tasks[1] \in Tasks
    <2>1. Len(tasks) \in Nat \ {0} BY <1>2, <1>3, EmptySeq
    <2>2. QED BY <1>3, <2>1, ElementOfSeq
  <1>5. /\ camera' \in CameraState
        /\ tasks[1].do = "stop" => ~camera'.requested
        /\ tasks[1].do = "device" => (camera'.requested => camera.requested)
    <2>1. CASE tasks[1].do = "start"
      <3>1. camera' \in Started([camera EXCEPT !.failed = FALSE]) BY <2>1 DEF CameraTask
      <3>2. [camera EXCEPT !.failed = FALSE] \in CameraState BY <1>3 DEF CameraState
      <3>3. QED BY <2>1, <3>1, <3>2, StartedFacts
    <2>2. CASE tasks[1].do = "stop"
      <3>1. camera' = Stopped(camera) BY <2>2 DEF CameraTask
      <3>2. QED BY <1>3, <2>2, <3>1 DEF Stopped, CameraState
    <2>3. CASE tasks[1].do = "device"
      <3>1. PICK c \in DeviceSet(camera, tasks[1].dev) :
              camera' \in IF tasks[1].prepare THEN Prepared(c) ELSE {c}
        BY <2>3 DEF CameraTask
      <3>2. tasks[1].dev \in Maybe BY <1>4 DEF Tasks
      <3>3. c \in CameraState /\ (c.requested => camera.requested) BY <1>3, <3>2, DeviceSetFacts
      <3>4. camera' \in CameraState /\ camera'.requested = c.requested BY <3>1, <3>3, PreparedFacts
      <3>5. QED BY <2>3, <3>3, <3>4
    <2>4. QED BY <1>4, <2>1, <2>2, <2>3 DEF Tasks
  <1>6. VideoTypes' BY <1>2, <1>3, <1>5, HeadTailProperties DEF DeviceInv, VideoTypes
  <1>7. ~asked' => Ends(tasks', camera'.requested)
    BY <1>2, <1>3, <1>5, EndsTail DEF DeviceInv, CameraInv
  <1>8. capture' BY <1>2 DEF DeviceInv, CameraInv
  <1>9. QED BY <1>1, <1>6, <1>7, <1>8 DEF DeviceInv, CameraInv

LEMMA CameraErrorStep ==
  ASSUME DeviceInv, CameraError
  PROVE  DeviceInv'
  <1>1. SystemTypes' /\ ManagerTypes' /\ ManagerInv' /\ PostTypes' /\ AudioTypes' /\ AudioInv'
    BY ManagerSame, PostSame, AudioSame DEF CameraError
  <1>2. UNCHANGED <<asked, capture, tasks>> /\ camera' = [camera EXCEPT !.requested = FALSE, !.failed = TRUE]
    BY DEF CameraError
  <1>3. camera' \in CameraState /\ ~camera'.requested BY <1>2 DEF DeviceInv, VideoTypes, CameraState
  <1>4. VideoTypes' BY <1>2, <1>3 DEF DeviceInv, VideoTypes
  <1>5. ~asked' => Ends(tasks', camera'.requested)
    BY <1>2, <1>3, Zenon DEF DeviceInv, CameraInv, Ends, Settles
  <1>6. QED BY <1>1, <1>2, <1>3, <1>4, <1>5 DEF DeviceInv, CameraInv

-----------------------------------------------------------------------------
(* The theorems                                                            *)

LEMMA KindsCounted == Cardinality(Kinds) \in Nat
  <1>1. IsFiniteSet(Kinds) BY DevicesAssumption, FS_AddElement DEF Kinds
  <1>2. QED BY <1>1, FS_CardinalityType

LEMMA DeviceInitially == Init => DeviceInv
  <1> SUFFICES ASSUME Init PROVE DeviceInv OBVIOUS
  <1>1. SystemTypes /\ ManagerTypes
    BY DevicesAssumption DEF Init, SystemTypes, ManagerTypes, Maybe
  <1>2. ManagerInv BY DEF Init, ManagerInv, Current, Reloaded
  <1>3. PostTypes
    <2>1. posts \in [1..Cardinality(Kinds) -> [kind : Kinds, dev : Maybe]] BY DEF Init
    <2>2. posts \in Seq([kind : Kinds, dev : Maybe]) BY <2>1, KindsCounted, SeqDef
    <2>3. device \in [Kinds -> Maybe] BY DEF Init, Maybe
    <2>4. QED BY <2>2, <2>3 DEF PostTypes
  <1>4. AudioTypes /\ AudioInv
    <2>1. NewAdm \in AdmState /\ ~NewAdm.on /\ ~NewAdm.resume BY DEF NewAdm, AdmState, Maybe
    <2>2. QED BY <2>1 DEF Init, AudioTypes, AudioInv
  <1>5. VideoTypes /\ CameraInv
    <2>1. NewCamera \in CameraState /\ ~NewCamera.requested BY DEF NewCamera, CameraState, Maybe
    <2>2. asked = FALSE /\ capture = FALSE /\ camera = NewCamera /\ tasks = <<>> BY DEF Init
    <2>3. VideoTypes BY <2>1, <2>2, NoneQueued DEF VideoTypes
    <2>4. Ends(tasks, camera.requested) BY <2>1, <2>2, SettlesEmpty DEF Ends
    <2>5. QED BY <2>1, <2>2, <2>3, <2>4 DEF CameraInv
  <1>6. QED BY <1>1, <1>2, <1>3, <1>4, <1>5 DEF DeviceInv

LEMMA DeviceNext == DeviceInv /\ [Next]_vars => DeviceInv'
  <1> SUFFICES ASSUME DeviceInv, [Next]_vars PROVE DeviceInv' OBVIOUS
  <1>1. CASE System
    <2>1. PICK k \in Kinds, d \in Devices :
            \/ d \in plugged[k] /\ Plug(k, plugged[k] \ {d})
            \/ d \notin plugged[k] /\ Plug(k, plugged[k] \cup {d})
      BY <1>1 DEF System
    <2>2. plugged[k] \ {d} \in SUBSET Devices /\ plugged[k] \cup {d} \in SUBSET Devices
      BY DEF DeviceInv, SystemTypes
    <2>3. QED BY <2>1, <2>2, PlugStep
  <1>2. CASE Gui BY <1>2, ReloadListStep, ReloadSelectionStep, SelectStep DEF Gui
  <1>3. CASE Service BY <1>3, HandleStep, ClientStep, EndStep, PrepareStep, EnableStep DEF Service
  <1>4. CASE CameraTask \/ CameraError BY <1>4, CameraTaskStep, CameraErrorStep
  <1>5. CASE UNCHANGED vars
    <2>1. UNCHANGED <<system, manager>> /\ UNCHANGED <<posts, device>> /\ UNCHANGED audio /\ UNCHANGED video
      BY <1>5 DEF vars
    <2>2. QED BY <2>1, ManagerSame, PostSame, AudioSame, VideoSame DEF DeviceInv
  <1>6. QED BY <1>1, <1>2, <1>3, <1>4, <1>5 DEF Next

\* The invariant holds in every state that the four threads reach.
THEOREM DeviceInductive == Spec => []DeviceInv
  BY DeviceInitially, DeviceNext, PTL DEF Spec

\* However devices come and go while reloadAudioInputs() and its siblings read the
\* system, the selection ends as a device that is there, for any number of devices.
THEOREM SelectionAlwaysCurrent == Spec => []SelectionCurrent
  <1>1. DeviceInv => SelectionCurrent
    <2> SUFFICES ASSUME DeviceInv PROVE SelectionCurrent OBVIOUS
    <2>1. TypeOK BY DeviceTypes DEF DeviceInv
    <2>2. QED BY <2>1 DEF DeviceInv, ManagerInv, Current, Reloaded, SelectionCurrent
  <1>2. QED BY <1>1, DeviceInductive, PTL

\* Neither applyAudioDevice() nor the posted tasks of QtCameraCapture ever listen or
\* look without a call that wants it, for any number of posted tasks and devices.
THEOREM AlwaysOnlyWhileAsked == Spec => []OnlyWhileAsked
  <1>1. DeviceInv => OnlyWhileAsked
    <2> SUFFICES ASSUME DeviceInv PROVE OnlyWhileAsked OBVIOUS
    <2>1. ASSUME tasks = <<>>, ~asked PROVE ~camera.requested
      BY <2>1, SettlesEmpty DEF DeviceInv, CameraInv, Ends
    <2>2. QED BY <2>1 DEF DeviceInv, AudioInv, OnlyWhileAsked
  <1>2. QED BY <1>1, DeviceInductive, PTL
-----------------------------------------------------------------------------
(* The call follows the selection                                          *)

Posted == [kind : Kinds, dev : Maybe]
PostsOf(k) == {p \in Posted : p.kind = k}
Telling(k, d) == {p \in PostsOf(k) : p.dev = d}
Setting(d) == {t \in Does("device") : t.dev = d}

\* What is selected arrives at the service.
PostInv ==
  \A k \in Kinds :
    Settles(posts, PostsOf(k), Telling(k, selected[k]), device[k] = selected[k])

\* The module uses the device d of the service; without one it keeps the wish to run.
Runs(a, d) == IF d = None THEN call => a.on \/ a.resume ELSE a.dev = d /\ (call => a.on)
PlayInv ==
  /\ client # "ready" => ~call
  /\ \A k \in Audio : client = "ready" /\ ~adm[k].failed => Runs(adm[k], device[k])

\* Frames that are wanted come from the device of the camera.
Sane(c) == (c.made => c.dev # None) /\ (c.requested /\ c.dev # None => c.made)
Wanted(c) == c.requested \/ c.failed
LookInv ==
  /\ asked => capture
  /\ capture => Settles(tasks, Does("device"), Setting(device[Camera]), camera.dev = device[Camera])
  /\ asked => Settles(tasks, Wishes, Does("start"), Wanted(camera))
  /\ Sane(camera)

FollowInv == PostInv /\ PlayInv /\ LookInv

\* applyAudioDevice() leaves a module that uses the device, or an error.
LEMMA AppliedRuns ==
  ASSUME AudioTypes, NEW k \in Audio, NEW d \in Maybe, NEW a \in Applied(k, d),
         call /\ ~adm[k].failed => adm[k].on \/ adm[k].resume, ~a.failed
  PROVE  Runs(a, d)
  <1> DEFINE b == adm[k]
             active == b.on \/ b.resume
             stopped == [b EXCEPT !.on = FALSE, !.failed = TRUE]
             running == [b EXCEPT !.dev = d, !.on = active, !.resume = FALSE,
                                  !.failed = @ /\ call /\ ~active]
  <1>0. b \in AdmState /\ active \in BOOLEAN /\ call \in BOOLEAN BY DEF AudioTypes, AdmState
  <1>1. stopped \in AdmState /\ stopped.failed BY <1>0 DEF AdmState
  <1>2. \/ d = None /\ a = [b EXCEPT !.resume = active, !.on = FALSE]
        \/ a = [b EXCEPT !.resume = active, !.failed = TRUE]
        \/ a = [b EXCEPT !.failed = TRUE]
        \/ a = stopped
        \/ a = [stopped EXCEPT !.dev = d]
        \/ a = [stopped EXCEPT !.dev = d, !.resume = TRUE]
        \/ d # None /\ a = running
    BY Zenon DEF Applied
  <1>3. CASE d = None /\ a = [b EXCEPT !.resume = active, !.on = FALSE]
    <2>1. a.failed = b.failed /\ a.resume = active BY <1>0, <1>3 DEF AdmState
    <2>2. call => a.resume BY <2>1
    <2>3. QED BY <1>3, <2>2 DEF Runs
  <1>4. CASE a = [b EXCEPT !.resume = active, !.failed = TRUE]
    <2>1. a.failed BY <1>0, <1>4 DEF AdmState
    <2>2. QED BY <2>1
  <1>5. CASE a = [b EXCEPT !.failed = TRUE]
    <2>1. a.failed BY <1>0, <1>5 DEF AdmState
    <2>2. QED BY <2>1
  <1>6. CASE a = stopped BY <1>1, <1>6
  <1>7. CASE a = [stopped EXCEPT !.dev = d]
    <2>1. a.failed BY <1>1, <1>7 DEF AdmState
    <2>2. QED BY <2>1
  <1>8. CASE a = [stopped EXCEPT !.dev = d, !.resume = TRUE]
    <2>1. a.failed BY <1>1, <1>8 DEF AdmState
    <2>2. QED BY <2>1
  <1>9. CASE d # None /\ a = running
    <2>1. a.dev = d /\ a.on = active /\ a.failed = (b.failed /\ call /\ ~active)
      BY <1>0, <1>9 DEF AdmState
    <2>2. call => a.on BY <2>1
    <2>3. QED BY <1>9, <2>1, <2>2 DEF Runs
  <1>10. QED BY <1>2, <1>3, <1>4, <1>5, <1>6, <1>7, <1>8, <1>9

LEMMA PreparedFollows ==
  ASSUME NEW c \in CameraState, Sane(c), NEW p \in Prepared(c)
  PROVE  Sane(p) /\ p.dev = c.dev /\ (Wanted(c) => Wanted(p)) /\ (p.made \/ p.failed)
  <1>1. CASE c.made
    <2>1. p = c BY <1>1 DEF Prepared
    <2>2. QED BY <1>1, <2>1
  <1>2. CASE ~c.made /\ p = [c EXCEPT !.failed = TRUE]
    <2>1. /\ p.failed /\ p.dev = c.dev /\ p.made = c.made /\ p.requested = c.requested
      BY <1>2 DEF CameraState
    <2>2. QED BY <2>1 DEF Sane, Wanted
  <1>3. CASE ~c.made /\ c.dev # None /\ p = [c EXCEPT !.made = TRUE]
    <2>1. p.made /\ p.dev = c.dev /\ p.failed = c.failed /\ p.requested = c.requested
      BY <1>3 DEF CameraState
    <2>2. QED BY <1>3, <2>1 DEF Sane, Wanted
  <1>4. QED BY <1>1, <1>2, <1>3 DEF Prepared

LEMMA StartedFollows ==
  ASSUME NEW c \in CameraState, Sane(c), NEW s \in Started(c)
  PROVE  Sane(s) /\ s.dev = c.dev /\ Wanted(s)
  <1>1. CASE c.requested
    <2>1. s = c BY <1>1 DEF Started
    <2>2. QED BY <1>1, <2>1 DEF Wanted
  <1>2. CASE ~c.requested
    <2>1. PICK p \in Prepared(c) : s = [p EXCEPT !.requested = p.made] BY <1>2 DEF Started
    <2>2. p \in CameraState BY PreparedFacts
    <2>3. Sane(p) /\ p.dev = c.dev /\ (p.made \/ p.failed) BY PreparedFollows
    <2>4. s.requested = p.made /\ s.made = p.made /\ s.failed = p.failed /\ s.dev = p.dev
      BY <2>1, <2>2 DEF CameraState
    <2>5. QED BY <2>3, <2>4 DEF Sane, Wanted
  <1>3. QED BY <1>1, <1>2

LEMMA DeviceSetFollows ==
  ASSUME NEW c \in CameraState, Sane(c), NEW d \in Maybe, NEW s \in DeviceSet(c, d)
  PROVE  Sane(s) /\ s.dev = d /\ (Wanted(c) => Wanted(s))
  <1> DEFINE new == [Stopped(c) EXCEPT !.made = FALSE, !.dev = d, !.known = TRUE]
  <1>1. new \in CameraState /\ ~new.requested /\ ~new.made /\ new.dev = d /\ new.failed = c.failed
    BY DEF Stopped, CameraState
  <1>2. Sane(new) BY <1>1 DEF Sane
  <1>3. CASE c.known /\ c.dev = d BY <1>3 DEF DeviceSet
  <1>4. CASE ~(c.known /\ c.dev = d)
    <2>1. CASE ~c.requested
      <3>1. s = new BY <1>4, <2>1 DEF DeviceSet
      <3> HIDE DEF new
      <3>2. QED BY <1>1, <1>2, <2>1, <3>1 DEF Wanted
    <2>2. CASE c.requested /\ d = None
      <3>1. s = [new EXCEPT !.requested = TRUE] BY <1>4, <2>2 DEF DeviceSet
      <3> HIDE DEF new
      <3>2. s.requested /\ s.dev = d /\ ~s.made BY <1>1, <3>1 DEF CameraState
      <3>3. QED BY <2>2, <3>2 DEF Sane, Wanted
    <2>3. CASE c.requested /\ d # None
      <3>1. s \in Started(new) BY <1>4, <2>3 DEF DeviceSet
      <3> HIDE DEF new
      <3>2. QED BY <1>1, <1>2, <3>1, StartedFollows
    <2>4. QED BY <2>1, <2>2, <2>3
  <1>5. QED BY <1>3, <1>4

LEMMA PostInvSame ==
  ASSUME PostInv, UNCHANGED <<posts, device, selected>>
  PROVE  PostInv'
  BY DEF PostInv, Posted, PostsOf, Telling, Settles

LEMMA PlayInvSame ==
  ASSUME PlayInv, UNCHANGED <<device, audio>>
  PROVE  PlayInv'
  BY DEF PlayInv, Runs, audio

LEMMA LookInvSame ==
  ASSUME LookInv, UNCHANGED <<device, video>>
  PROVE  LookInv'
  BY DEF LookInv, Does, Wishes, Setting, Sane, Wanted, Settles, video

\* A selection is posted as it is made.
LEMMA PostFollows ==
  ASSUME DeviceInv, PostInv, NEW k \in Kinds, NEW d \in Maybe, Post(k, d),
         selected' = [selected EXCEPT ![k] = d], device' = device
  PROVE  PostInv'
  <1> DEFINE t == [kind |-> k, dev |-> d]
  <1>1. posts \in Seq(Posted) /\ t \in Posted /\ posts' = Append(posts, t)
    BY DEF DeviceInv, PostTypes, Posted, Post
  <1>2. ASSUME NEW l \in Kinds
        PROVE  Settles(posts', PostsOf(l), Telling(l, selected'[l]), device'[l] = selected'[l])
    <2> DEFINE w == device'[l] = selected'[l]
               S == PostsOf(l)
               G == Telling(l, selected'[l])
    <2>1. CASE l = k
      <3>1. t \in G BY <1>1, <2>1 DEF DeviceInv, ManagerTypes, Telling, PostsOf
      <3> HIDE DEF w, S, G, t
      <3>2. Settles(Append(posts, t), S, G, w) BY <1>1, <3>1, SettlesAppend
      <3>3. QED BY <1>1, <3>2 DEF w, S, G
    <2>2. CASE l # k
      <3>1. t \notin S BY <2>2 DEF PostsOf
      <3>2. selected'[l] = selected[l] BY <2>2 DEF DeviceInv, ManagerTypes
      <3>3. Settles(posts, S, G, w) BY <3>2 DEF PostInv
      <3> HIDE DEF w, S, G, t
      <3>4. Settles(Append(posts, t), S, G, w) BY <1>1, <3>1, <3>3, SettlesAppend
      <3>5. QED BY <1>1, <3>4 DEF w, S, G
    <2>3. QED BY <2>1, <2>2
  <1>3. QED BY <1>2 DEF PostInv, PostsOf, Telling, Posted

LEMMA GuiFollows ==
  ASSUME DeviceInv, FollowInv, System \/ Gui
  PROVE  FollowInv'
  <1>1. UNCHANGED device /\ UNCHANGED audio /\ UNCHANGED video
    BY DEF System, Gui, Plug, ReloadList, ReloadSelection, Select
  <1>2. PlayInv' /\ LookInv' BY <1>1, PlayInvSame, LookInvSame DEF FollowInv
  <1>3. PostInv'
    <2>1. CASE UNCHANGED <<posts, selected>> BY <1>1, <2>1, PostInvSame DEF FollowInv
    <2>2. CASE \E k \in Kinds : \E d \in Maybe : Post(k, d) /\ selected' = [selected EXCEPT ![k] = d]
      BY <1>1, <2>2, PostFollows DEF FollowInv
    <2>3. CASE System BY <2>1, <2>3 DEF System, Plug
    <2>4. ASSUME NEW k \in Kinds, ReloadList(k) PROVE PostInv' BY <2>1, <2>4 DEF ReloadList
    <2>5. ASSUME NEW k \in Kinds, ReloadSelection(k) PROVE PostInv'
      <3>1. default[k] \in Maybe BY DEF DeviceInv, SystemTypes
      <3>2. QED BY <2>1, <2>2, <2>5, <3>1 DEF ReloadSelection
    <2>6. ASSUME NEW k \in Kinds, NEW d \in Devices, Select(k, d) PROVE PostInv'
      BY <2>2, <2>6 DEF Select, Maybe
    <2>7. QED BY <2>3, <2>4, <2>5, <2>6 DEF Gui
  <1>4. QED BY <1>2, <1>3 DEF FollowInv

LEMMA HandleFollows ==
  ASSUME DeviceInv, FollowInv, HandleDevice
  PROVE  FollowInv'
  <1> DEFINE k == posts[1].kind
             d == posts[1].dev
  <1>1. posts # <<>> /\ posts \in Seq(Posted) BY DEF HandleDevice, DeviceInv, PostTypes, Posted
  <1>2. posts[1] \in Posted /\ k \in Kinds /\ d \in Maybe
    <2>1. posts[1] \in Posted BY <1>1, FirstIn
    <2>2. QED BY <2>1 DEF Posted
  <1>3. /\ posts' = Tail(posts) /\ device' = [device EXCEPT ![k] = d] /\ selected' = selected
        /\ UNCHANGED <<client, call, asked, capture, camera>>
    BY DEF HandleDevice, manager
  <1>4. device'[k] = d /\ \A l \in Kinds : l # k => device'[l] = device[l]
    BY <1>2, <1>3 DEF DeviceInv, PostTypes
  <1>5. PostInv'
    <2>1. ASSUME NEW l \in Kinds
          PROVE  Settles(posts', PostsOf(l), Telling(l, selected[l]), device'[l] = selected[l])
      <3> DEFINE w == device[l] = selected[l]
                 v == device'[l] = selected[l]
                 S == PostsOf(l)
                 G == Telling(l, selected[l])
      <3>1. posts[1] \in G => v BY <1>2, <1>4 DEF Telling, PostsOf
      <3>2. posts[1] \notin S /\ w => v BY <1>2, <1>4 DEF PostsOf
      <3>3. Settles(posts, S, G, w) BY DEF FollowInv, PostInv
      <3> HIDE DEF w, v, S, G
      <3>4. Settles(Tail(posts), S, G, v) BY <1>1, <3>1, <3>2, <3>3, SettlesTail
      <3>5. QED BY <1>3, <3>4 DEF v, S, G
    <2>2. QED BY <1>3, <2>1 DEF PostInv, PostsOf, Telling, Posted
  <1>6. PlayInv'
    <2>1. ASSUME NEW l \in Audio, client = "ready", ~adm'[l].failed
          PROVE  Runs(adm[l], device[l])'
      <3>1. CASE l = k
        <4>1. PICK a \in Applied(k, d) : adm' = [adm EXCEPT ![k] = a]
          BY <2>1, <3>1 DEF HandleDevice
        <4>2. adm'[k] = a BY <2>1, <3>1, <4>1 DEF DeviceInv, AudioTypes
        <4>3. call /\ ~adm[k].failed => adm[k].on \/ adm[k].resume
          BY <2>1, <3>1 DEF FollowInv, PlayInv, Runs
        <4>4. Runs(a, d) BY <1>2, <2>1, <3>1, <4>2, <4>3, AppliedRuns DEF DeviceInv
        <4>5. QED BY <1>3, <1>4, <3>1, <4>2, <4>4 DEF Runs
      <3>2. CASE l # k
        <4>1. adm'[l] = adm[l]
          BY <2>1, <3>2 DEF HandleDevice, DeviceInv, AudioTypes
        <4>2. device'[l] = device[l] BY <1>4, <3>2 DEF Kinds
        <4>3. Runs(adm[l], device[l]) BY <2>1, <4>1 DEF FollowInv, PlayInv
        <4>4. QED BY <1>3, <4>1, <4>2, <4>3 DEF Runs
      <3>3. QED BY <3>1, <3>2
    <2>2. QED BY <1>3, <2>1 DEF FollowInv, PlayInv, Runs
  <1>7. LookInv'
    <2>1. CASE k = Camera /\ capture
      <3> DEFINE t == SetDevice(d, FALSE)
                 w == camera.dev = d
                 v == Wanted(camera)
      <3>1. tasks' = Append(tasks, t) /\ tasks \in Seq(Tasks) BY <2>1 DEF HandleDevice, DeviceInv, VideoTypes
      <3>2. t \in Tasks /\ t \in Setting(d) /\ t \notin Wishes
        BY <1>2 DEF SetDevice, Tasks, Setting, Does, Wishes
      <3> HIDE DEF t, w, v
      <3>3. Settles(tasks', Does("device"), Setting(d), w) BY <3>1, <3>2, SettlesAppend
      <3>4. asked => Settles(tasks', Wishes, Does("start"), v)
        <4>1. asked => Settles(tasks, Wishes, Does("start"), v) BY DEF FollowInv, LookInv, v
        <4>2. QED BY <3>1, <3>2, <4>1, SettlesAppend
      <3>5. device'[Camera] = d BY <1>4, <2>1
      <3>6. capture' => Settles(tasks', Does("device"), Setting(device'[Camera]), camera'.dev = device'[Camera])
        BY <1>3, <3>3, <3>5 DEF w
      <3>7. asked' => Settles(tasks', Wishes, Does("start"), Wanted(camera'))
        BY <1>3, <3>4 DEF v
      <3>8. (asked' => capture') /\ Sane(camera') BY <1>3 DEF FollowInv, LookInv
      <3>9. QED BY <3>6, <3>7, <3>8 DEF LookInv, Does, Wishes, Setting, Sane, Wanted, Settles
    <2>2. CASE ~(k = Camera /\ capture)
      <3>1. tasks' = tasks BY <2>2 DEF HandleDevice
      <3>2. CASE ~capture BY <1>3, <3>1, <3>2 DEF FollowInv, LookInv, Sane, Wanted
      <3>3. CASE capture
        <4>1. device'[Camera] = device[Camera] BY <1>4, <2>2, <3>3 DEF Kinds
        <4>2. QED BY <1>3, <3>1, <4>1
              DEF FollowInv, LookInv, Does, Wishes, Setting, Sane, Wanted, Settles
      <3>4. QED BY <3>2, <3>3
    <2>3. QED BY <2>1, <2>2
  <1>8. QED BY <1>5, <1>6, <1>7 DEF FollowInv

LEMMA ClientFollows ==
  ASSUME DeviceInv, FollowInv, CreateWebrtcClient \/ Initialize \/ StartAudio
  PROVE  FollowInv'
  <1>1. UNCHANGED <<posts, device, selected>> /\ UNCHANGED video
    BY DEF CreateWebrtcClient, Initialize, StartAudio, manager
  <1>2. PostInv' /\ LookInv' BY <1>1, PostInvSame, LookInvSame DEF FollowInv
  <1>3. CASE CreateWebrtcClient
    <2>1. client = "none" /\ client' = "made" /\ call' = call BY <1>3 DEF CreateWebrtcClient
    <2>2. PlayInv' BY <2>1 DEF FollowInv, PlayInv
    <2>3. QED BY <1>2, <2>2 DEF FollowInv
  <1>4. CASE Initialize
    <2>1. /\ client = "made" /\ client' = "ready" /\ call' = call
          /\ \A k \in Audio : adm'[k] \in Applied(k, device[k])
      BY <1>4 DEF Initialize
    <2>2. ~call BY <2>1 DEF FollowInv, PlayInv
    <2>3. ASSUME NEW k \in Audio, ~adm'[k].failed PROVE Runs(adm[k], device[k])'
      <3>1. device[k] \in Maybe BY DEF DeviceInv, PostTypes, Kinds
      <3>2. Runs(adm'[k], device[k]) BY <2>1, <2>2, <2>3, <3>1, AppliedRuns DEF DeviceInv
      <3>3. QED BY <1>1, <2>1, <3>2 DEF Runs
    <2>4. PlayInv' BY <2>1, <2>3 DEF PlayInv
    <2>5. QED BY <1>2, <2>4 DEF FollowInv
  <1>5. CASE StartAudio
    <2>1. PICK ok \in SUBSET Audio :
            adm' = [k \in Audio |-> [adm[k] EXCEPT !.on = k \in ok, !.failed = @ \/ k \notin ok]]
      BY <1>5 DEF StartAudio
    <2>2. client = "ready" /\ client' = client BY <1>5 DEF StartAudio
    <2>3. ASSUME NEW k \in Audio, ~adm'[k].failed PROVE Runs(adm[k], device[k])'
      <3> DEFINE on == k \in ok
                 failed == adm[k].failed \/ k \notin ok
      <3>1. adm[k] \in AdmState BY DEF DeviceInv, AudioTypes
      <3>2. adm'[k] = [adm[k] EXCEPT !.on = on, !.failed = failed] BY <2>1, <3>1 DEF AdmState
      <3> HIDE DEF on, failed
      <3>3. adm'[k].on = on /\ adm'[k].failed = failed /\ adm'[k].dev = adm[k].dev
        BY <3>1, <3>2 DEF AdmState
      <3>4. ~adm[k].failed /\ adm'[k].on BY <2>3, <3>3 DEF on, failed
      <3>5. Runs(adm[k], device[k]) BY <2>2, <3>4 DEF FollowInv, PlayInv
      <3>6. device'[k] = device[k] BY <1>1
      <3>7. QED BY <3>3, <3>4, <3>5, <3>6 DEF Runs
    <2>4. PlayInv' BY <2>2, <2>3 DEF PlayInv
    <2>5. QED BY <1>2, <2>4 DEF FollowInv
  <1>6. QED BY <1>3, <1>4, <1>5

LEMMA EndFollows ==
  ASSUME DeviceInv, FollowInv, EndCall
  PROVE  FollowInv'
  <1>1. UNCHANGED <<posts, device, selected>> BY DEF EndCall, manager
  <1>2. PostInv' BY <1>1, PostInvSame DEF FollowInv
  <1>3. PlayInv' BY DEF EndCall, PlayInv
  <1>4. LookInv'
    <2>1. ~asked' /\ ~capture' /\ camera' = NewCamera BY DEF EndCall
    <2>2. Sane(NewCamera) BY DEF Sane, NewCamera
    <2>3. QED BY <2>1, <2>2 DEF LookInv, Sane
  <1>5. QED BY <1>2, <1>3, <1>4 DEF FollowInv

\* The service posts the camera's device, and what it wants of it.
LEMMA TaskFollows ==
  ASSUME DeviceInv, FollowInv, UNCHANGED <<posts, device, selected, client, call, adm, camera>>,
         capture', (asked' => capture'),
         capture' => Settles(tasks', Does("device"), Setting(device[Camera]), camera.dev = device[Camera]),
         asked' => Settles(tasks', Wishes, Does("start"), Wanted(camera))
  PROVE  FollowInv'
  <1>1. PostInv' BY PostInvSame DEF FollowInv
  <1>2. PlayInv' BY PlayInvSame DEF FollowInv, audio
  <1>3. Sane(camera') BY DEF FollowInv, LookInv
  <1>4. LookInv' BY <1>3 DEF LookInv, Does, Wishes, Setting, Sane, Wanted, Settles
  <1>5. QED BY <1>1, <1>2, <1>4 DEF FollowInv

LEMMA PrepareFollows ==
  ASSUME DeviceInv, FollowInv, Prepare
  PROVE  FollowInv'
  <1> DEFINE t == SetDevice(device[Camera], TRUE)
             w == camera.dev = device[Camera]
             v == Wanted(camera)
  <1>1. /\ capture' /\ tasks' = Append(tasks, t) /\ asked' = asked /\ tasks \in Seq(Tasks)
        /\ UNCHANGED <<posts, device, selected, client, call, adm, camera>>
    BY DEF Prepare, manager, audio, DeviceInv, VideoTypes
  <1>2. t \in Tasks /\ t \in Setting(device[Camera]) /\ t \notin Wishes
    BY DEF SetDevice, Tasks, Setting, Does, Wishes, DeviceInv, PostTypes, Kinds
  <1>3. asked => Settles(tasks, Wishes, Does("start"), v) BY DEF FollowInv, LookInv
  <1> HIDE DEF t, w, v
  <1>4. Settles(tasks', Does("device"), Setting(device[Camera]), w) BY <1>1, <1>2, SettlesAppend
  <1>5. asked => Settles(tasks', Wishes, Does("start"), v) BY <1>1, <1>2, <1>3, SettlesAppend
  <1>6. QED BY <1>1, <1>4, <1>5, TaskFollows DEF w, v

LEMMA EnableFollows ==
  ASSUME DeviceInv, FollowInv, NEW enable \in BOOLEAN, SetCameraEnabled(enable)
  PROVE  FollowInv'
  <1> DEFINE a == SetDevice(device[Camera], TRUE)
             b == Task(IF enable THEN "start" ELSE "stop")
             w == camera.dev = device[Camera]
             v == Wanted(camera)
             S == Setting(device[Camera])
  <1>1. /\ asked' = enable /\ capture' = (capture \/ enable)
        /\ tasks' = tasks \o (IF enable /\ ~capture THEN <<a>> ELSE <<>>)
                          \o (IF capture' THEN <<b>> ELSE <<>>)
        /\ tasks \in Seq(Tasks)
        /\ UNCHANGED <<posts, device, selected, client, call, adm, camera>>
    BY DEF SetCameraEnabled, manager, audio, DeviceInv, VideoTypes
  <1>2. a \in Tasks /\ a \in S
    BY DEF SetDevice, Tasks, Setting, Does, DeviceInv, PostTypes, Kinds
  <1>3. b \in Tasks /\ b \notin Does("device") /\ (enable => b \in Does("start"))
    BY DEF Task, Tasks, Does, Maybe
  <1>4. capture => Settles(tasks, Does("device"), S, w) BY DEF FollowInv, LookInv
  <1> HIDE DEF a, b, w, v, S
  <1>5. CASE capture \/ enable
    <2>1. PICK q \in Seq(Tasks) : tasks' = Append(q, b) /\ Settles(q, Does("device"), S, w)
      <3>1. CASE capture
        <4>1. tasks' = tasks \o <<>> \o <<b>> BY <1>1, <3>1
        <4>2. tasks \in Seq(Tasks) /\ a \in Tasks /\ b \in Tasks BY <1>1, <1>2, <1>3
        <4>3. tasks \o <<>> \o <<b>> = Append(tasks, b) BY <4>2, Joined
        <4>4. tasks' = Append(tasks, b) BY <4>1, <4>3
        <4>5. QED BY <1>1, <1>4, <3>1, <4>4
      <3>2. CASE ~capture
        <4>1. tasks' = tasks \o <<a>> \o <<b>> BY <1>1, <1>5, <3>2
        <4>2. tasks \in Seq(Tasks) /\ a \in Tasks /\ b \in Tasks BY <1>1, <1>2, <1>3
        <4>3. tasks \o <<a>> \o <<b>> = Append(Append(tasks, a), b) BY <4>2, Joined
        <4>4. tasks' = Append(Append(tasks, a), b) BY <4>1, <4>3
        <4>5. Append(tasks, a) \in Seq(Tasks) /\ Settles(Append(tasks, a), Does("device"), S, w)
          BY <1>2, <4>2, SettlesAppend
        <4>6. QED BY <4>4, <4>5
      <3>3. QED BY <3>1, <3>2
    <2>2. Settles(tasks', Does("device"), S, w) BY <1>3, <2>1, SettlesAppend
    <2>3. enable => Settles(tasks', Wishes, Does("start"), v) BY <1>3, <2>1, SettlesAppend
    <2>4. QED BY <1>1, <1>5, <2>2, <2>3, TaskFollows DEF w, v, S
  <1>6. CASE ~capture /\ ~enable
    <2>1. tasks = <<>> BY <1>6 DEF DeviceInv, CameraInv
    <2>2. ~capture' /\ ~asked' BY <1>1, <1>6
    <2>3. PostInv' BY <1>1, PostInvSame DEF FollowInv
    <2>4. PlayInv' BY <1>1, PlayInvSame DEF FollowInv, audio
    <2>5. Sane(camera') BY <1>1 DEF FollowInv, LookInv
    <2>6. QED BY <2>2, <2>3, <2>4, <2>5 DEF FollowInv, LookInv, Sane
  <1>7. QED BY <1>5, <1>6

LEMMA CameraTaskFollows ==
  ASSUME DeviceInv, FollowInv, CameraTask
  PROVE  FollowInv'
  <1> DEFINE t == tasks[1]
             D == Does("device")
             S == Setting(device[Camera])
             w == camera.dev = device[Camera]
             w1 == camera'.dev = device[Camera]
             v == Wanted(camera)
             v1 == Wanted(camera')
  <1>1. /\ tasks # <<>> /\ tasks' = Tail(tasks) /\ tasks \in Seq(Tasks) /\ camera \in CameraState
        /\ UNCHANGED <<posts, device, selected, asked, capture>> /\ UNCHANGED <<device, audio>>
    BY DEF CameraTask, manager, DeviceInv, VideoTypes
  <1>2. t \in Tasks BY <1>1, FirstIn
  <1>3. /\ Sane(camera')
        /\ t.do # "device" => camera'.dev = camera.dev
        /\ t.do = "device" => camera'.dev = t.dev /\ (v => v1)
        /\ t.do = "start" => v1
    <2>0. Sane(camera) BY DEF FollowInv, LookInv
    <2>1. CASE t.do = "start"
      <3> DEFINE c == [camera EXCEPT !.failed = FALSE]
      <3>1. camera' \in Started(c) BY <2>1 DEF CameraTask
      <3>2. /\ c \in CameraState /\ c.dev = camera.dev /\ c.made = camera.made
            /\ c.requested = camera.requested
        BY <1>1 DEF CameraState
      <3> HIDE DEF c
      <3>3. Sane(c) BY <2>0, <3>2 DEF Sane
      <3>4. Sane(camera') /\ camera'.dev = c.dev /\ Wanted(camera') BY <3>1, <3>2, <3>3, StartedFollows
      <3>5. QED BY <2>1, <3>2, <3>4
    <2>2. CASE t.do = "stop"
      <3>1. camera' = Stopped(camera) BY <2>2 DEF CameraTask
      <3>2. camera'.dev = camera.dev /\ camera'.made = camera.made /\ ~camera'.requested
        BY <1>1, <3>1 DEF Stopped, CameraState
      <3>3. QED BY <2>0, <2>2, <3>2 DEF Sane
    <2>3. CASE t.do = "device"
      <3>1. PICK c \in DeviceSet(camera, t.dev) : camera' \in IF t.prepare THEN Prepared(c) ELSE {c}
        BY <2>3 DEF CameraTask
      <3>2. t.dev \in Maybe BY <1>2 DEF Tasks
      <3>3. c \in CameraState BY <1>1, <3>2, DeviceSetFacts
      <3>4. Sane(c) /\ c.dev = t.dev /\ (Wanted(camera) => Wanted(c))
        BY <1>1, <2>0, <3>2, DeviceSetFollows
      <3>5. Sane(camera') /\ camera'.dev = c.dev /\ (Wanted(c) => Wanted(camera'))
        <4>1. CASE t.prepare
          <5>1. camera' \in Prepared(c) BY <3>1, <4>1
          <5>2. QED BY <3>3, <3>4, <5>1, PreparedFollows
        <4>2. CASE ~t.prepare
          <5>1. camera' = c BY <3>1, <4>2
          <5>2. QED BY <3>4, <5>1
        <4>3. QED BY <4>1, <4>2
      <3>6. QED BY <2>3, <3>4, <3>5
    <2>4. QED BY <1>2, <2>1, <2>2, <2>3 DEF Tasks
  <1>4. capture => Settles(tasks, D, S, w) BY DEF FollowInv, LookInv
  <1>5. asked => Settles(tasks, Wishes, Does("start"), v) BY DEF FollowInv, LookInv
  <1>6. (t \in S => w1) /\ (t \notin D /\ w => w1) BY <1>2, <1>3 DEF Setting, Does
  <1>7. (t \in Does("start") => v1) /\ (t \notin Wishes /\ v => v1)
    BY <1>2, <1>3 DEF Does, Wishes, Tasks
  <1>8. capture => Settles(tasks', D, S, w1)
    <2> HIDE DEF D, S, w, w1
    <2>1. QED BY <1>1, <1>4, <1>6, SettlesTail
  <1>9. asked => Settles(tasks', Wishes, Does("start"), v1)
    <2> HIDE DEF v, v1
    <2>1. QED BY <1>1, <1>5, <1>7, SettlesTail
  <1>10. asked' => capture' BY <1>1 DEF FollowInv, LookInv
  <1>11. LookInv'
    BY <1>1, <1>3, <1>8, <1>9, <1>10 DEF LookInv, Does, Wishes, Setting, Sane, Wanted, Settles
  <1>12. PostInv' /\ PlayInv' BY <1>1, PostInvSame, PlayInvSame DEF FollowInv
  <1>13. QED BY <1>11, <1>12 DEF FollowInv

LEMMA CameraErrorFollows ==
  ASSUME DeviceInv, FollowInv, CameraError
  PROVE  FollowInv'
  <1>1. /\ camera' = [camera EXCEPT !.requested = FALSE, !.failed = TRUE] /\ camera \in CameraState
        /\ UNCHANGED <<posts, device, selected, asked, capture, tasks>> /\ UNCHANGED <<device, audio>>
    BY DEF CameraError, manager, DeviceInv, VideoTypes
  <1>2. /\ camera'.dev = camera.dev /\ camera'.made = camera.made
        /\ ~camera'.requested /\ camera'.failed
    BY <1>1 DEF CameraState
  <1>3. Sane(camera') BY <1>2 DEF FollowInv, LookInv, Sane
  <1>4. capture => Settles(tasks, Does("device"), Setting(device[Camera]), camera'.dev = device[Camera])
    BY <1>2 DEF FollowInv, LookInv
  <1>5. asked => Settles(tasks, Wishes, Does("start"), Wanted(camera'))
    BY <1>2, Zenon DEF FollowInv, LookInv, Settles, Wanted
  <1>6. asked' => capture' BY <1>1 DEF FollowInv, LookInv
  <1>7. LookInv'
    BY <1>1, <1>3, <1>4, <1>5, <1>6 DEF LookInv, Does, Wishes, Setting, Sane, Wanted, Settles
  <1>8. PostInv' /\ PlayInv' BY <1>1, PostInvSame, PlayInvSame DEF FollowInv
  <1>9. QED BY <1>7, <1>8 DEF FollowInv

\* The constructor of CallVM posts one device of each kind: what is selected.
LEMMA FollowInitially == Init => FollowInv
  <1> SUFFICES ASSUME Init PROVE FollowInv OBVIOUS
  <1>1. PostInv
    <2>1. DeviceInv BY DeviceInitially
    <2>2. posts \in Seq(Posted) BY <2>1 DEF DeviceInv, PostTypes, Posted
    <2>3. Cardinality(Kinds) \in Nat /\ Len(posts) = Cardinality(Kinds) /\ DOMAIN posts = 1..Len(posts)
      BY <2>2, KindsCounted, LenProperties DEF Init
    <2>4. ASSUME NEW k \in Kinds
          PROVE  Settles(posts, PostsOf(k), Telling(k, selected[k]), device[k] = selected[k])
      <3>1. PICK i \in 1..Len(posts) :
              /\ posts[i] = [kind |-> k, dev |-> selected[k]]
              /\ \A j \in (1..Len(posts)) \ {i} : posts[j].kind # k
        BY <2>3 DEF Init
      <3>2. posts[i] \in Telling(k, selected[k])
        <4>1. posts[i] \in Posted BY <2>2, ElementOfSeq
        <4>2. QED BY <3>1, <4>1 DEF Telling, PostsOf
      <3>3. \A j \in i+1..Len(posts) : posts[j] \notin PostsOf(k)
        <4>1. ASSUME NEW j \in i+1..Len(posts) PROVE posts[j] \notin PostsOf(k)
          <5>1. j \in (1..Len(posts)) \ {i} BY <2>3
          <5>2. QED BY <3>1, <5>1 DEF PostsOf
        <4>2. QED BY <4>1
      <3>4. QED BY <3>2, <3>3 DEF Settles
    <2>5. QED BY <2>4 DEF PostInv
  <1>2. PlayInv BY DEF Init, PlayInv
  <1>3. LookInv
    <2>1. ~asked /\ ~capture /\ camera = NewCamera BY DEF Init
    <2>2. Sane(NewCamera) BY DEF Sane, NewCamera
    <2>3. QED BY <2>1, <2>2 DEF LookInv
  <1>4. QED BY <1>1, <1>2, <1>3 DEF FollowInv

LEMMA FollowNext == DeviceInv /\ FollowInv /\ [Next]_vars => FollowInv'
  <1> SUFFICES ASSUME DeviceInv, FollowInv, [Next]_vars PROVE FollowInv' OBVIOUS
  <1>1. CASE System \/ Gui BY <1>1, GuiFollows
  <1>2. CASE Service
    BY <1>2, HandleFollows, ClientFollows, EndFollows, PrepareFollows, EnableFollows DEF Service
  <1>3. CASE CameraTask \/ CameraError BY <1>3, CameraTaskFollows, CameraErrorFollows
  <1>4. CASE UNCHANGED vars
    <2>1. UNCHANGED <<posts, device, selected>> /\ UNCHANGED audio /\ UNCHANGED video
      BY <1>4 DEF vars, manager
    <2>2. QED BY <2>1, PostInvSame, PlayInvSame, LookInvSame DEF FollowInv
  <1>5. QED BY <1>1, <1>2, <1>3, <1>4 DEF Next

\* Once the queues of the signaling thread and of the camera's are empty, a call that
\* nothing has failed uses the selected devices, for any number of devices, kinds of
\* audio and posted calls, however often devices come and go.
THEOREM CallAlwaysFollows == Spec => []CallFollowsSelection
  <1>1. DeviceInv /\ FollowInv => CallFollowsSelection
    <2> SUFFICES ASSUME DeviceInv, FollowInv PROVE CallFollowsSelection OBVIOUS
    <2>1. ASSUME NEW k \in Kinds, Quiet(k) PROVE device[k] = selected[k]
      <3>1. posts \in Seq(Posted) BY DEF DeviceInv, PostTypes, Posted
      <3>2. \A i \in 1..Len(posts) : posts[i] \notin Telling(k, selected[k])
        BY <2>1 DEF Quiet, Telling, PostsOf
      <3>3. QED BY <3>2 DEF FollowInv, PostInv, Settles
    <2>2. ASSUME NEW k \in Audio, Quiet(k), client = "ready", ~adm[k].failed
          PROVE  IF selected[k] = None THEN call => adm[k].on \/ adm[k].resume
                 ELSE adm[k].dev = selected[k] /\ (call => adm[k].on)
      <3>1. device[k] = selected[k] BY <2>1, <2>2 DEF Kinds
      <3>2. Runs(adm[k], device[k]) BY <2>2 DEF FollowInv, PlayInv
      <3>3. QED BY <3>1, <3>2 DEF Runs
    <2>3. ASSUME Quiet(Camera), capture, tasks = <<>>, ~camera.failed
          PROVE  /\ camera.dev = selected[Camera]
                 /\ asked => camera.requested /\ (camera.made <=> selected[Camera] # None)
      <3>1. device[Camera] = selected[Camera] BY <2>1, <2>3 DEF Kinds
      <3>2. camera.dev = device[Camera] BY <2>3, SettlesEmpty DEF FollowInv, LookInv
      <3>3. asked => Wanted(camera) BY <2>3, SettlesEmpty DEF FollowInv, LookInv
      <3>4. asked => camera.requested BY <2>3, <3>3 DEF Wanted
      <3>5. Sane(camera) BY DEF FollowInv, LookInv
      <3>6. QED BY <3>1, <3>2, <3>4, <3>5 DEF Sane
    <2>4. QED BY <2>2, <2>3 DEF CallFollowsSelection
  <1>2. QED BY <1>1, DeviceInductive, FollowInitially, FollowNext, PTL DEF Spec
=============================================================================
