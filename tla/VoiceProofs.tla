----------------------------- MODULE VoiceProofs -----------------------------
(***************************************************************************)
(* The two parts that use the microphone.                                  *)
(*                                                                         *)
(* VoiceRecording, for every number of recordings, conversations and       *)
(* pieces of audio.  VoiceInv says that the draft belongs to the open      *)
(* conversation and to the current request, so that a completion of the    *)
(* encoder finds either that draft or no recipient.                        *)
(*                                                                         *)
(* Calls, for any parties, backlog and number of calls and sessions.  What *)
(* is said of the client alone (OnlyInCall, NothingAstray) depends on what *)
(* is still in the queues and in flight: AloneInv says that all of it is   *)
(* of one call, and ClosedInv that a closed window has its end on its way. *)
(***************************************************************************)
EXTENDS VoiceRecording, Calls, SequenceTheorems, TLAPS

\* startVoiceRecording() without a conversation.
LEMMA StartNowhereKeeps ==
  ASSUME VoiceInv, StartNowhere
  PROVE  VoiceInv'
<1>1. RecorderTypes'
  BY VoiceAssumption DEF VoiceInv, RecorderTypes, Takes, StartNowhere, recorder, composer, ghosts
<1>2. ComposerTypes'
  BY VoiceAssumption DEF VoiceInv, RecorderTypes, ComposerTypes, Takes, NoFile, Kinds,
       StartNowhere, recorder, composer, ghosts
<1>3. SentTypes'
  BY VoiceAssumption DEF VoiceInv, RecorderTypes, ComposerTypes, SentTypes, Takes, StartNowhere,
       recorder, composer, ghosts
<1>4. RecorderInv'
  BY VoiceAssumption DEF VoiceInv, RecorderInv, RecorderTypes, Takes, StartNowhere, recorder,
       composer, ghosts
<1>5. DraftInv'
  BY VoiceAssumption DEF VoiceInv, DraftInv, RecorderTypes, ComposerTypes, SentTypes, Takes,
       NoFile, RecorderInv, KeptInv, Busy, StartNowhere, recorder, composer, ghosts
<1>6. KeptInv'
  BY VoiceAssumption DEF VoiceInv, KeptInv, RecorderTypes, ComposerTypes, Takes, DraftInv,
       RecorderInv, Busy, NoFile, StartNowhere, recorder, composer, ghosts
<1>7. SentInv'
  BY VoiceAssumption DEF VoiceInv, SentInv, SentIsFinal, RightRecipient, OnlyWanted, KeptInv,
       DraftInv, RecorderTypes, SentTypes, Takes, Busy, StartNowhere, recorder, composer, ghosts
<1>8. ScreenInv'
  BY VoiceAssumption DEF VoiceInv, ScreenInv, ErrorIsCurrent, NothingWaits, RecorderTypes,
       ComposerTypes, DraftInv, NoFile, RecorderInv, StartNowhere, recorder, composer, ghosts
<1> QED
  BY <1>1, <1>2, <1>3, <1>4, <1>5, <1>6, <1>7, <1>8 DEF VoiceInv

\* start() begins the only request that nothing refers to yet.
LEMMA StartKeeps ==
  ASSUME VoiceInv, Start
  PROVE  VoiceInv'
<1>1. RecorderTypes'
  <2>1. request' \in {request, request + 1} /\ request + 1 \in Takes
    BY VoiceAssumption DEF VoiceInv, RecorderTypes, Takes, Start
  <2>2. asks' \in {asks, asks \cup {request + 1}} /\ timers' \in {timers, timers \cup {request + 1}}
    BY DEF Start, FailEarly, FailLate, BeginRecording, Failed
  <2>3. request' \in Takes /\ asks' \subseteq Takes /\ timers' \subseteq Takes
    BY <2>1, <2>2 DEF VoiceInv, RecorderTypes
  <2>4. audio' = 0 /\ kept' = kept /\ job' \in {job, None}
    BY DEF Start, FailEarly, FailLate, BeginRecording, Failed
  <2>5. /\ state' \in {"Idle", "Starting", "Recording", "Stopping"}
        /\ session' \in BOOLEAN /\ discard' \in BOOLEAN /\ error' \in BOOLEAN /\ encodingFinal' \in BOOLEAN
    BY DEF VoiceInv, RecorderTypes, Start, FailEarly, FailLate, BeginRecording, Failed
  <2> QED
    BY <2>3, <2>4, <2>5, VoiceAssumption DEF VoiceInv, RecorderTypes
<1>2. ComposerTypes'
  <2>1. file' \in [kind : Kinds, take : Takes, audio : 0..MaxAudio]
    BY VoiceAssumption DEF VoiceInv, RecorderTypes, ComposerTypes, NoFile, Kinds, Takes, Start,
         FailEarly, FailLate, BeginRecording, Failed
  <2>2. whenReady' \in BOOLEAN
    BY DEF VoiceInv, ComposerTypes, Start, FailEarly, FailLate, BeginRecording, Failed
  <2>3. /\ active' \in Conversations \cup {None} /\ recipient' \in Conversations \cup {None}
        /\ uploads' \subseteq Takes /\ latest' \in Takes \cup {None} /\ sendError' \in Takes \cup {None}
    BY DEF VoiceInv, ComposerTypes, Start, FailEarly, FailLate, BeginRecording, Failed
  <2> QED
    BY <2>1, <2>2, <2>3 DEF ComposerTypes
<1>3. SentTypes'
  BY DEF VoiceInv, SentTypes, ComposerTypes, Start
<1>4. RecorderInv'
  <2>1. ~session /\ ~encodingFinal /\ job = None /\ state = "Idle"
    BY DEF VoiceInv, RecorderInv, Start, Busy
  <2>2. request + 1 \in 1..MaxStarts
    BY VoiceAssumption DEF VoiceInv, RecorderTypes, Takes, Start
  <2> QED
    BY <2>1, <2>2 DEF RecorderInv, Start, FailEarly, FailLate, BeginRecording, Failed
<1>5. DraftInv'
  BY VoiceAssumption DEF VoiceInv, DraftInv, RecorderTypes, ComposerTypes, SentTypes, Takes,
       NoFile, RecorderInv, KeptInv, Busy, Start, FailEarly, FailLate, BeginRecording, Failed
<1>6. KeptInv'
  <2>1. request' \in {request, request + 1} /\ kept' = kept /\ sent' = sent /\ withdrawn' = withdrawn
    BY DEF Start
  <2>2. state' # "Idle" \/ file'.kind # "none" => request' = request + 1
    BY DEF NoFile, Start, FailEarly, FailLate, BeginRecording, Failed
  <2> QED
    BY <2>1, <2>2 DEF VoiceInv, KeptInv, RecorderTypes, SentTypes, Takes, Busy
<1>7. SentInv'
  <2>1. \A i \in 1..Len(sent) : sent[i].take \in kept /\ sent[i].take # request + 1
    BY DEF VoiceInv, KeptInv, RecorderTypes, Takes
  <2>2. /\ sent' = sent /\ kept' = kept /\ asked' = asked /\ withdrawn' = withdrawn
        /\ madeFor' = madeFor \/ madeFor' = [madeFor EXCEPT ![request + 1] = active]
    BY DEF Start
  <2> QED
    BY <2>1, <2>2 DEF VoiceInv, SentInv, SentIsFinal, RightRecipient, OnlyWanted, RecorderTypes,
         SentTypes
<1>8. ScreenInv'
  BY VoiceAssumption DEF VoiceInv, ScreenInv, ErrorIsCurrent, NothingWaits, RecorderTypes,
       ComposerTypes, DraftInv, NoFile, RecorderInv, Start, FailEarly, FailLate, BeginRecording,
       Failed
<1> QED
  BY <1>1, <1>2, <1>3, <1>4, <1>5, <1>6, <1>7, <1>8 DEF VoiceInv

\* A preview job is about audio that exists.
LEMMA PauseKeeps ==
  ASSUME VoiceInv, Pause
  PROVE  VoiceInv'
<1>1. RecorderTypes'
  <2>1. job' \in {None} \cup [kind : {"preview", "final"}, audio : 1..MaxAudio]
    BY DEF VoiceInv, RecorderTypes, Pause, Encode
  <2>2. error' \in BOOLEAN
    BY DEF VoiceInv, RecorderTypes, Pause, Failed
  <2> QED
    BY <2>1, <2>2 DEF VoiceInv, RecorderTypes, Pause
<1>2. ComposerTypes'
  BY VoiceAssumption DEF VoiceInv, RecorderTypes, ComposerTypes, Takes, NoFile, Kinds, Pause,
       Failed, Encode, ghosts
<1>3. SentTypes'
  BY VoiceAssumption DEF VoiceInv, RecorderTypes, ComposerTypes, SentTypes, Takes, Pause, Failed,
       Encode, ghosts
<1>4. RecorderInv'
  BY VoiceAssumption DEF VoiceInv, RecorderInv, RecorderTypes, Takes, Pause, Failed, Encode, ghosts
<1>5. DraftInv'
  BY VoiceAssumption DEF VoiceInv, DraftInv, RecorderTypes, ComposerTypes, SentTypes, Takes,
       NoFile, RecorderInv, KeptInv, Busy, Pause, Failed, Encode, ghosts
<1>6. KeptInv'
  BY VoiceAssumption DEF VoiceInv, KeptInv, RecorderTypes, ComposerTypes, Takes, DraftInv,
       RecorderInv, Busy, NoFile, Pause, Failed, Encode, ghosts
<1>7. SentInv'
  BY VoiceAssumption DEF VoiceInv, SentInv, SentIsFinal, RightRecipient, OnlyWanted, KeptInv,
       DraftInv, RecorderTypes, SentTypes, Takes, Busy, Pause, Failed, Encode, ghosts
<1>8. ScreenInv'
  BY VoiceAssumption DEF VoiceInv, ScreenInv, ErrorIsCurrent, NothingWaits, RecorderTypes,
       ComposerTypes, DraftInv, NoFile, RecorderInv, Pause, Failed, Encode, ghosts
<1> QED
  BY <1>1, <1>2, <1>3, <1>4, <1>5, <1>6, <1>7, <1>8 DEF VoiceInv

\* resume() drops the preview.
LEMMA ResumeKeeps ==
  ASSUME VoiceInv, Resume
  PROVE  VoiceInv'
<1>1. RecorderTypes'
  BY VoiceAssumption DEF VoiceInv, RecorderTypes, Takes, Resume, FailLate, Failed, ghosts
<1>2. ComposerTypes'
  <2>1. file' \in [kind : Kinds, take : Takes, audio : 0..MaxAudio]
    BY VoiceAssumption DEF VoiceInv, RecorderTypes, ComposerTypes, NoFile, Kinds, Takes, Resume,
         FailLate, Failed, ghosts
  <2>2. whenReady' \in BOOLEAN
    BY DEF VoiceInv, ComposerTypes, Resume, FailLate, Failed, ghosts
  <2>3. /\ active' \in Conversations \cup {None} /\ recipient' \in Conversations \cup {None}
        /\ uploads' \subseteq Takes /\ latest' \in Takes \cup {None} /\ sendError' \in Takes \cup {None}
    BY DEF VoiceInv, ComposerTypes, Resume, FailLate, Failed, ghosts
  <2> QED
    BY <2>1, <2>2, <2>3 DEF ComposerTypes
<1>3. SentTypes'
  BY VoiceAssumption DEF VoiceInv, RecorderTypes, ComposerTypes, SentTypes, Takes, Resume,
       FailLate, Failed, ghosts
<1>4. RecorderInv'
  BY VoiceAssumption DEF VoiceInv, RecorderInv, RecorderTypes, Takes, Resume, FailLate, Failed,
       ghosts
<1>5. DraftInv'
  BY VoiceAssumption DEF VoiceInv, DraftInv, RecorderTypes, ComposerTypes, SentTypes, Takes,
       NoFile, RecorderInv, KeptInv, Busy, Resume, FailLate, Failed, ghosts
<1>6. KeptInv'
  BY VoiceAssumption DEF VoiceInv, KeptInv, RecorderTypes, ComposerTypes, Takes, DraftInv,
       RecorderInv, Busy, NoFile, Resume, FailLate, Failed, ghosts
<1>7. SentInv'
  BY VoiceAssumption DEF VoiceInv, SentInv, SentIsFinal, RightRecipient, OnlyWanted, KeptInv,
       DraftInv, RecorderTypes, SentTypes, Takes, Busy, Resume, FailLate, Failed, ghosts
<1>8. ScreenInv'
  BY VoiceAssumption DEF VoiceInv, ScreenInv, ErrorIsCurrent, NothingWaits, RecorderTypes,
       ComposerTypes, DraftInv, NoFile, RecorderInv, Resume, FailLate, Failed, ghosts
<1> QED
  BY <1>1, <1>2, <1>3, <1>4, <1>5, <1>6, <1>7, <1>8 DEF VoiceInv

\* Audio is added to the current recording only.
LEMMA CaptureKeeps ==
  ASSUME VoiceInv, Capture
  PROVE  VoiceInv'
<1>1. RecorderTypes'
  BY VoiceAssumption DEF VoiceInv, RecorderTypes, Takes, Capture, composer, ghosts
<1>2. ComposerTypes'
  BY VoiceAssumption DEF VoiceInv, RecorderTypes, ComposerTypes, Takes, NoFile, Kinds, Capture,
       composer, ghosts
<1>3. SentTypes'
  BY VoiceAssumption DEF VoiceInv, RecorderTypes, ComposerTypes, SentTypes, Takes, Capture,
       composer, ghosts
<1>4. RecorderInv'
  BY VoiceAssumption DEF VoiceInv, RecorderInv, RecorderTypes, Takes, Capture, composer, ghosts
<1>5. DraftInv'
  BY VoiceAssumption DEF VoiceInv, DraftInv, RecorderTypes, ComposerTypes, SentTypes, Takes,
       NoFile, RecorderInv, KeptInv, Busy, Capture, composer, ghosts
<1>6. KeptInv'
  BY VoiceAssumption DEF VoiceInv, KeptInv, RecorderTypes, ComposerTypes, Takes, DraftInv,
       RecorderInv, Busy, NoFile, Capture, composer, ghosts
<1>7. SentInv'
  BY VoiceAssumption DEF VoiceInv, SentInv, SentIsFinal, RightRecipient, OnlyWanted, KeptInv,
       DraftInv, RecorderTypes, SentTypes, Takes, Busy, Capture, composer, ghosts
<1>8. ScreenInv'
  BY VoiceAssumption DEF VoiceInv, ScreenInv, ErrorIsCurrent, NothingWaits, RecorderTypes,
       ComposerTypes, DraftInv, NoFile, RecorderInv, Capture, composer, ghosts
<1> QED
  BY <1>1, <1>2, <1>3, <1>4, <1>5, <1>6, <1>7, <1>8 DEF VoiceInv

\* A recorder whose microphone fails discards its recording.
LEMMA SourceFailsKeeps ==
  ASSUME VoiceInv, SourceFails
  PROVE  VoiceInv'
<1>1. RecorderTypes'
  BY VoiceAssumption DEF VoiceInv, RecorderTypes, Takes, SourceFails, FailLate, Failed, ghosts
<1>2. ComposerTypes'
  BY VoiceAssumption DEF VoiceInv, RecorderTypes, ComposerTypes, Takes, NoFile, Kinds,
       SourceFails, FailLate, Failed, ghosts
<1>3. SentTypes'
  BY VoiceAssumption DEF VoiceInv, RecorderTypes, ComposerTypes, SentTypes, Takes, SourceFails,
       FailLate, Failed, ghosts
<1>4. RecorderInv'
  BY VoiceAssumption DEF VoiceInv, RecorderInv, RecorderTypes, Takes, SourceFails, FailLate,
       Failed, ghosts
<1>5. DraftInv'
  BY VoiceAssumption DEF VoiceInv, DraftInv, RecorderTypes, ComposerTypes, SentTypes, Takes,
       NoFile, RecorderInv, KeptInv, Busy, SourceFails, FailLate, Failed, ghosts
<1>6. KeptInv'
  BY VoiceAssumption DEF VoiceInv, KeptInv, RecorderTypes, ComposerTypes, Takes, DraftInv,
       RecorderInv, Busy, NoFile, SourceFails, FailLate, Failed, ghosts
<1>7. SentInv'
  BY VoiceAssumption DEF VoiceInv, SentInv, SentIsFinal, RightRecipient, OnlyWanted, KeptInv,
       DraftInv, RecorderTypes, SentTypes, Takes, Busy, SourceFails, FailLate, Failed, ghosts
<1>8. ScreenInv'
  BY VoiceAssumption DEF VoiceInv, ScreenInv, ErrorIsCurrent, NothingWaits, RecorderTypes,
       ComposerTypes, DraftInv, NoFile, RecorderInv, SourceFails, FailLate, Failed, ghosts
<1> QED
  BY <1>1, <1>2, <1>3, <1>4, <1>5, <1>6, <1>7, <1>8 DEF VoiceInv

\* Canceling, opening another conversation and resetting all drop the draft.
LEMMA LeaveKeeps ==
  ASSUME VoiceInv, NEW ready \in {FALSE, whenReady}, active' \in Conversations \cup {None},
         DropDraft(ready), Leave
  PROVE  VoiceInv'
<1>1. RecorderTypes'
  <2>1. CASE state = "Idle"
    BY <2>1 DEF VoiceInv, RecorderTypes, DropDraft, RecorderCancel, Withdraw, Canceled, Leave
  <2>2. CASE state # "Idle" /\ session
    BY <2>2 DEF VoiceInv, RecorderTypes, DropDraft, RecorderCancel, Withdraw, Canceled, Leave
  <2>3. CASE state = "Starting"
    <3>1. ~session /\ request + 1 \in Takes
      BY <2>3, VoiceAssumption DEF VoiceInv, RecorderInv, RecorderTypes, Takes
    <3> QED
      BY <2>3, <3>1 DEF VoiceInv, RecorderTypes, DropDraft, RecorderCancel, Withdraw, Canceled,
           Leave
  <2> QED
    BY <2>1, <2>2, <2>3 DEF VoiceInv, RecorderTypes, RecorderInv
<1>2. ComposerTypes'
  <2>1. file' \in [kind : Kinds, take : Takes, audio : 0..MaxAudio]
    BY VoiceAssumption DEF VoiceInv, RecorderTypes, ComposerTypes, NoFile, Kinds, Takes,
         DropDraft, RecorderCancel, Withdraw, Canceled, Leave
  <2>2. whenReady' \in BOOLEAN
    BY DEF VoiceInv, ComposerTypes, DropDraft, RecorderCancel, Withdraw, Canceled, Leave
  <2>3. /\ active' \in Conversations \cup {None} /\ recipient' \in Conversations \cup {None}
        /\ uploads' \subseteq Takes /\ latest' \in Takes \cup {None} /\ sendError' \in Takes \cup {None}
    BY DEF VoiceInv, ComposerTypes, DropDraft, RecorderCancel, Withdraw, Canceled, Leave
  <2> QED
    BY <2>1, <2>2, <2>3 DEF ComposerTypes
<1>3. SentTypes'
  BY VoiceAssumption DEF VoiceInv, RecorderTypes, ComposerTypes, SentTypes, Takes, DropDraft,
       RecorderCancel, Withdraw, Canceled, Leave
<1>4. RecorderInv'
  BY VoiceAssumption DEF VoiceInv, RecorderInv, RecorderTypes, Takes, DropDraft, RecorderCancel,
       Withdraw, Canceled, Leave
<1>5. DraftInv'
  BY VoiceAssumption DEF VoiceInv, DraftInv, RecorderTypes, ComposerTypes, SentTypes, Takes,
       NoFile, RecorderInv, KeptInv, Busy, DropDraft, RecorderCancel, Withdraw, Canceled, Leave
<1>6. KeptInv'
  <2>1. request' \in {request, request + 1} /\ kept' = kept /\ sent' = sent /\ file' = NoFile
    BY DEF DropDraft, RecorderCancel, Withdraw, Canceled, Leave
  <2>2. withdrawn' \in {withdrawn, withdrawn \cup {request}}
    BY DEF DropDraft, RecorderCancel, Withdraw, Canceled, Leave
  <2>3. state' # "Idle" => state # "Idle" /\ request' = request
    BY DEF VoiceInv, RecorderTypes, DropDraft, RecorderCancel, Withdraw, Canceled, Leave
  <2>4. file'.kind = "none"
    BY <2>1 DEF NoFile
  <2>5. /\ request \in Nat /\ request' \in Nat /\ request <= request'
        /\ \A t \in kept : t \in Nat
        /\ \A t \in withdrawn : t \in Nat
    BY <2>1, VoiceAssumption DEF VoiceInv, RecorderTypes, SentTypes, Takes
  <2>6. \A t \in kept' : 0 < t /\ t <= request'
    BY <2>1, <2>5 DEF VoiceInv, KeptInv
  <2>7. \A t \in withdrawn' : t <= request'
    BY <2>2, <2>5 DEF VoiceInv, KeptInv
  <2>8. Busy' => request' \notin kept'
    BY <2>1, <2>3 DEF VoiceInv, KeptInv, Busy
  <2>9. \A i \in 1..Len(sent') : sent'[i].take \in kept'
    BY <2>1 DEF VoiceInv, KeptInv
  <2> QED
    BY <2>4, <2>6, <2>7, <2>8, <2>9 DEF KeptInv
<1>7. SentInv'
  BY VoiceAssumption DEF VoiceInv, SentInv, SentIsFinal, RightRecipient, OnlyWanted, KeptInv,
       DraftInv, RecorderTypes, SentTypes, Takes, Busy, DropDraft, RecorderCancel, Withdraw,
       Canceled, Leave
<1>8. ScreenInv'
  <2>1. error' = error /\ sendError' = None
    BY DEF DropDraft, Leave
  <2>3. whenReady' = ready \/ whenReady' = FALSE
    BY DEF VoiceInv, RecorderTypes, DropDraft, RecorderCancel, Canceled
  <2>4. whenReady' => whenReady
    <3>1. CASE whenReady' = FALSE
      BY <3>1
    <3>2. CASE whenReady' = ready /\ ready = whenReady
      BY <3>2
    <3> QED
      BY <2>3, <3>1, <3>2
  <2>2. state' = "Idle" => state = "Idle" \/ ~whenReady'
    BY DEF DropDraft, RecorderCancel, Withdraw, Canceled, Leave
  <2> QED
    BY <2>1, <2>2, <2>4 DEF VoiceInv, ScreenInv, ErrorIsCurrent, NothingWaits, ComposerTypes
<1> QED
  BY <1>1, <1>2, <1>3, <1>4, <1>5, <1>6, <1>7, <1>8 DEF VoiceInv

\* A late answer to the permission question changes nothing.
LEMMA PermissionKeeps ==
  ASSUME VoiceInv, NEW r \in asks, NEW granted \in BOOLEAN, Permission(r, granted)
  PROVE  VoiceInv'
<1>1. RecorderTypes'
  BY VoiceAssumption DEF VoiceInv, RecorderTypes, Takes, Permission, FailEarly, FailLate,
       BeginRecording, Failed, ghosts
<1>2. ComposerTypes'
  <2>1. file' \in [kind : Kinds, take : Takes, audio : 0..MaxAudio]
    BY VoiceAssumption DEF VoiceInv, RecorderTypes, ComposerTypes, NoFile, Kinds, Takes,
         Permission, FailEarly, FailLate, BeginRecording, Failed, ghosts
  <2>2. whenReady' \in BOOLEAN
    BY DEF VoiceInv, ComposerTypes, Permission, FailEarly, FailLate, BeginRecording, Failed, ghosts
  <2>3. /\ active' \in Conversations \cup {None} /\ recipient' \in Conversations \cup {None}
        /\ uploads' \subseteq Takes /\ latest' \in Takes \cup {None} /\ sendError' \in Takes \cup {None}
    BY DEF VoiceInv, ComposerTypes, Permission, FailEarly, FailLate, BeginRecording, Failed, ghosts
  <2> QED
    BY <2>1, <2>2, <2>3 DEF ComposerTypes
<1>3. SentTypes'
  BY VoiceAssumption DEF VoiceInv, RecorderTypes, ComposerTypes, SentTypes, Takes, Permission,
       FailEarly, FailLate, BeginRecording, Failed, ghosts
<1>4. RecorderInv'
  BY VoiceAssumption DEF VoiceInv, RecorderInv, RecorderTypes, Takes, Permission, FailEarly,
       FailLate, BeginRecording, Failed, ghosts
<1>5. DraftInv'
  BY VoiceAssumption DEF VoiceInv, DraftInv, RecorderTypes, ComposerTypes, SentTypes, Takes,
       NoFile, RecorderInv, KeptInv, Busy, Permission, FailEarly, FailLate, BeginRecording,
       Failed, ghosts
<1>6. KeptInv'
  BY VoiceAssumption DEF VoiceInv, KeptInv, RecorderTypes, ComposerTypes, Takes, DraftInv,
       RecorderInv, Busy, NoFile, Permission, FailEarly, FailLate, BeginRecording, Failed, ghosts
<1>7. SentInv'
  BY VoiceAssumption DEF VoiceInv, SentInv, SentIsFinal, RightRecipient, OnlyWanted, KeptInv,
       DraftInv, RecorderTypes, SentTypes, Takes, Busy, Permission, FailEarly, FailLate,
       BeginRecording, Failed, ghosts
<1>8. ScreenInv'
  BY VoiceAssumption DEF VoiceInv, ScreenInv, ErrorIsCurrent, NothingWaits, RecorderTypes,
       ComposerTypes, DraftInv, NoFile, RecorderInv, Permission, FailEarly, FailLate,
       BeginRecording, Failed, ghosts
<1> QED
  BY <1>1, <1>2, <1>3, <1>4, <1>5, <1>6, <1>7, <1>8 DEF VoiceInv

\* The end of an upload touches the error of the last send only.
LEMMA UploadEndsKeeps ==
  ASSUME VoiceInv, NEW t \in uploads, NEW ok \in BOOLEAN, UploadEnds(t, ok)
  PROVE  VoiceInv'
<1>1. RecorderTypes'
  BY VoiceAssumption DEF VoiceInv, RecorderTypes, Takes, UploadEnds, recorder, composer, ghosts
<1>2. ComposerTypes'
  BY VoiceAssumption DEF VoiceInv, RecorderTypes, ComposerTypes, Takes, NoFile, Kinds, UploadEnds,
       recorder, composer, ghosts
<1>3. SentTypes'
  BY VoiceAssumption DEF VoiceInv, RecorderTypes, ComposerTypes, SentTypes, Takes, UploadEnds,
       recorder, composer, ghosts
<1>4. RecorderInv'
  BY VoiceAssumption DEF VoiceInv, RecorderInv, RecorderTypes, Takes, UploadEnds, recorder,
       composer, ghosts
<1>5. DraftInv'
  BY VoiceAssumption DEF VoiceInv, DraftInv, RecorderTypes, ComposerTypes, SentTypes, Takes,
       NoFile, RecorderInv, KeptInv, Busy, UploadEnds, recorder, composer, ghosts
<1>6. KeptInv'
  BY VoiceAssumption DEF VoiceInv, KeptInv, RecorderTypes, ComposerTypes, Takes, DraftInv,
       RecorderInv, Busy, NoFile, UploadEnds, recorder, composer, ghosts
<1>7. SentInv'
  BY VoiceAssumption DEF VoiceInv, SentInv, SentIsFinal, RightRecipient, OnlyWanted, KeptInv,
       DraftInv, RecorderTypes, SentTypes, Takes, Busy, UploadEnds, recorder, composer, ghosts
<1>8. ScreenInv'
  BY VoiceAssumption DEF VoiceInv, ScreenInv, ErrorIsCurrent, NothingWaits, RecorderTypes,
       ComposerTypes, DraftInv, NoFile, RecorderInv, UploadEnds, recorder, composer, ghosts
<1> QED
  BY <1>1, <1>2, <1>3, <1>4, <1>5, <1>6, <1>7, <1>8 DEF VoiceInv

\* The encoder starts on the final file, or nothing but the timers changes.
LEMMA EncoderKeeps ==
  ASSUME VoiceInv, timers' \subseteq Takes,
         UNCHANGED <<state, session, request, asks, discard, error, audio, kept, composer, ghosts>>,
         \/ UNCHANGED <<encodingFinal, job>>
         \/ /\ session /\ state = "Stopping" /\ encodingFinal' = TRUE
            /\ job' \in [kind : {"preview", "final"}, audio : 1..MaxAudio]
  PROVE  VoiceInv'
<1>1. RecorderTypes' /\ RecorderInv'
  <2>1. job' \in {None} \cup [kind : {"preview", "final"}, audio : 1..MaxAudio] /\ encodingFinal' \in BOOLEAN
    BY DEF VoiceInv, RecorderTypes
  <2>2. RecorderTypes'
    BY <2>1 DEF VoiceInv, RecorderTypes
  <2>3. (job' # None => session) /\ (encodingFinal' => state = "Stopping")
    BY DEF VoiceInv, RecorderInv
  <2> QED
    BY <2>2, <2>3 DEF VoiceInv, RecorderInv
<1>2. ComposerTypes' /\ SentTypes'
  BY DEF VoiceInv, ComposerTypes, SentTypes, composer, ghosts
<1>3. DraftInv' /\ KeptInv'
  BY DEF VoiceInv, DraftInv, KeptInv, Busy, NoFile, composer, ghosts
<1>4. SentInv' /\ ScreenInv'
  BY DEF VoiceInv, SentInv, SentIsFinal, RightRecipient, OnlyWanted, ScreenInv, ErrorIsCurrent,
       NothingWaits, NoFile, composer, ghosts
<1> QED
  BY <1>1, <1>2, <1>3, <1>4 DEF VoiceInv

\* What handing over one more voice message does to the queue.
LEMMA SentGrows ==
  ASSUME VoiceInv, NEW x \in [take : Takes, kind : {"final"}, to : Conversations],
         sent' = Append(sent, x), x.take \in kept', kept \subseteq kept',
         x.take \in asked', asked \subseteq asked', x.take \notin withdrawn, withdrawn' = withdrawn,
         madeFor' = madeFor, x.to = madeFor[x.take],
         \A i \in 1..Len(sent) : sent[i].take # x.take
  PROVE  SentInv' /\ sent' \in Seq([take : Takes, kind : Kinds, to : Conversations])
                  /\ \A i \in 1..Len(sent') : sent'[i].take \in kept'
<1>1. sent \in Seq([take : Takes, kind : Kinds, to : Conversations]) /\ x \in [take : Takes, kind : Kinds, to : Conversations]
  BY DEF VoiceInv, SentTypes, Kinds
<1>2. /\ sent' \in Seq([take : Takes, kind : Kinds, to : Conversations])
      /\ Len(sent') = Len(sent) + 1 /\ sent'[Len(sent) + 1] = x
      /\ \A i \in 1..Len(sent) : sent'[i] = sent[i]
  BY <1>1, AppendProperties
<1>3. Len(sent) \in Nat
  BY <1>1, LenProperties
<1>4. \A i \in 1..Len(sent') : i \in 1..Len(sent) \/ i = Len(sent) + 1
  BY <1>2, <1>3
<1>5. /\ x.kind = "final"
      /\ \A i \in 1..Len(sent) : /\ sent[i].kind = "final" /\ sent[i].take \in kept
                                 /\ sent[i].to = madeFor[sent[i].take] /\ sent[i].take \in asked \ withdrawn
  BY DEF VoiceInv, SentInv, SentIsFinal, RightRecipient, OnlyWanted
<1>6. \A i \in 1..Len(sent') : /\ sent'[i].kind = "final" /\ sent'[i].take \in kept'
                               /\ sent'[i].to = madeFor'[sent'[i].take] /\ sent'[i].take \in asked' \ withdrawn'
  BY <1>2, <1>4, <1>5
<1>7. \A i, j \in 1..Len(sent') : sent'[i].take = sent'[j].take => i = j
  BY <1>2, <1>4 DEF VoiceInv, SentInv, OnlyWanted
<1> QED
  BY <1>2, <1>6, <1>7 DEF SentInv, SentIsFinal, RightRecipient, OnlyWanted

\* completeRecording(), whether the recording was saved or not.
LEMMA CompleteKeeps ==
  ASSUME VoiceInv, NEW saved \in BOOLEAN, session, state = "Stopping", saved => ~discard, Complete(saved),
         timers' \subseteq timers, UNCHANGED <<request, asks, discard, audio, active, ghosts>>
  PROVE  VoiceInv'
<1>1. request \in 1..MaxStarts /\ request \notin kept /\ request \in Takes
  BY DEF VoiceInv, RecorderInv, KeptInv, Busy, RecorderTypes
<1>2. RecorderTypes' /\ RecorderInv'
  BY <1>1 DEF VoiceInv, RecorderTypes, RecorderInv, Complete, Failed, Canceled
<1>3. kept \subseteq kept' /\ kept' \subseteq kept \cup {request}
  BY DEF Complete
<1>4. CASE ~saved
  <2>1. kept' = kept /\ state' = "Idle" /\ UNCHANGED <<file, recipient, sent, uploads, latest, sendError, active, request, madeFor, asked, withdrawn>>
    BY <1>4 DEF Complete, ghosts
  <2>2. whenReady' \in BOOLEAN /\ (whenReady' => error')
    BY <1>4 DEF Complete, Failed, Canceled, VoiceInv, ComposerTypes, RecorderTypes
  <2>3. ComposerTypes' /\ SentTypes'
    BY <2>1, <2>2 DEF VoiceInv, ComposerTypes, SentTypes
  <2>4. DraftInv'
    BY <2>1 DEF VoiceInv, DraftInv, Busy, NoFile
  <2>5. KeptInv'
    BY <2>1 DEF VoiceInv, KeptInv, Busy
  <2>6. SentInv' /\ ScreenInv'
    BY <2>1, <2>2 DEF VoiceInv, SentInv, SentIsFinal, RightRecipient, OnlyWanted, ScreenInv,
         ErrorIsCurrent, NothingWaits, NoFile
  <2> QED
    BY <1>2, <2>3, <2>4, <2>5, <2>6 DEF VoiceInv
<1>5. CASE saved
  <2> DEFINE final == [kind |-> "final", take |-> request, audio |-> audio]
  <2>1. /\ recipient # None /\ recipient = active /\ madeFor[request] = recipient /\ latest = None
        /\ request \in asked /\ request \notin withdrawn
    BY <1>5 DEF VoiceInv, DraftInv, Busy
  <2>2. /\ state' = "Idle" /\ kept' = kept \cup {request} /\ whenReady' = FALSE /\ sendError' = None
        /\ UNCHANGED <<active, request, madeFor, asked, withdrawn>>
    BY <1>5, <2>1 DEF Complete, RecordingReady, SendNow, ghosts
  <2>3. final \in [kind : Kinds, take : Takes, audio : 0..MaxAudio] /\ recipient \in Conversations
    BY <1>1, <2>1 DEF Kinds, VoiceInv, RecorderTypes, ComposerTypes
  <2>4. \A i \in 1..Len(sent) : sent[i].take # request
    BY <1>1 DEF VoiceInv, KeptInv
  <2>5. CASE file' = final /\ UNCHANGED <<recipient, sent, uploads, latest>>
    <3>1. ComposerTypes' /\ SentTypes'
      BY <2>2, <2>3, <2>5 DEF VoiceInv, ComposerTypes, SentTypes
    <3>2. DraftInv' /\ KeptInv'
      BY <1>1, <2>1, <2>2, <2>4, <2>5 DEF VoiceInv, DraftInv, KeptInv, Busy, NoFile,
           RecorderTypes, Takes
    <3>3. SentInv' /\ ScreenInv'
      BY <2>2, <2>5 DEF VoiceInv, SentInv, SentIsFinal, RightRecipient, OnlyWanted, ScreenInv,
           ErrorIsCurrent, NothingWaits
    <3> QED
      BY <1>2, <3>1, <3>2, <3>3 DEF VoiceInv
  <2>6. CASE /\ sent' = Append(sent, [take |-> request, kind |-> "final", to |-> recipient])
             /\ uploads' = uploads \cup {request} /\ latest' = request /\ file' = NoFile /\ recipient' = None
    <3> DEFINE x == [take |-> request, kind |-> "final", to |-> recipient]
    <3>1. /\ x \in [take : Takes, kind : {"final"}, to : Conversations]
          /\ x.take \in kept' /\ x.take \in asked' /\ x.take \notin withdrawn /\ x.to = madeFor[x.take]
          /\ \A i \in 1..Len(sent) : sent[i].take # x.take
      BY <1>1, <2>1, <2>2, <2>3, <2>4
    <3>2. SentInv' /\ sent' \in Seq([take : Takes, kind : Kinds, to : Conversations])
                   /\ \A i \in 1..Len(sent') : sent'[i].take \in kept'
      BY <1>3, <2>2, <2>6, <3>1, SentGrows
    <3>3. ComposerTypes'
      <4>1. NoFile \in [kind : Kinds, take : Takes, audio : 0..MaxAudio]
        BY VoiceAssumption DEF NoFile, Kinds, Takes
      <4> QED
        BY <1>1, <2>2, <2>6, <4>1 DEF VoiceInv, ComposerTypes
    <3>5. SentTypes'
      BY <2>2, <3>2 DEF VoiceInv, SentTypes
    <3>4. DraftInv' /\ KeptInv' /\ ScreenInv'
      BY <1>1, <2>2, <2>6, <3>2 DEF VoiceInv, DraftInv, KeptInv, Busy, NoFile, RecorderTypes,
           Takes, ScreenInv, ErrorIsCurrent, NothingWaits
    <3> QED
      BY <1>2, <3>2, <3>3, <3>4, <3>5 DEF VoiceInv
  <2> QED
    BY <1>5, <2>1, <2>2, <2>5, <2>6 DEF Complete, RecordingReady, SendNow, Usable
<1> QED
  BY <1>4, <1>5

\* The timer of scheduleFinish() starts the final encoding or ends the session.
LEMMA FinishKeeps ==
  ASSUME VoiceInv, NEW r \in timers, Finish(r)
  PROVE  VoiceInv'
<1>1. timers' \subseteq timers /\ timers' \subseteq Takes
  BY DEF Finish, VoiceInv, RecorderTypes
<1>2. CASE r # request \/ ~session \/ state # "Stopping"
  <2>1. UNCHANGED <<state, session, request, asks, discard, error, encodingFinal, job, audio, kept, composer, ghosts>>
    BY <1>2 DEF Finish, composer
  <2> QED
    BY <1>1, <2>1, EncoderKeeps
<1>3. CASE r = request /\ session /\ state = "Stopping"
  <2>1. CASE /\ ~discard /\ Encode("final") /\ encodingFinal' = TRUE
             /\ UNCHANGED <<state, session, error, kept, file, recipient, whenReady, sent, uploads, latest, sendError>>
    <3>1. UNCHANGED <<state, session, request, asks, discard, error, audio, kept, composer, ghosts>>
      BY <2>1 DEF Finish, composer
    <3>2. job' \in [kind : {"preview", "final"}, audio : 1..MaxAudio]
      BY <2>1 DEF Encode, VoiceInv, RecorderTypes
    <3> QED
      BY <1>1, <1>3, <2>1, <3>1, <3>2, EncoderKeeps
  <2>2. CASE Complete(FALSE)
    BY <1>1, <1>3, <2>2, CompleteKeeps DEF Finish
  <2> QED
    BY <1>3, <2>1, <2>2 DEF Finish
<1> QED
  BY <1>2, <1>3

\* encodingFinished() shows a preview or ends the session.
LEMMA EncodedKeeps ==
  ASSUME VoiceInv, NEW ok \in BOOLEAN, Encoded(ok)
  PROVE  VoiceInv'
<1>1. session
  BY DEF VoiceInv, RecorderInv, Encoded
<1>2. CASE encodingFinal
  <2>1. state = "Stopping" /\ Complete(ok /\ ~discard) /\ timers' \subseteq timers /\ UNCHANGED <<request, asks, discard, audio, active, ghosts>>
    BY <1>2 DEF VoiceInv, RecorderInv, Encoded
  <2>2. (ok /\ ~discard) \in BOOLEAN /\ ((ok /\ ~discard) => ~discard)
    OBVIOUS
  <2> QED
    BY <1>1, <2>1, <2>2, CompleteKeeps
<1>3. CASE ~encodingFinal
  <2>1. /\ job' = None
        /\ UNCHANGED <<state, session, encodingFinal, kept, recipient, sent, uploads, latest, request, asks, timers, discard, audio, active, madeFor, asked, withdrawn>>
    BY <1>3 DEF Encoded, ghosts
  <2>2. \/ UNCHANGED <<error, file, whenReady, sendError>>
        \/ /\ state = "Paused" /\ file' = [kind |-> "preview", take |-> request, audio |-> job.audio] /\ sendError' = None
           /\ UNCHANGED <<error, whenReady>>
        \/ error' = TRUE /\ whenReady' = FALSE /\ UNCHANGED <<file, sendError>>
    BY <1>3 DEF Encoded, PreviewReady, Failed
  <2>3. job \in [kind : {"preview", "final"}, audio : 1..MaxAudio]
    BY DEF Encoded, VoiceInv, RecorderTypes
  <2>4. RecorderTypes' /\ RecorderInv'
    BY <2>1, <2>2 DEF VoiceInv, RecorderTypes, RecorderInv
  <2>5. file' \in [kind : Kinds, take : Takes, audio : 0..MaxAudio]
    BY <2>1, <2>2, <2>3, VoiceAssumption DEF VoiceInv, RecorderTypes, ComposerTypes, Kinds
  <2>6. ComposerTypes' /\ SentTypes'
    BY <2>1, <2>2, <2>5 DEF VoiceInv, ComposerTypes, SentTypes
  <2>7. state = "Paused" => request \notin kept /\ recipient # None /\ request \notin withdrawn
    BY DEF VoiceInv, KeptInv, DraftInv, Busy
  <2>8. DraftInv'
    BY <2>1, <2>2, <2>7 DEF VoiceInv, DraftInv, Busy, NoFile
  <2>9. KeptInv'
    BY <2>1, <2>2, <2>7 DEF VoiceInv, KeptInv, Busy, NoFile
  <2>10. SentInv' /\ ScreenInv'
    BY <2>1, <2>2 DEF VoiceInv, SentInv, SentIsFinal, RightRecipient, OnlyWanted, ScreenInv,
         ErrorIsCurrent, NothingWaits, NoFile
  <2> QED
    BY <2>4, <2>6, <2>8, <2>9, <2>10 DEF VoiceInv
<1> QED
  BY <1>2, <1>3 DEF VoiceInv, RecorderTypes

\* sendVoice(), of a finished recording or of one that is stopped first.
LEMMA SendKeeps ==
  ASSUME VoiceInv, Send
  PROVE  VoiceInv'
<1>1. /\ kept' = kept /\ asked' = asked \cup {request}
      /\ UNCHANGED <<session, asks, error, encodingFinal, job, audio, active, madeFor, withdrawn>>
  BY DEF Send
<1>2. asked' \subseteq Takes
  BY <1>1 DEF VoiceInv, RecorderTypes, SentTypes
<1>3. CASE ~Busy /\ SendNow(file, sendError) /\ UNCHANGED <<state, request, timers, discard, whenReady>>
  <2>1. RecorderTypes' /\ RecorderInv'
    BY <1>1, <1>3 DEF VoiceInv, RecorderTypes, RecorderInv
  <2>2. CASE UNCHANGED <<file, sendError, recipient, sent, uploads, latest>>
    <3>1. ComposerTypes' /\ SentTypes'
      BY <1>1, <1>2, <1>3, <2>2 DEF VoiceInv, ComposerTypes, SentTypes
    <3>2. DraftInv' /\ KeptInv'
      BY <1>1, <1>3, <2>2 DEF VoiceInv, DraftInv, KeptInv, Busy, NoFile
    <3>3. SentInv' /\ ScreenInv'
      BY <1>1, <1>3, <2>2 DEF VoiceInv, SentInv, SentIsFinal, RightRecipient, OnlyWanted,
           ScreenInv, ErrorIsCurrent, NothingWaits, NoFile
    <3> QED
      BY <2>1, <3>1, <3>2, <3>3 DEF VoiceInv
  <2>3. CASE /\ file.kind # "none" /\ recipient # None /\ recipient = active
             /\ sent' = IF Usable(file) THEN Append(sent, [take |-> file.take, kind |-> file.kind, to |-> recipient]) ELSE sent
             /\ uploads' = uploads \cup {file.take} /\ latest' = file.take
             /\ file' = NoFile /\ sendError' = None /\ recipient' = None
    <3> DEFINE x == [take |-> file.take, kind |-> file.kind, to |-> recipient]
    <3>1. /\ file.take = request /\ request \in Takes /\ request \notin withdrawn /\ madeFor[request] = recipient
          /\ recipient \in Conversations /\ \A i \in 1..Len(sent) : sent[i].take # request
      BY <2>3 DEF VoiceInv, DraftInv, KeptInv, RecorderTypes, ComposerTypes
    <3>4. SentInv' /\ sent' \in Seq([take : Takes, kind : Kinds, to : Conversations])
                   /\ \A i \in 1..Len(sent') : sent'[i].take \in kept'
      <4>1. CASE Usable(file)
        <5>1. file.take \in kept /\ file.kind = "final"
          BY <1>1, <2>3, <3>1, <4>1 DEF Usable, VoiceInv, KeptInv, ComposerTypes, Kinds
        <5>2. /\ x \in [take : Takes, kind : {"final"}, to : Conversations]
              /\ x.take \in kept' /\ x.take \in asked' /\ x.take \notin withdrawn /\ x.to = madeFor[x.take]
              /\ \A i \in 1..Len(sent) : sent[i].take # x.take
          BY <1>1, <3>1, <5>1
        <5>3. sent' = Append(sent, x) /\ kept \subseteq kept' /\ asked \subseteq asked' /\ withdrawn' = withdrawn /\ madeFor' = madeFor
          BY <1>1, <2>3, <4>1
        <5> QED
          BY <5>2, <5>3, SentGrows
      <4>2. CASE ~Usable(file)
        BY <1>1, <2>3, <4>2 DEF VoiceInv, SentInv, SentIsFinal, RightRecipient, OnlyWanted,
             KeptInv, SentTypes
      <4> QED
        BY <4>1, <4>2
    <3>5. ComposerTypes'
      <4>1. NoFile \in [kind : Kinds, take : Takes, audio : 0..MaxAudio]
        BY VoiceAssumption DEF NoFile, Kinds, Takes
      <4> QED
        BY <1>1, <1>3, <2>3, <3>1, <4>1 DEF VoiceInv, ComposerTypes
    <3>6. SentTypes'
      BY <1>1, <1>2, <3>4 DEF VoiceInv, SentTypes
    <3>7. DraftInv'
      BY <1>1, <1>3, <2>3 DEF VoiceInv, DraftInv, Busy, NoFile
    <3>8. KeptInv'
      BY <1>1, <1>3, <2>3, <3>4 DEF VoiceInv, KeptInv, Busy, NoFile
    <3>9. ScreenInv'
      BY <1>1, <1>3, <2>3 DEF VoiceInv, ScreenInv, ErrorIsCurrent, NothingWaits, Busy
    <3> QED
      BY <2>1, <3>4, <3>5, <3>6, <3>7, <3>8, <3>9 DEF VoiceInv
  <2> QED
    BY <1>3, <2>2, <2>3 DEF SendNow
<1>4. CASE /\ Busy /\ session /\ state' = "Stopping" /\ whenReady' = TRUE
           /\ timers' = IF state = "Stopping" THEN timers ELSE timers \cup {request}
           /\ UNCHANGED <<request, discard, recipient, file, sent, uploads, latest, sendError>>
  <2>1. RecorderTypes' /\ RecorderInv'
    BY <1>1, <1>4 DEF VoiceInv, RecorderTypes, RecorderInv, Busy
  <2>2. ComposerTypes' /\ SentTypes'
    BY <1>1, <1>2, <1>4 DEF VoiceInv, ComposerTypes, SentTypes
  <2>3. DraftInv'
    BY <1>1, <1>4 DEF VoiceInv, RecorderInv, DraftInv, Busy, NoFile
  <2>4. KeptInv'
    BY <1>1, <1>4 DEF VoiceInv, KeptInv, Busy
  <2>5. SentInv' /\ ScreenInv'
    BY <1>1, <1>4 DEF VoiceInv, SentInv, SentIsFinal, RightRecipient, OnlyWanted, ScreenInv,
         ErrorIsCurrent, NothingWaits, NoFile
  <2> QED
    BY <2>1, <2>2, <2>3, <2>4, <2>5 DEF VoiceInv
<1>5. CASE Busy /\ ~session /\ RecorderCancel(whenReady) /\ UNCHANGED <<recipient, file, sent, uploads, latest, sendError>>
  <2>1. /\ state = "Starting" /\ request \in 1..MaxStarts /\ request + 1 \in Takes /\ recipient # None
        /\ state' = "Idle" /\ discard' = TRUE /\ request' = request + 1 /\ whenReady' = FALSE /\ timers' = timers
    BY <1>5, VoiceAssumption DEF VoiceInv, RecorderInv, RecorderTypes, Busy, RecorderCancel,
         Canceled, Takes, DraftInv
  <2>2. RecorderTypes' /\ RecorderInv'
    BY <1>1, <2>1 DEF VoiceInv, RecorderTypes, RecorderInv
  <2>3. ComposerTypes' /\ SentTypes'
    BY <1>1, <1>2, <1>5, <2>1 DEF VoiceInv, ComposerTypes, SentTypes
  <2>4. file.kind = "none"
    BY <2>1 DEF VoiceInv, DraftInv, NoFile
  <2>5. DraftInv'
    BY <1>1, <1>5, <2>1, <2>4 DEF VoiceInv, DraftInv, Busy, NoFile
  <2>6. KeptInv'
    BY <1>1, <1>5, <2>1, <2>4 DEF VoiceInv, KeptInv, Busy, RecorderTypes, SentTypes, Takes
  <2>7. SentInv' /\ ScreenInv'
    BY <1>1, <1>5, <2>1 DEF VoiceInv, SentInv, SentIsFinal, RightRecipient, OnlyWanted, ScreenInv,
         ErrorIsCurrent, NothingWaits, NoFile
  <2> QED
    BY <2>2, <2>3, <2>5, <2>6, <2>7 DEF VoiceInv
<1> QED
  BY <1>3, <1>4, <1>5 DEF Send

-----------------------------------------------------------------------------
\* A step that changes nothing keeps the invariant.
LEMMA StutterKeeps ==
  ASSUME VoiceInv, UNCHANGED vars
  PROVE  VoiceInv'
<1>1. timers' \subseteq Takes /\ UNCHANGED <<encodingFinal, job>>
  BY DEF VoiceInv, RecorderTypes, vars, recorder
<1> QED
  BY <1>1, EncoderKeeps DEF vars, recorder

\* Every step keeps the invariant.
LEMMA VoiceInvInductive ==
  ASSUME VoiceInv, [Next]_vars
  PROVE  VoiceInv'
<1>1. CASE Start \/ StartNowhere \/ Pause \/ Resume \/ Send \/ Capture \/ SourceFails
  BY <1>1, StartKeeps, StartNowhereKeeps, PauseKeeps, ResumeKeeps, SendKeeps, CaptureKeeps,
       SourceFailsKeeps
<1>2. CASE CancelVoiceRecording
  <2>1. active' \in Conversations \cup {None} /\ whenReady \in {FALSE, whenReady}
    BY <1>2 DEF CancelVoiceRecording, VoiceInv, ComposerTypes
  <2> QED
    BY <1>2, <2>1, LeaveKeeps DEF CancelVoiceRecording
<1>3. CASE Reset
  BY <1>3, LeaveKeeps DEF Reset
<1>4. ASSUME NEW c \in Conversations, Select(c) PROVE VoiceInv'
  BY <1>4, LeaveKeeps DEF Select
<1>5. ASSUME NEW r \in asks, NEW granted \in BOOLEAN, Permission(r, granted) PROVE VoiceInv'
  BY <1>5, PermissionKeeps
<1>6. ASSUME NEW r \in timers, Finish(r) PROVE VoiceInv'
  BY <1>6, FinishKeeps
<1>7. ASSUME NEW ok \in BOOLEAN, Encoded(ok) PROVE VoiceInv'
  BY <1>7, EncodedKeeps
<1>8. ASSUME NEW t \in uploads, NEW ok \in BOOLEAN, UploadEnds(t, ok) PROVE VoiceInv'
  BY <1>8, UploadEndsKeeps
<1>9. CASE UNCHANGED vars
  BY <1>9, StutterKeeps
<1> QED
  BY <1>1, <1>2, <1>3, <1>4, <1>5, <1>6, <1>7, <1>8, <1>9 DEF Next

\* The invariant holds when the program starts.
LEMMA VoiceInvInitially == Init => VoiceInv
<1> SUFFICES ASSUME Init PROVE VoiceInv
  OBVIOUS
<1>1. sent \in Seq([take : Takes, kind : Kinds, to : Conversations]) /\ Len(sent) = 0
  BY DEF Init
<1>2. RecorderTypes /\ ComposerTypes
  <2>1. RecorderTypes
    <3>1. 0 \in Takes /\ 0 \in 0..MaxAudio
      BY VoiceAssumption DEF Takes
    <3>2. /\ session = FALSE /\ discard = FALSE /\ error = FALSE /\ encodingFinal = FALSE
          /\ state = "Idle" /\ request = 0 /\ asks = {} /\ timers = {} /\ job = None /\ audio = 0 /\ kept = {}
      BY DEF Init
    <3> QED
      BY <3>1, <3>2 DEF RecorderTypes
  <2>2. NoFile \in [kind : Kinds, take : Takes, audio : 0..MaxAudio]
    BY VoiceAssumption DEF NoFile, Kinds, Takes
  <2> QED
    BY <2>1, <2>2 DEF Init, ComposerTypes
<1>3. SentTypes
  BY <1>1 DEF Init, SentTypes
<1>4. RecorderInv /\ DraftInv /\ KeptInv
  BY <1>1 DEF Init, RecorderInv, DraftInv, KeptInv, Busy, NoFile
<1>5. SentInv /\ ScreenInv
  BY <1>1 DEF Init, SentInv, SentIsFinal, RightRecipient, OnlyWanted, ScreenInv, ErrorIsCurrent,
       NothingWaits
<1> QED
  BY <1>2, <1>3, <1>4, <1>5 DEF VoiceInv

\* The invariant holds in every state the recorder, the encoder and the composer reach.
THEOREM VoiceInvariant == Spec => []VoiceInv
<1>1. VoiceInv /\ [Next]_vars => VoiceInv'
  BY VoiceInvInductive
<1> QED
  BY <1>1, VoiceInvInitially, PTL DEF Spec

\* Every variable keeps its type, and M4aEncoder is never given an empty recording.
THEOREM VoiceTypeCorrect == Spec => []TypeOK
<1>1. VoiceInv => TypeOK
  BY DEF VoiceInv, TypeOK
<1> QED
  BY <1>1, VoiceInvariant, PTL

\* sendVoice() never queues a preview, or a file whose directory is removed with its
\* session.
THEOREM AlwaysSentIsFinal == Spec => []SentIsFinal
<1>1. VoiceInv => SentIsFinal
  BY DEF VoiceInv, SentInv
<1> QED
  BY <1>1, VoiceInvariant, PTL

\* However the user moves between conversations while the encoder works, a voice
\* message goes to the conversation it was recorded in.
THEOREM AlwaysRightRecipient == Spec => []RightRecipient
<1>1. VoiceInv => RightRecipient
  BY DEF VoiceInv, SentInv
<1> QED
  BY <1>1, VoiceInvariant, PTL

\* A recording is sent at most once, after the user has asked for it and never after
\* the user has canceled it, although m_sendVoiceWhenReady may be left over from
\* another one.
THEOREM AlwaysOnlyWanted == Spec => []OnlyWanted
<1>1. VoiceInv => OnlyWanted
  BY DEF VoiceInv, SentInv
<1> QED
  BY <1>1, VoiceInvariant, PTL

\* The send error on display is the one of the last voice message, and there is no
\* newer draft beside it.
THEOREM AlwaysErrorIsCurrent == Spec => []ErrorIsCurrent
<1>1. VoiceInv => ErrorIsCurrent
  BY DEF VoiceInv, ScreenInv
<1> QED
  BY <1>1, VoiceInvariant, PTL

\* An idle recorder has no send waiting for it, unless it had reported an error.
THEOREM AlwaysNothingWaits == Spec => []NothingWaits
<1>1. VoiceInv => NothingWaits
  BY DEF VoiceInv, ScreenInv
<1> QED
  BY <1>1, VoiceInvariant, PTL

\* Only what the user meant is sent, to whom it was meant for, for any number of
\* recordings and conversations.
THEOREM AlwaysSentAsMeant == Spec => []SentAsMeant
<1>1. VoiceInv => SentAsMeant
  BY DEF VoiceInv, TypeOK, SentAsMeant
<1> QED
  BY <1>1, VoiceInvariant, PTL

\* The composer shows the error of the last message and never waits for an idle
\* recorder, for any number of recordings.
THEOREM AlwaysScreenInv == Spec => []ScreenInv
<1>1. VoiceInv => ScreenInv
  BY DEF VoiceInv
<1> QED
  BY <1>1, VoiceInvariant, PTL

-----------------------------------------------------------------------------
(* Calls                                                                   *)

\* Nothing but preparations waits for the XMPP thread.
OnlyPrepares == \A i \in 1..Len(toService) : toService[i].op = "prepare"

\* A proposal has come; no call is started, and nothing of one is in flight.
Undecided == ~sig.started /\ ~InFlight /\ sig.from # Nil

\* What may go astray.
Stray == {"offer", "answer", "candidate", "terminate", "early"}

\* The window and the prompts: whom to call is known, and one request at most is live.
PromptInv ==
  /\ vm.open /\ ~vm.incoming => vm.receiver \in Peers
  /\ vm.incoming => vm.open
  /\ \A a \in prompts : a.cmd.op = "start" => a.cmd.to \in Peers
  /\ \A a, b \in prompts : a.live /\ b.live => a = b

\* A started call has a client that is ready; a full address is somebody's.
ReadyInv ==
  /\ sig.started => rtc # Nil /\ rtc.ready
  /\ sig.full => sig.recipient \in Peers

\* Behind a closed window the end of its call is the last command, or it was obeyed.
ClosedInv ==
  ~vm.open =>
    /\ \A a \in prompts : ~a.live
    /\ \/ Len(toService) > 0 /\ toService[Len(toService)].op = "end"
       \/ /\ Len(toService) = 0 /\ ~sig.started
          /\ rtc = Nil \/ (rtc = NewClient /\ open = {} /\ disco = <<>>)

\* An acceptance on its way: nothing will begin before it, and it is for the video proposed.
AcceptQueued ==
  \A i \in 1..Len(toService) : toService[i].op = "accept" =>
    /\ \A j \in 1..(i-1) : toService[j].op = "prepare"
    /\ toService[i].video = sig.video /\ Undecided

\* The same while the window rings,
Rings ==
  vm.incoming /\ ~vm.accepted =>
    /\ OnlyPrepares /\ Undecided /\ vm.video = sig.video
    /\ \A a \in prompts : ~a.live

\* while a prompt holds the acceptance back,
AcceptAsked ==
  \A a \in prompts : a.live /\ a.cmd.op = "accept" =>
    vm.incoming /\ OnlyPrepares /\ Undecided /\ a.cmd.video = sig.video

\* and while the proposal waits to be shown.
Waits ==
  \A i \in 1..Len(toGui) : toGui[i].signal = "propose" =>
    /\ \A j \in 1..Len(toGui) : toGui[j].signal = "propose" => j = i
    /\ Len(toService) = 0 /\ ~vm.open /\ Undecided /\ toGui[i].video = sig.video

\* All that is in flight belongs to the call of the moment, made or taken: a started call
\* is with the partner, or its acceptance is on its way.
FlightInv ==
  /\ \A r \in open : r.t = "proposed" => r.peer = sig.recipient
  /\ \A i \in 1..Len(disco) : disco[i] = sig.recipient
  /\ \A r \in open : r.t = "accepted" =>
       r = Acceptance(sig.from) /\ disco = <<>> /\ (\A s \in open : s.t # "proposed")
  /\ (disco # <<>> \/ \E r \in open : r.t = "proposed") => sig.partner = sig.recipient
  /\ InFlight => sig.started \/ rtc = Nil
  /\ sig.started => sig.with = sig.partner \/ Acceptance(sig.with) \in open
  /\ sig.started => \A r \in open : r.t = "accepted" => r = Acceptance(sig.with)

\* The connection is with the partner of a started call, and the camera is wanted only
\* for a call with video.
RtcInv ==
  rtc # Nil =>
    /\ rtc.peer # Nil => sig.started /\ sig.partner = rtc.peer
    /\ rtc.pending # "none" => rtc.peer # Nil
    /\ rtc.pending = "offer" => rtc.peer = sig.recipient
    /\ rtc.camera \/ rtc.command = "start" \/ rtc.capture = "on" => agreed
    /\ \A r \in open : r.t = "accepted" => rtc.peer = Nil /\ (sig.video => agreed)

GuiInv == AcceptQueued /\ Rings /\ AcceptAsked /\ Waits

AloneInv == ~overlap => astray \subseteq {"early"} /\ GuiInv /\ FlightInv /\ RtcInv

CallsInv ==
  CallsTypeOK /\ PromptInv /\ ReadyInv /\ ClosedInv /\ AloneInv /\ DiesOnlyByCandidate

-----------------------------------------------------------------------------
\* updateCameraCapture() tells the camera to run only when it is enabled.
LEMMA UpdateCamera ==
  ASSUME NEW c \in Clients
  PROVE  LET d == UpdateCameraCapture(c) IN
         /\ d \in Clients
         /\ d.ready = c.ready /\ d.peer = c.peer /\ d.pending = c.pending
         /\ d.camera = c.camera
         /\ d.command = "start" => c.camera \/ c.command = "start"
         /\ d.capture = "on" => c.capture = "on"
  BY DEF UpdateCameraCapture, Prepare, Clients

\* The same of setCameraEnabled().
LEMMA SetCamera ==
  ASSUME NEW c \in Clients, NEW b \in BOOLEAN
  PROVE  LET d == SetCameraEnabled(c, b) IN
         /\ d \in Clients
         /\ d.ready = c.ready /\ d.peer = c.peer /\ d.pending = c.pending
         /\ d.camera = b
         /\ d.command = "start" => b \/ c.command = "start"
         /\ d.capture = "on" => c.capture = "on"
  <1> DEFINE e == [c EXCEPT !.camera = b]
  <1>1. e \in Clients /\ e.ready = c.ready /\ e.peer = c.peer /\ e.pending = c.pending
        /\ e.camera = b /\ e.command = c.command /\ e.capture = c.capture
    BY DEF Clients
  <1> HIDE DEF e
  <1>2. SetCameraEnabled(c, b) = UpdateCameraCapture(e)
    BY DEF SetCameraEnabled, e
  <1> QED BY <1>1, <1>2, UpdateCamera

\* A connection for which a description is asked.
LEMMA Negotiation ==
  ASSUME NEW c \in Clients, NEW p \in Peers, NEW s \in {"offer", "answer"}
  PROVE  LET d == Negotiating(c, p, s) IN
         /\ d \in Clients
         /\ d.ready = c.ready /\ d.peer = p /\ d.pending = s /\ d.camera = c.camera
         /\ d.command = "start" => c.camera \/ c.command = "start"
         /\ d.capture = "on" => c.capture = "on"
  <1> DEFINE e == [c EXCEPT !.peer = p, !.pending = s]
  <1>1. e \in Clients /\ e.ready = c.ready /\ e.peer = p /\ e.pending = s
        /\ e.camera = c.camera /\ e.command = c.command /\ e.capture = c.capture
    BY DEF Clients
  <1> HIDE DEF e
  <1>2. Negotiating(c, p, s) = UpdateCameraCapture(e)
    BY DEF Negotiating, e
  <1> QED BY <1>1, <1>2, UpdateCamera

\* A client that was never used.
LEMMA NewClientType ==
  /\ NewClient \in Clients /\ ~NewClient.ready /\ ~NewClient.camera
  /\ NewClient.capture = "none" /\ NewClient.command = "none"
  /\ NewClient.peer = Nil /\ NewClient.pending = "none"
  BY DEF NewClient, Clients

\* prepare() does not start the camera.
LEMMA PreparedType ==
  ASSUME NEW c \in Clients
  PROVE  /\ Prepare(c) \in Clients
         /\ Prepare(c).ready = c.ready /\ Prepare(c).peer = c.peer
         /\ Prepare(c).pending = c.pending /\ Prepare(c).camera = c.camera
         /\ Prepare(c).command = c.command
         /\ Prepare(c).capture = "on" => c.capture = "on"
  BY DEF Prepare, Clients

\* initialize() changes nothing of the camera or the connection.
LEMMA InitializedType ==
  ASSUME NEW c \in Clients
  PROVE  LET d == Initialized(c) IN
         /\ d \in Clients /\ d.ready
         /\ d.peer = c.peer /\ d.pending = c.pending /\ d.camera = c.camera
         /\ d.command = c.command /\ d.capture = c.capture
  BY DEF Initialized, Clients

\* The client that is used is the one there, or a new one.
LEMMA ExistingType ==
  ASSUME rtc \in Clients \cup {Nil}
  PROVE  /\ Existing \in Clients
         /\ rtc # Nil => Existing = rtc
         /\ rtc = Nil => Existing = NewClient
  BY NewClientType DEF Existing

\* What prepareMedia() leaves.
LEMMA MediaPrepared ==
  ASSUME NEW c \in Clients, NEW b \in BOOLEAN, NEW ok \in BOOLEAN, PrepareMedia(c, b, ok)
  PROVE  /\ ok => /\ rtc' \in Clients /\ rtc' # Nil /\ rtc'.ready
                  /\ rtc'.peer = c.peer /\ rtc'.pending = c.pending /\ rtc'.camera = b
                  /\ rtc'.command = "start" => b \/ c.command = "start"
                  /\ rtc'.capture = "on" => c.capture = "on"
         /\ ~ok => rtc' = Nil /\ ~c.ready
  <1> DEFINE d == SetCameraEnabled(c, b)
  <1>1. /\ d \in Clients
        /\ d.ready = c.ready /\ d.peer = c.peer /\ d.pending = c.pending
        /\ d.camera = b
        /\ d.command = "start" => b \/ c.command = "start"
        /\ d.capture = "on" => c.capture = "on"
    BY SetCamera
  <1>2. (ok /\ rtc' = Initialized(d)) \/ (~ok /\ ~c.ready /\ rtc' = Nil)
    BY DEF PrepareMedia
  <1> HIDE DEF d
  <1> QED BY <1>1, <1>2, InitializedType, NilAssumption

-----------------------------------------------------------------------------
\* Sequences.

\* Taking the head.
LEMMA TailOf ==
  ASSUME NEW S, NEW s \in Seq(S), s # <<>>
  PROVE  /\ Tail(s) \in Seq(S) /\ Len(Tail(s)) = Len(s) - 1 /\ Len(s) \in Nat /\ Len(s) > 0
         /\ \A i \in 1..Len(Tail(s)) : Tail(s)[i] = s[i+1]
         /\ Head(s) = s[1] /\ Head(s) \in S
         /\ s[1] \in S
  BY EmptySeq

\* One element at the end.
LEMMA Joined ==
  ASSUME NEW S, NEW s \in Seq(S), NEW c \in S
  PROVE  /\ s \o <<c>> \in Seq(S) /\ Len(s \o <<c>>) = Len(s) + 1 /\ Len(s) \in Nat
         /\ \A i \in 1..Len(s) : (s \o <<c>>)[i] = s[i]
         /\ (s \o <<c>>)[Len(s) + 1] = c
  <1>1. <<c>> \in Seq(S) OBVIOUS
  <1>2. Len(<<c>>) = 1 /\ <<c>>[1] = c OBVIOUS
  <1> QED BY <1>1, <1>2

\* The same for Append.
LEMMA Appended ==
  ASSUME NEW S, NEW s \in Seq(S), NEW c \in S
  PROVE  /\ Append(s, c) \in Seq(S) /\ Len(Append(s, c)) = Len(s) + 1 /\ Len(s) \in Nat
         /\ \A i \in 1..Len(s) : Append(s, c)[i] = s[i]
         /\ Append(s, c)[Len(s) + 1] = c
  OBVIOUS
-----------------------------------------------------------------------------
\* The GUI thread.

\* The commands.
LEMMA CommandTypes ==
  /\ End \in Commands /\ End.op = "end"
  /\ Reject \in Commands /\ Reject.op = "reject"
  /\ \A b \in BOOLEAN : Command("prepare", Nil, b) \in Commands /\ Command("prepare", Nil, b).op = "prepare"
  /\ \A b \in BOOLEAN : /\ Command("accept", Nil, b) \in Commands /\ Command("accept", Nil, b).op = "accept"
                        /\ Command("accept", Nil, b).video = b
  /\ \A b \in BOOLEAN, p \in Peers :
       /\ Command("start", p, b) \in Commands /\ Command("start", p, b).op = "start"
       /\ Command("start", p, b).to \in Peers
  BY DEF Command, End, Reject, Commands

\* At most the command cmd is posted.
AtMost(cmd) == toService' = toService \/ toService' = toService \o <<cmd>>

\* What one more command leaves.
LEMMA AtMostType ==
  ASSUME CallsTypeOK, NEW cmd \in Commands, Room(1), AtMost(cmd),
         cmd.op = "start" => cmd.to \in Peers
  PROVE  /\ toService' \in Seq(Commands) /\ Len(toService') <= Backlog
         /\ Len(toService') \in Nat /\ Len(toService) \in Nat
         /\ \A i \in 1..Len(toService') : toService'[i].op = "start" => toService'[i].to \in Peers
         /\ Len(toService') = Len(toService) \/ Len(toService') = Len(toService) + 1
         /\ \A i \in 1..Len(toService) : toService'[i] = toService[i]
         /\ Len(toService') = Len(toService) + 1 => toService'[Len(toService) + 1] = cmd
  <1>0. toService \in Seq(Commands) /\ Len(toService) <= Backlog /\ Len(toService) \in Nat
        /\ \A i \in 1..Len(toService) : toService[i].op = "start" => toService[i].to \in Peers
    BY DEF CallsTypeOK
  <1>1. CASE toService' = toService
    BY <1>0, <1>1
  <1>2. CASE toService' = toService \o <<cmd>>
    <2> DEFINE t == toService \o <<cmd>>
    <2>1. /\ t \in Seq(Commands) /\ Len(t) = Len(toService) + 1
          /\ \A i \in 1..Len(toService) : t[i] = toService[i]
          /\ t[Len(toService) + 1] = cmd
      BY <1>0, Joined
    <2>2. toService' = t BY <1>2
    <2> HIDE DEF t
    <2>3. Len(toService) + 1 <= Backlog BY DEF Room
    <2>4. \A i \in 1..Len(t) : t[i].op = "start" => t[i].to \in Peers
      <3> TAKE i \in 1..Len(t)
      <3>1. i \in 1..Len(toService) \/ i = Len(toService) + 1 BY <1>0, <2>1
      <3> QED BY <1>0, <2>1, <3>1
    <2> QED BY <1>0, <2>1, <2>2, <2>3, <2>4
  <1> QED BY <1>1, <1>2 DEF AtMost

Asks == [stage : {"mic", "camera"}, cmd : Commands, live : BOOLEAN]

\* The requests for permission.
LEMMA AskType ==
  ASSUME NEW s \in {"mic", "camera"}, NEW cmd \in Commands, NEW b \in BOOLEAN
  PROVE  /\ [stage |-> s, cmd |-> cmd, live |-> b] \in Asks
         /\ [stage |-> s, cmd |-> cmd, live |-> b].cmd = cmd
         /\ [stage |-> s, cmd |-> cmd, live |-> b].live = b
  BY DEF Asks

\* An old request posts nothing: what it was for is forgotten.
LEMMA OutdatedType ==
  ASSUME CallsTypeOK
  PROVE  Outdated \subseteq Asks /\ \A a \in Outdated : ~a.live /\ a.cmd = End
  <1>0. prompts \subseteq Asks BY DEF CallsTypeOK, Asks
  <1> SUFFICES ASSUME NEW x \in Outdated PROVE x \in Asks /\ x.live = FALSE /\ x.cmd = End
    OBVIOUS
  <1>1. PICK a \in prompts : x = [stage |-> a.stage, cmd |-> End, live |-> FALSE]
    BY DEF Outdated
  <1>2. a.stage \in {"mic", "camera"} BY <1>0 DEF Asks
  <1> QED BY <1>1, <1>2, CommandTypes, AskType

\* A request for permissions makes all others old; what it is for is posted or asked about.
LEMMA PermissionsAsked ==
  ASSUME CallsTypeOK, NEW cmd \in Commands, WithCallPermissions(cmd)
  PROVE  /\ prompts' \subseteq Asks
         /\ \A a \in prompts' : IF a.live THEN a.cmd = cmd ELSE a.cmd = End
         /\ \A a, b \in prompts' : a.live /\ b.live => a = b
         /\ AtMost(cmd)
         /\ (\E a \in prompts' : a.live) => toService' = toService
  <1>1. Outdated \subseteq Asks /\ \A a \in Outdated : ~a.live /\ a.cmd = End
    BY OutdatedType
  <1> DEFINE m == [stage |-> "mic", cmd |-> cmd, live |-> TRUE]
             c == [stage |-> "camera", cmd |-> cmd, live |-> TRUE]
  <1>2. m \in Asks /\ c \in Asks /\ m.cmd = cmd /\ c.cmd = cmd /\ m.live /\ c.live
    BY AskType
  <1>3. \/ prompts' = Outdated /\ AtMost(cmd)
        \/ prompts' = Outdated \cup {m} /\ toService' = toService
        \/ prompts' = Outdated \cup {c} /\ toService' = toService
    BY DEF WithCallPermissions, WithCamera, Post, AtMost
  <1> HIDE DEF m, c
  <1> QED BY <1>1, <1>2, <1>3 DEF AtMost

Windows == [open : BOOLEAN, incoming : BOOLEAN, started : BOOLEAN, accepted : BOOLEAN,
            receiver : Peers \cup {Nil}, video : BOOLEAN]

\* What no step of the GUI thread disturbs.
LEMMA ServiceKept ==
  ASSUME CallsInv, UNCHANGED <<online, sig, rtc, disco, open, sids, died, agreed, astray>>
  PROVE  /\ ReadyInv' /\ DiesOnlyByCandidate' /\ Undecided' = Undecided
         /\ FlightInv => FlightInv'
         /\ RtcInv => RtcInv'
  BY DEF CallsInv, ReadyInv, DiesOnlyByCandidate, Undecided, InFlight, FlightInv, RtcInv

\* A window for an outgoing call; a proposal that waits makes it an overlap.
LEMMA RequestCallInv ==
  ASSUME CallsInv, NEW p \in Peers, RequestCall(p)
  PROVE  CallsInv'
  <1> DEFINE c == Command("prepare", Nil, TRUE)
  <1>1. c \in Commands /\ c.op = "prepare" BY CommandTypes
  <1>2. CallsTypeOK BY DEF CallsInv
  <1>3. WithCallPermissions(c) /\ Room(1) BY DEF RequestCall
  <1> HIDE DEF c
  <1>4. /\ prompts' \subseteq Asks
        /\ \A a \in prompts' : IF a.live THEN a.cmd = c ELSE a.cmd = End
        /\ \A a, b \in prompts' : a.live /\ b.live => a = b
        /\ AtMost(c)
    BY <1>1, <1>2, <1>3, PermissionsAsked
  <1>5. /\ toService' \in Seq(Commands) /\ Len(toService') <= Backlog
        /\ Len(toService') \in Nat /\ Len(toService) \in Nat
        /\ \A i \in 1..Len(toService') : toService'[i].op = "start" => toService'[i].to \in Peers
        /\ Len(toService') = Len(toService) \/ Len(toService') = Len(toService) + 1
        /\ \A i \in 1..Len(toService) : toService'[i] = toService[i]
        /\ Len(toService') = Len(toService) + 1 => toService'[Len(toService) + 1] = c
    BY <1>1, <1>2, <1>3, <1>4, AtMostType
  <1>6. vm' \in Windows /\ vm'.open = TRUE /\ vm'.incoming = FALSE /\ vm'.receiver = p
    <2>1. vm \in Windows BY <1>2 DEF CallsTypeOK, Windows
    <2>2. vm' = [[vm EXCEPT !.open = TRUE, !.incoming = FALSE, !.started = FALSE]
                   EXCEPT !.receiver = p]
      BY DEF RequestCall, Shown
    <2> QED BY <2>1, <2>2 DEF Windows
  <1>7. UNCHANGED <<mic, cam, toGui, calls, online, sig, rtc, disco, open, sids, died, agreed, astray>>
    BY DEF RequestCall
  <1>8. overlap' = (overlap \/ ProposalWaits) BY DEF RequestCall
  <1>9. CallsTypeOK'
    <2>1. overlap' \in BOOLEAN BY <1>2, <1>8 DEF CallsTypeOK
    <2> QED BY <1>2, <1>4, <1>5, <1>6, <1>7, <2>1 DEF CallsTypeOK, Asks, Windows
  <1>10. PromptInv'
    BY <1>1, <1>4, <1>6, CommandTypes DEF PromptInv
  <1>11. ClosedInv' BY <1>6 DEF ClosedInv
  <1>12. AloneInv'
    <2> SUFFICES ASSUME ~overlap' PROVE astray' \subseteq {"early"} /\ GuiInv' /\ FlightInv' /\ RtcInv'
      BY DEF AloneInv
    <2>1. ~overlap /\ ~ProposalWaits BY <1>8
    <2>2. astray \subseteq {"early"} /\ GuiInv /\ FlightInv /\ RtcInv BY <2>1 DEF CallsInv, AloneInv
    <2>3. AcceptQueued'
      <3> SUFFICES ASSUME NEW i \in 1..Len(toService'), toService'[i].op = "accept"
                   PROVE  /\ \A j \in 1..(i-1) : toService'[j].op = "prepare"
                          /\ toService'[i].video = sig.video /\ Undecided
        BY <1>7, ServiceKept DEF AcceptQueued
      <3>1. i \in 1..Len(toService) BY <1>1, <1>5
      <3> QED BY <1>5, <2>2, <3>1 DEF GuiInv, AcceptQueued
    <2>4. Rings' BY <1>6 DEF Rings
    <2>5. AcceptAsked' BY <1>1, <1>4 DEF AcceptAsked
    <2>6. Waits' BY <1>7, <2>1 DEF Waits, ProposalWaits
    <2> QED BY <1>7, <2>2, <2>3, <2>4, <2>5, <2>6, ServiceKept DEF GuiInv
  <1> QED BY <1>7, <1>9, <1>10, <1>11, <1>12, ServiceKept DEF CallsInv

\* The call of the window is started, or asked about.
LEMMA StartCallInv ==
  ASSUME CallsInv, NEW video \in BOOLEAN, StartCall(video)
  PROVE  CallsInv'
  <1> DEFINE c == Command("start", vm.receiver, video)
  <1>1. c \in Commands /\ c.op = "start" /\ c.to \in Peers
    BY CommandTypes DEF CallsInv, PromptInv, StartCall
  <1>2. CallsTypeOK BY DEF CallsInv
  <1>3. WithCallPermissions(c) /\ Room(1) BY DEF StartCall
  <1> HIDE DEF c
  <1>4. /\ prompts' \subseteq Asks
        /\ \A a \in prompts' : IF a.live THEN a.cmd = c ELSE a.cmd = End
        /\ \A a, b \in prompts' : a.live /\ b.live => a = b
        /\ AtMost(c)
    BY <1>1, <1>2, <1>3, PermissionsAsked
  <1>5. /\ toService' \in Seq(Commands) /\ Len(toService') <= Backlog
        /\ Len(toService') \in Nat /\ Len(toService) \in Nat
        /\ \A i \in 1..Len(toService') : toService'[i].op = "start" => toService'[i].to \in Peers
        /\ Len(toService') = Len(toService) \/ Len(toService') = Len(toService) + 1
        /\ \A i \in 1..Len(toService) : toService'[i] = toService[i]
        /\ Len(toService') = Len(toService) + 1 => toService'[Len(toService) + 1] = c
    BY <1>1, <1>2, <1>3, <1>4, AtMostType
  <1>6. /\ vm' \in Windows /\ vm'.open = vm.open /\ vm'.incoming = vm.incoming
        /\ vm'.receiver = vm.receiver /\ vm.open /\ ~vm.incoming
    <2>1. vm \in Windows BY <1>2 DEF CallsTypeOK, Windows
    <2>2. vm' = [vm EXCEPT !.started = TRUE] /\ vm.open /\ ~vm.incoming BY DEF StartCall
    <2> QED BY <2>1, <2>2 DEF Windows
  <1>7. /\ UNCHANGED <<mic, cam, toGui, online, sig, rtc, disco, open, sids, died, agreed, astray>>
        /\ overlap' = overlap /\ calls < MaxCalls /\ calls' = calls + 1
    BY DEF StartCall, service
  <1>9. CallsTypeOK'
    <2>1. calls' \in 0..MaxCalls BY <1>2, <1>7, CallsAssumption DEF CallsTypeOK
    <2> QED BY <1>2, <1>4, <1>5, <1>6, <1>7, <2>1 DEF CallsTypeOK, Asks, Windows
  <1>10. PromptInv'
    BY <1>1, <1>4, <1>6, CommandTypes DEF CallsInv, PromptInv
  <1>11. ClosedInv' BY <1>6 DEF ClosedInv
  <1>12. AloneInv'
    <2> SUFFICES ASSUME ~overlap' PROVE astray' \subseteq {"early"} /\ GuiInv' /\ FlightInv' /\ RtcInv'
      BY DEF AloneInv
    <2>2. astray \subseteq {"early"} /\ GuiInv /\ FlightInv /\ RtcInv BY <1>7 DEF CallsInv, AloneInv
    <2>3. AcceptQueued'
      <3> SUFFICES ASSUME NEW i \in 1..Len(toService'), toService'[i].op = "accept"
                   PROVE  /\ \A j \in 1..(i-1) : toService'[j].op = "prepare"
                          /\ toService'[i].video = sig.video /\ Undecided
        BY <1>7, ServiceKept DEF AcceptQueued
      <3>1. i \in 1..Len(toService) BY <1>1, <1>5
      <3> QED BY <1>5, <2>2, <3>1 DEF GuiInv, AcceptQueued
    <2>4. Rings' BY <1>6 DEF Rings
    <2>5. AcceptAsked' BY <1>1, <1>4 DEF AcceptAsked
    <2>6. Waits' BY <1>6, <1>7, <2>2 DEF GuiInv, Waits
    <2> QED BY <1>7, <2>2, <2>3, <2>4, <2>5, <2>6, ServiceKept DEF GuiInv
  <1> QED BY <1>7, <1>9, <1>10, <1>11, <1>12, ServiceKept DEF CallsInv

\* Nothing is under way when the user accepts.
LEMMA AcceptInv ==
  ASSUME CallsInv, Accept
  PROVE  CallsInv'
  <1> DEFINE c == Command("accept", Nil, vm.video)
  <1>2. CallsTypeOK BY DEF CallsInv
  <1>1. c \in Commands /\ c.op = "accept" /\ c.video = vm.video
    BY <1>2, CommandTypes DEF CallsTypeOK
  <1>3. WithCallPermissions(c) /\ Room(1) BY DEF Accept
  <1> HIDE DEF c
  <1>4. /\ prompts' \subseteq Asks
        /\ \A a \in prompts' : IF a.live THEN a.cmd = c ELSE a.cmd = End
        /\ \A a, b \in prompts' : a.live /\ b.live => a = b
        /\ AtMost(c)
        /\ (\E a \in prompts' : a.live) => toService' = toService
    BY <1>1, <1>2, <1>3, PermissionsAsked
  <1>5. /\ toService' \in Seq(Commands) /\ Len(toService') <= Backlog
        /\ Len(toService') \in Nat /\ Len(toService) \in Nat
        /\ \A i \in 1..Len(toService') : toService'[i].op = "start" => toService'[i].to \in Peers
        /\ Len(toService') = Len(toService) \/ Len(toService') = Len(toService) + 1
        /\ \A i \in 1..Len(toService) : toService'[i] = toService[i]
        /\ Len(toService') = Len(toService) + 1 => toService'[Len(toService) + 1] = c
    BY <1>1, <1>2, <1>3, <1>4, AtMostType
  <1>6. /\ vm' \in Windows /\ vm'.open = vm.open /\ vm'.incoming = vm.incoming
        /\ vm'.accepted = TRUE /\ vm.open /\ vm.incoming /\ ~vm.accepted
    <2>1. vm \in Windows BY <1>2 DEF CallsTypeOK, Windows
    <2>2. vm' = [vm EXCEPT !.accepted = TRUE] /\ Answering BY DEF Accept
    <2> QED BY <2>1, <2>2 DEF Windows, Answering
  <1>7. /\ UNCHANGED <<mic, cam, toGui, calls, online, sig, rtc, disco, open, sids, died, agreed, astray>>
        /\ overlap' = overlap
    BY DEF Accept, service
  <1>9. CallsTypeOK'
    BY <1>2, <1>4, <1>5, <1>6, <1>7 DEF CallsTypeOK, Asks, Windows
  <1>10. PromptInv'
    BY <1>1, <1>4, <1>6, CommandTypes DEF CallsInv, PromptInv
  <1>11. ClosedInv' BY <1>6 DEF ClosedInv
  <1>12. AloneInv'
    <2> SUFFICES ASSUME ~overlap' PROVE astray' \subseteq {"early"} /\ GuiInv' /\ FlightInv' /\ RtcInv'
      BY DEF AloneInv
    <2>2. astray \subseteq {"early"} /\ GuiInv /\ FlightInv /\ RtcInv BY <1>7 DEF CallsInv, AloneInv
    <2>3. OnlyPrepares /\ Undecided /\ vm.video = sig.video
      BY <1>6, <2>2 DEF GuiInv, Rings
    <2>7. AcceptQueued'
      <3> SUFFICES ASSUME NEW i \in 1..Len(toService'), toService'[i].op = "accept"
                   PROVE  /\ \A j \in 1..(i-1) : toService'[j].op = "prepare"
                          /\ toService'[i].video = sig.video /\ Undecided
        BY <1>7, ServiceKept DEF AcceptQueued
      <3>1. i = Len(toService) + 1 /\ toService'[i] = c
        BY <1>5, <2>3 DEF OnlyPrepares
      <3> QED BY <1>1, <1>5, <2>3, <3>1 DEF OnlyPrepares
    <2>4. Rings' BY <1>6 DEF Rings
    <2>5. AcceptAsked'
      <3> SUFFICES ASSUME NEW a \in prompts', a.live
                   PROVE  vm'.incoming /\ OnlyPrepares' /\ Undecided' /\ a.cmd.video = sig'.video
        BY DEF AcceptAsked
      <3>1. toService' = toService /\ a.cmd = c BY <1>4
      <3>2. OnlyPrepares' BY <2>3, <3>1 DEF OnlyPrepares
      <3> QED BY <1>1, <1>6, <1>7, <2>3, <3>1, <3>2, ServiceKept
    <2>6. Waits' BY <1>6, <1>7, <2>2 DEF GuiInv, Waits
    <2> QED BY <1>7, <2>2, <2>4, <2>5, <2>6, <2>7, ServiceKept DEF GuiInv
  <1> QED BY <1>7, <1>9, <1>10, <1>11, <1>12, ServiceKept DEF CallsInv

\* A closed window.
LEMMA ClosedType ==
  Closed \in Windows /\ ~Closed.open /\ ~Closed.incoming
  BY DEF Closed, Windows

\* What is posted when the window closes.
LEMMA EndsCall ==
  ASSUME NEW first \in {<<>>, <<Reject>>}
  PROVE  LET e == first \o <<End>> IN
         /\ e \in Seq(Commands) /\ Len(e) \in {1, 2} /\ e[Len(e)] = End /\ Len(e) = Len(first) + 1
         /\ \A i \in 1..Len(e) : e[i].op \in {"end", "reject"}
  <1> DEFINE e == first \o <<End>>
  <1>1. first \in Seq(Commands) /\ (Len(first) = 0 \/ (Len(first) = 1 /\ first[1] = Reject))
    <2>1. <<Reject>> \in Seq(Commands) /\ Len(<<Reject>>) = 1 /\ <<Reject>>[1] = Reject BY CommandTypes
    <2>2. <<>> \in Seq(Commands) /\ Len(<<>>) = 0 OBVIOUS
    <2>3. CASE first = <<>> BY <2>2, <2>3
    <2>4. CASE first = <<Reject>> BY <2>1, <2>4
    <2> QED BY <2>3, <2>4
  <1>2. /\ e \in Seq(Commands) /\ Len(e) = Len(first) + 1
        /\ \A i \in 1..Len(first) : e[i] = first[i]
        /\ e[Len(first) + 1] = End
    BY <1>1, CommandTypes, Joined
  <1> HIDE DEF e
  <1>3. e[Len(e)] = End /\ \A i \in 1..Len(e) : e[i].op \in {"end", "reject"}
    BY <1>1, <1>2, CommandTypes
  <1> QED BY <1>1, <1>2, <1>3 DEF e

\* Closing the window: the last command is the end of the call.
LEMMA ResetInv ==
  ASSUME CallsInv, vm.open, NEW first \in {<<>>, <<Reject>>},
         Room(Len(first) + 1), ResetCall(first),
         toGui' \in Seq([signal : {"propose", "terminate"}, video : BOOLEAN]),
         \A i \in 1..Len(toGui') : \E j \in 1..Len(toGui) : toGui'[i] = toGui[j],
         UNCHANGED <<mic, cam, calls, service>>
  PROVE  CallsInv'
  <1>1. CallsTypeOK BY DEF CallsInv
  <1>2. UNCHANGED <<online, sig, rtc, disco, open, sids, died, agreed, astray>> /\ overlap' = overlap
    BY DEF service
  <1>3. toService \in Seq(Commands) /\ Len(toService) <= Backlog /\ Len(toService) \in Nat
        /\ \A i \in 1..Len(toService) : toService[i].op = "start" => toService[i].to \in Peers
    BY <1>1 DEF CallsTypeOK
  <1> DEFINE e == first \o <<End>>
  <1>4. /\ e \in Seq(Commands) /\ Len(e) \in {1, 2} /\ e[Len(e)] = End /\ Len(e) = Len(first) + 1
        /\ \A i \in 1..Len(e) : e[i].op \in {"end", "reject"}
    BY EndsCall
  <1>5. toService' = toService \o e /\ vm' = Closed /\ prompts' = Outdated
    BY DEF ResetCall, Post
  <1>6. Len(toService) + Len(e) <= Backlog BY <1>4 DEF Room
  <1> HIDE DEF e
  <1>7. /\ toService' \in Seq(Commands) /\ Len(toService') = Len(toService) + Len(e)
        /\ \A i \in 1..Len(toService) : toService'[i] = toService[i]
        /\ \A i \in 1..Len(e) : toService'[Len(toService) + i] = e[i]
    BY <1>3, <1>4, <1>5
  <1>8. \A i \in 1..Len(toService') : i \in 1..Len(toService) \/ toService'[i].op \in {"end", "reject"}
    <2> SUFFICES ASSUME NEW i \in 1..Len(toService'), i \notin 1..Len(toService)
                 PROVE  toService'[i].op \in {"end", "reject"}
      OBVIOUS
    <2>1. i - Len(toService) \in 1..Len(e) /\ i = Len(toService) + (i - Len(toService))
      BY <1>3, <1>4, <1>7
    <2> QED BY <1>4, <1>7, <2>1
  <1>9. toService'[Len(toService')] = End
    <2>1. Len(e) \in 1..Len(e) BY <1>4
    <2> QED BY <1>4, <1>7, <2>1
  <1>10. CallsTypeOK'
    <2>1. \A i \in 1..Len(toService') : toService'[i].op = "start" => toService'[i].to \in Peers
      BY <1>3, <1>7, <1>8
    <2>2. Len(toService') <= Backlog BY <1>6, <1>7
    <2>3. vm' \in Windows /\ prompts' \subseteq Asks BY <1>1, <1>5, ClosedType, OutdatedType
    <2> QED BY <1>1, <1>2, <1>7, <2>1, <2>2, <2>3 DEF CallsTypeOK, Windows, Asks
  <1>11. PromptInv'
    BY <1>1, <1>5, ClosedType, OutdatedType, CommandTypes DEF PromptInv
  <1>12. ClosedInv'
    <2>1. \A a \in prompts' : ~a.live BY <1>1, <1>5, OutdatedType
    <2>2. Len(toService') > 0 /\ toService'[Len(toService')].op = "end"
      BY <1>3, <1>4, <1>7, <1>9, CommandTypes
    <2> QED BY <2>1, <2>2 DEF ClosedInv
  <1>13. AloneInv'
    <2> SUFFICES ASSUME ~overlap' PROVE astray' \subseteq {"early"} /\ GuiInv' /\ FlightInv' /\ RtcInv'
      BY DEF AloneInv
    <2>1. astray \subseteq {"early"} /\ GuiInv /\ FlightInv /\ RtcInv BY <1>2 DEF CallsInv, AloneInv
    <2>2. AcceptQueued'
      <3>1. Undecided' = Undecided /\ sig' = sig BY <1>2, ServiceKept
      <3>2. ASSUME NEW i \in 1..Len(toService'), toService'[i].op = "accept"
            PROVE  /\ \A j \in 1..(i-1) : toService'[j].op = "prepare"
                   /\ toService'[i].video = sig.video /\ Undecided
        <4>1. i \in 1..Len(toService) /\ toService'[i] = toService[i] BY <1>7, <1>8, <3>2
        <4>2. \A j \in 1..(i-1) : j \in 1..Len(toService) /\ toService'[j] = toService[j]
          BY <1>3, <1>7, <4>1
        <4>3. AcceptQueued BY <2>1 DEF GuiInv
        <4> QED BY <3>2, <4>1, <4>2, <4>3 DEF AcceptQueued
      <3> QED BY <3>1, <3>2 DEF AcceptQueued
    <2>3. Rings' BY <1>5, ClosedType DEF Rings
    <2>4. AcceptAsked' BY <1>1, <1>5, OutdatedType DEF AcceptAsked
    <2>5. Waits' BY <2>1 DEF GuiInv, Waits
    <2> QED BY <1>2, <2>1, <2>2, <2>3, <2>4, <2>5, ServiceKept DEF GuiInv
  <1> QED BY <1>2, <1>10, <1>11, <1>12, <1>13, ServiceKept DEF CallsInv

\* The buttons and the signal that close the window.
LEMMA DeclineCallInv ==
  ASSUME CallsInv, DeclineCall
  PROVE  CallsInv'
  <1>1. vm.open /\ Room(2) /\ ResetCall(<<Reject>>) /\ UNCHANGED <<mic, cam, toGui, calls, service>>
    BY DEF DeclineCall, Answering
  <1>2. toGui' \in Seq([signal : {"propose", "terminate"}, video : BOOLEAN])
    BY <1>1 DEF CallsInv, CallsTypeOK
  <1>3. Room(Len(<<Reject>>) + 1) BY <1>1
  <1>4. \A i \in 1..Len(toGui') : \E j \in 1..Len(toGui) : toGui'[i] = toGui[j] BY <1>1
  <1> QED BY <1>1, <1>2, <1>3, <1>4, ResetInv

\* The user closes the window.
LEMMA CloseWindowInv ==
  ASSUME CallsInv, CloseWindow
  PROVE  CallsInv'
  <1>1. vm.open /\ Room(1) /\ ResetCall(<<>>) /\ UNCHANGED <<mic, cam, toGui, calls, service>>
    BY DEF CloseWindow
  <1>2. toGui' \in Seq([signal : {"propose", "terminate"}, video : BOOLEAN])
    BY <1>1 DEF CallsInv, CallsTypeOK
  <1>3. Room(Len(<<>>) + 1) BY <1>1
  <1>4. \A i \in 1..Len(toGui') : \E j \in 1..Len(toGui) : toGui'[i] = toGui[j] BY <1>1
  <1> QED BY <1>1, <1>2, <1>3, <1>4, ResetInv

\* The other party ended: a window that is open closes.
LEMMA TerminateShownInv ==
  ASSUME CallsInv, TerminateShown
  PROVE  CallsInv'
  <1> DEFINE S == [signal : {"propose", "terminate"}, video : BOOLEAN]
  <1>1. toGui \in Seq(S) /\ toGui # <<>> /\ toGui' = Tail(toGui) /\ CallsTypeOK
    BY DEF CallsInv, CallsTypeOK, TerminateShown
  <1> HIDE DEF S
  <1>2. toGui' \in Seq(S) /\ Len(toGui') = Len(toGui) - 1 /\ Len(toGui) \in Nat /\ Len(toGui) > 0
        /\ \A i \in 1..Len(toGui') : toGui'[i] = toGui[i+1]
    BY <1>1, TailOf
  <1>3. \A i \in 1..Len(toGui') : i+1 \in 1..Len(toGui) /\ toGui'[i] = toGui[i+1]
    BY <1>2
  <1>4. UNCHANGED <<mic, cam, calls, service>> BY DEF TerminateShown
  <1>5. CASE vm.open
    <2>1. ResetCall(<<>>) /\ Room(1) BY <1>5 DEF TerminateShown
    <2>2. Room(Len(<<>>) + 1) BY <2>1
    <2> QED BY <1>2, <1>3, <1>4, <1>5, <2>1, <2>2, ResetInv DEF S
  <1>6. CASE ~vm.open
    <2>1. UNCHANGED <<vm, prompts, toService>> BY <1>6 DEF TerminateShown
    <2>2. UNCHANGED <<online, sig, rtc, disco, open, sids, died, agreed, astray>> /\ overlap' = overlap
      BY <1>4 DEF service
    <2>3. CallsTypeOK' BY <1>1, <1>2, <1>4, <2>1, <2>2 DEF CallsTypeOK, S
    <2>4. PromptInv' /\ ClosedInv' BY <2>1, <2>2 DEF CallsInv, PromptInv, ClosedInv
    <2>5. AloneInv'
      <3> SUFFICES ASSUME ~overlap' PROVE astray' \subseteq {"early"} /\ GuiInv' /\ FlightInv' /\ RtcInv'
        BY DEF AloneInv
      <3>1. astray \subseteq {"early"} /\ GuiInv /\ FlightInv /\ RtcInv BY <2>2 DEF CallsInv, AloneInv
      <3>2. AcceptQueued' /\ Rings' /\ AcceptAsked'
        BY <2>1, <2>2, <3>1, ServiceKept DEF GuiInv, AcceptQueued, Rings, AcceptAsked, OnlyPrepares
      <3>3. Waits'
        <4> SUFFICES ASSUME NEW i \in 1..Len(toGui'), toGui'[i].signal = "propose"
                     PROVE  /\ \A j \in 1..Len(toGui') : toGui'[j].signal = "propose" => j = i
                            /\ Len(toService) = 0 /\ ~vm.open /\ Undecided
                            /\ toGui'[i].video = sig.video
          BY <2>1, <2>2, ServiceKept DEF Waits
        <4>1. i+1 \in 1..Len(toGui) /\ toGui[i+1].signal = "propose" /\ toGui'[i] = toGui[i+1]
          BY <1>3
        <4>2. \A j \in 1..Len(toGui') : toGui'[j].signal = "propose" => j + 1 = i + 1
          BY <1>3, <3>1, <4>1 DEF GuiInv, Waits
        <4> QED BY <1>2, <3>1, <4>1, <4>2 DEF GuiInv, Waits
      <3> QED BY <2>2, <3>1, <3>2, <3>3, ServiceKept DEF GuiInv
    <2> QED BY <2>2, <2>3, <2>4, <2>5, ServiceKept DEF CallsInv
  <1> QED BY <1>5, <1>6

\* A proposal is shown: nothing was under way when it came, and nothing is now.
LEMMA ProposeShownInv ==
  ASSUME CallsInv, ProposeShown
  PROVE  CallsInv'
  <1> DEFINE S == [signal : {"propose", "terminate"}, video : BOOLEAN]
             c == Command("prepare", Nil, TRUE)
             v == toGui[1].video
  <1>1. toGui \in Seq(S) /\ toGui # <<>> /\ toGui' = Tail(toGui) /\ CallsTypeOK
        /\ Head(toGui).signal = "propose"
    BY DEF CallsInv, CallsTypeOK, ProposeShown
  <1>2. toGui' \in Seq(S) /\ Len(toGui') = Len(toGui) - 1 /\ Len(toGui) \in Nat /\ Len(toGui) > 0
        /\ Head(toGui) = toGui[1] /\ toGui[1] \in S
        /\ \A i \in 1..Len(toGui') : toGui'[i] = toGui[i+1]
    BY <1>1, TailOf
  <1>3. v \in BOOLEAN BY <1>2
  <1>4. c \in Commands /\ c.op = "prepare" BY CommandTypes
  <1>5. AtMost(c) /\ Room(1) /\ toService' = toService \o <<c>> BY DEF ProposeShown, Post, AtMost
  <1>6. vm' = [[vm EXCEPT !.open = TRUE, !.incoming = TRUE, !.started = FALSE] EXCEPT !.video = v]
    BY <1>2 DEF ProposeShown, Shown
  <1> HIDE DEF S, c, v
  <1>7. UNCHANGED <<online, sig, rtc, disco, open, sids, died, agreed, astray, mic, cam, prompts, calls>>
        /\ overlap' = overlap
    BY DEF ProposeShown, service
  <1>8. /\ toService' \in Seq(Commands) /\ Len(toService') <= Backlog
        /\ Len(toService') \in Nat /\ Len(toService) \in Nat
        /\ \A i \in 1..Len(toService') : toService'[i].op = "start" => toService'[i].to \in Peers
        /\ Len(toService') = Len(toService) \/ Len(toService') = Len(toService) + 1
        /\ \A i \in 1..Len(toService) : toService'[i] = toService[i]
        /\ Len(toService') = Len(toService) + 1 => toService'[Len(toService) + 1] = c
    BY <1>1, <1>4, <1>5, AtMostType
  <1>9. vm' \in Windows /\ vm'.open = TRUE /\ vm'.incoming = TRUE /\ vm'.video = v
    <2>1. vm \in Windows BY <1>1 DEF CallsTypeOK, Windows
    <2> QED BY <1>3, <1>6, <2>1 DEF Windows
  <1>10. CallsTypeOK'
    BY <1>1, <1>2, <1>7, <1>8, <1>9 DEF CallsTypeOK, Windows, S
  <1>11. PromptInv' BY <1>7, <1>9 DEF CallsInv, PromptInv
  <1>12. ClosedInv' BY <1>9 DEF ClosedInv
  <1>13. AloneInv'
    <2> SUFFICES ASSUME ~overlap' PROVE astray' \subseteq {"early"} /\ GuiInv' /\ FlightInv' /\ RtcInv'
      BY DEF AloneInv
    <2>1. astray \subseteq {"early"} /\ GuiInv /\ FlightInv /\ RtcInv BY <1>7 DEF CallsInv, AloneInv
    <2>2. 1 \in 1..Len(toGui) /\ toGui[1].signal = "propose" BY <1>1, <1>2
    <2>3. /\ \A j \in 1..Len(toGui) : toGui[j].signal = "propose" => j = 1
          /\ Len(toService) = 0 /\ ~vm.open /\ Undecided /\ v = sig.video
      BY <2>1, <2>2 DEF GuiInv, Waits, v
    <2>4. \A i \in 1..Len(toService') : toService'[i].op = "prepare"
      <3> SUFFICES ASSUME NEW i \in 1..Len(toService') PROVE toService'[i].op = "prepare"
        OBVIOUS
      <3>1. Len(toService') = Len(toService) + 1 /\ i = Len(toService) + 1 BY <1>8, <2>3
      <3> QED BY <1>4, <1>8, <3>1
    <2>5. \A a \in prompts : ~a.live BY <2>3 DEF CallsInv, ClosedInv
    <2>6. Undecided' BY <1>7, <2>3, ServiceKept
    <2>7. AcceptQueued' BY <2>4 DEF AcceptQueued
    <2>8. Rings' BY <1>7, <1>9, <2>3, <2>4, <2>5, <2>6 DEF Rings, OnlyPrepares
    <2>9. AcceptAsked' BY <1>7, <2>5 DEF AcceptAsked
    <2>10. Waits'
      <3>1. \A i \in 1..Len(toGui') : i+1 \in 1..Len(toGui) /\ i+1 # 1 /\ toGui'[i] = toGui[i+1]
        BY <1>2
      <3> QED BY <2>3, <3>1 DEF Waits
    <2> QED BY <1>7, <2>1, <2>7, <2>8, <2>9, <2>10, ServiceKept DEF GuiInv
  <1> QED BY <1>7, <1>10, <1>11, <1>12, <1>13, ServiceKept DEF CallsInv

\* The answer to a prompt: only the request that is still live posts its command.
LEMMA PermissionAnsweredInv ==
  ASSUME CallsInv, NEW a \in prompts, PermissionAnswered(a)
  PROVE  CallsInv'
  <1> DEFINE c == a.cmd
             k == [stage |-> "camera", cmd |-> c, live |-> TRUE]
  <1>1. CallsTypeOK BY DEF CallsInv
  <1>2. a \in Asks /\ c \in Commands /\ (c.op = "start" => c.to \in Peers)
    BY <1>1 DEF CallsTypeOK, CallsInv, PromptInv, Asks
  <1>3. k \in Asks /\ k.cmd = c /\ k.live BY <1>2, AskType
  <1>4. Room(1) /\ UNCHANGED <<online, sig, rtc, disco, open, sids, died, agreed, astray, vm, toGui, calls>>
        /\ overlap' = overlap
    BY DEF PermissionAnswered, service
  <1>5. /\ mic' \in {"granted", "undetermined", "denied"}
        /\ cam' \in {"granted", "undetermined", "denied"}
    BY <1>1 DEF PermissionAnswered, CallsTypeOK
  <1>6. \/ prompts' = prompts \ {a} /\ toService' = toService
        \/ a.live /\ prompts' = (prompts \ {a}) \cup {k} /\ toService' = toService
        \/ a.live /\ prompts' = prompts \ {a} /\ toService' = toService \o <<c>>
    BY DEF PermissionAnswered, WithCamera, Post
  <1> HIDE DEF c, k
  <1>7. AtMost(c) BY <1>6 DEF AtMost
  <1>8. /\ toService' \in Seq(Commands) /\ Len(toService') <= Backlog
        /\ Len(toService') \in Nat /\ Len(toService) \in Nat
        /\ \A i \in 1..Len(toService') : toService'[i].op = "start" => toService'[i].to \in Peers
        /\ Len(toService') = Len(toService) \/ Len(toService') = Len(toService) + 1
        /\ \A i \in 1..Len(toService) : toService'[i] = toService[i]
        /\ Len(toService') = Len(toService) + 1 => toService'[Len(toService) + 1] = c
    BY <1>1, <1>2, <1>4, <1>7, AtMostType
  <1>9. CallsTypeOK'
    <2>1. prompts' \subseteq Asks BY <1>1, <1>3, <1>6 DEF CallsTypeOK, Asks
    <2> QED BY <1>1, <1>4, <1>5, <1>8, <2>1 DEF CallsTypeOK, Asks
  <1>10. PromptInv' BY <1>2, <1>3, <1>4, <1>6 DEF CallsInv, PromptInv
  <1>11. ClosedInv' BY <1>4, <1>6 DEF CallsInv, ClosedInv
  <1>12. AloneInv'
    <2> SUFFICES ASSUME ~overlap' PROVE astray' \subseteq {"early"} /\ GuiInv' /\ FlightInv' /\ RtcInv'
      BY DEF AloneInv
    <2>1. astray \subseteq {"early"} /\ GuiInv /\ FlightInv /\ RtcInv BY <1>4 DEF CallsInv, AloneInv
    <2>2. Undecided' = Undecided /\ sig' = sig BY <1>4, ServiceKept
    <2>3. a.live => (vm.open /\ ~(vm.incoming /\ ~vm.accepted))
      BY <2>1 DEF CallsInv, ClosedInv, GuiInv, Rings
    <2>4. a.live /\ c.op = "accept" => vm.incoming /\ OnlyPrepares /\ Undecided /\ c.video = sig.video
      BY <2>1 DEF GuiInv, AcceptAsked, c
    <2>5. \A b \in prompts : b.live /\ a.live => b = a BY DEF CallsInv, PromptInv
    <2>6. AcceptQueued'
      <3>1. ASSUME NEW i \in 1..Len(toService'), toService'[i].op = "accept"
            PROVE  /\ \A j \in 1..(i-1) : toService'[j].op = "prepare"
                   /\ toService'[i].video = sig.video /\ Undecided
        <4>1. CASE i \in 1..Len(toService)
          <5>1. toService'[i] = toService[i] BY <1>8, <4>1
          <5>2. \A j \in 1..(i-1) : j \in 1..Len(toService) /\ toService'[j] = toService[j]
            BY <1>8, <4>1
          <5>3. AcceptQueued BY <2>1 DEF GuiInv
          <5> QED BY <3>1, <4>1, <5>1, <5>2, <5>3 DEF AcceptQueued
        <4>2. CASE i \notin 1..Len(toService)
          <5>1. i = Len(toService) + 1 /\ toService'[i] = c /\ toService' # toService BY <1>8, <4>2
          <5>2. a.live /\ c.op = "accept" BY <1>6, <3>1, <5>1
          <5>3. \A j \in 1..(i-1) : j \in 1..Len(toService) /\ toService'[j] = toService[j]
            BY <1>8, <5>1
          <5> QED BY <2>4, <5>1, <5>2, <5>3 DEF OnlyPrepares
        <4> QED BY <4>1, <4>2
      <3> QED BY <2>2, <3>1 DEF AcceptQueued
    <2>7. Rings'
      <3> SUFFICES ASSUME vm'.incoming /\ ~vm'.accepted
                   PROVE  /\ OnlyPrepares' /\ Undecided' /\ vm'.video = sig'.video
                          /\ \A b \in prompts' : ~b.live
        BY DEF Rings
      <3>1. vm.incoming /\ ~vm.accepted /\ ~a.live BY <1>4, <2>3
      <3>2. toService' = toService /\ prompts' = prompts \ {a} BY <1>6, <3>1
      <3>3. OnlyPrepares' = OnlyPrepares BY <3>2 DEF OnlyPrepares
      <3> QED BY <1>4, <2>1, <2>2, <3>1, <3>2, <3>3 DEF GuiInv, Rings
    <2>8. AcceptAsked'
      <3> SUFFICES ASSUME NEW b \in prompts', b.live, b.cmd.op = "accept"
                   PROVE  vm'.incoming /\ OnlyPrepares' /\ Undecided' /\ b.cmd.video = sig'.video
        BY DEF AcceptAsked
      <3>1. toService' = toService /\ (b \in prompts \/ (b = k /\ a.live)) BY <1>6, <2>5
      <3>2. OnlyPrepares' = OnlyPrepares BY <3>1 DEF OnlyPrepares
      <3>3. CASE b \in prompts
        BY <1>4, <2>1, <2>2, <3>2, <3>3 DEF GuiInv, AcceptAsked
      <3>4. CASE b = k /\ a.live
        BY <1>3, <1>4, <2>2, <2>4, <3>2, <3>4
      <3> QED BY <3>1, <3>3, <3>4
    <2>9. Waits'
      <3>1. ProposalWaits => toService' = toService
        BY <1>6, <2>1, <2>3 DEF ProposalWaits, GuiInv, Waits
      <3> QED BY <1>4, <2>1, <2>2, <3>1 DEF GuiInv, Waits, ProposalWaits
    <2> QED BY <1>4, <2>1, <2>6, <2>7, <2>8, <2>9, ServiceKept DEF GuiInv
  <1> QED BY <1>4, <1>9, <1>10, <1>11, <1>12, ServiceKept DEF CallsInv

-----------------------------------------------------------------------------
\* The XMPP thread: commands.

\* What is left when a command was taken.
LEMMA Taken ==
  ASSUME CallsTypeOK, NEW op, Take(op)
  PROVE  /\ toService' \in Seq(Commands) /\ Len(toService') <= Backlog
         /\ Len(toService) \in Nat /\ Len(toService) > 0 /\ Len(toService') = Len(toService) - 1
         /\ \A i \in 1..Len(toService') : i + 1 \in 1..Len(toService) /\ toService'[i] = toService[i+1]
         /\ \A i \in 1..Len(toService') : toService'[i].op = "start" => toService'[i].to \in Peers
         /\ 1 \in 1..Len(toService) /\ Head(toService) = toService[1]
         /\ toService[1].op = op /\ toService[1] \in Commands
  <1>1. /\ toService \in Seq(Commands) /\ Len(toService) <= Backlog /\ toService # <<>>
        /\ toService' = Tail(toService) /\ Head(toService).op = op
        /\ \A i \in 1..Len(toService) : toService[i].op = "start" => toService[i].to \in Peers
    BY DEF CallsTypeOK, Take
  <1>2. /\ toService' \in Seq(Commands) /\ Len(toService') = Len(toService) - 1
        /\ Len(toService) \in Nat /\ Len(toService) > 0
        /\ \A i \in 1..Len(toService') : toService'[i] = toService[i+1]
        /\ Head(toService) = toService[1] /\ toService[1] \in Commands
    BY <1>1, TailOf
  <1>3. \A i \in 1..Len(toService') : i + 1 \in 1..Len(toService) /\ toService'[i] = toService[i+1]
    BY <1>2
  <1>4. Len(toService') <= Backlog BY <1>1, <1>2, CallsAssumption
  <1>5. \A i \in 1..Len(toService') : toService'[i].op = "start" => toService'[i].to \in Peers
    BY <1>1, <1>3
  <1> QED BY <1>1, <1>2, <1>3, <1>4, <1>5

\* A command other than the end leaves the end behind it in the queue.
LEMMA TakenClosed ==
  ASSUME CallsInv, NEW op, Take(op), op # "end", UNCHANGED gui
  PROVE  ClosedInv' /\ PromptInv'
  <1>1. UNCHANGED <<mic, cam, prompts, vm>> BY DEF gui
  <1>2. PromptInv' BY <1>1 DEF CallsInv, PromptInv
  <1>3. ASSUME ~vm.open
        PROVE  Len(toService') > 0 /\ toService'[Len(toService')].op = "end"
    <2>1. CallsTypeOK /\ ClosedInv BY DEF CallsInv
    <2>2. /\ Len(toService) \in Nat /\ Len(toService) > 0 /\ Len(toService') = Len(toService) - 1
          /\ \A i \in 1..Len(toService') : i + 1 \in 1..Len(toService) /\ toService'[i] = toService[i+1]
          /\ toService[1].op = op
      BY <2>1, Taken
    <2>3. toService[Len(toService)].op = "end" BY <1>3, <2>1, <2>2 DEF ClosedInv
    <2>4. Len(toService) # 1 BY <2>2, <2>3
    <2>5. Len(toService') \in 1..Len(toService') /\ Len(toService') + 1 = Len(toService)
      BY <2>2, <2>4
    <2> QED BY <2>2, <2>3, <2>5
  <1>4. ClosedInv' BY <1>1, <1>3 DEF CallsInv, ClosedInv
  <1> QED BY <1>2, <1>4

\* When a command other than a preparation is taken, no acceptance is behind it, and
\* no incoming call waits for the user.
LEMMA TakenGui ==
  ASSUME CallsInv, ~overlap, NEW op, Take(op), op # "prepare", UNCHANGED <<gui, toGui>>
  PROVE  /\ GuiInv'
         /\ op = "accept" => Undecided /\ toService[1].video = sig.video
  <1>1. UNCHANGED <<mic, cam, prompts, vm, toGui>> BY DEF gui
  <1>2. CallsTypeOK /\ AcceptQueued /\ Rings /\ AcceptAsked /\ Waits BY DEF CallsInv, AloneInv, GuiInv
  <1>3. /\ Len(toService) \in Nat /\ Len(toService) > 0 /\ Len(toService') = Len(toService) - 1
        /\ \A i \in 1..Len(toService') : i + 1 \in 1..Len(toService) /\ toService'[i] = toService[i+1]
        /\ 1 \in 1..Len(toService) /\ toService[1].op = op
    BY <1>2, Taken
  <1>4. ~OnlyPrepares BY <1>3 DEF OnlyPrepares
  <1>5. AcceptQueued'
    <2> SUFFICES ASSUME NEW i \in 1..Len(toService'), toService'[i].op = "accept" PROVE FALSE
      BY DEF AcceptQueued
    <2>1. i + 1 \in 1..Len(toService) /\ toService[i+1].op = "accept" /\ 1 \in 1..((i+1)-1)
      BY <1>3
    <2> QED BY <1>2, <1>3, <2>1 DEF AcceptQueued
  <1>6. Rings' BY <1>1, <1>2, <1>4 DEF Rings
  <1>7. AcceptAsked' BY <1>1, <1>2, <1>4 DEF AcceptAsked
  <1>8. Waits' BY <1>1, <1>2, <1>3 DEF Waits
  <1>9. op = "accept" => Undecided /\ toService[1].video = sig.video
    BY <1>2, <1>3 DEF AcceptQueued
  <1> QED BY <1>5, <1>6, <1>7, <1>8, <1>9 DEF GuiInv

\* What an unused client, or the one of a call that is not started, looks like.
LEMMA ExistingIdle ==
  ASSUME CallsTypeOK, RtcInv, ~sig.started
  PROVE  /\ Existing.peer = Nil /\ Existing.pending = "none"
         /\ Existing.command = "start" \/ Existing.capture = "on" => agreed
  <1>1. CASE rtc = Nil BY <1>1, ExistingType, NewClientType DEF CallsTypeOK
  <1>2. CASE rtc # Nil BY <1>2, ExistingType DEF CallsTypeOK, RtcInv
  <1> QED BY <1>1, <1>2

\* A preparation of a call that is not started.
LEMMA PrepareServiceInv ==
  ASSUME CallsInv, ~died, PrepareService
  PROVE  CallsInv'
  <1>1. CallsTypeOK /\ Take("prepare") BY DEF CallsInv, PrepareService
  <1>2. /\ toService' \in Seq(Commands) /\ Len(toService') <= Backlog
        /\ Len(toService) \in Nat /\ Len(toService) > 0 /\ Len(toService') = Len(toService) - 1
        /\ \A i \in 1..Len(toService') : i + 1 \in 1..Len(toService) /\ toService'[i] = toService[i+1]
        /\ \A i \in 1..Len(toService') : toService'[i].op = "start" => toService'[i].to \in Peers
        /\ 1 \in 1..Len(toService) /\ toService[1].op = "prepare"
    BY <1>1, Taken
  <1>3. /\ UNCHANGED <<mic, cam, prompts, vm, toGui, online, sig, disco, open, calls, sids, died, agreed, astray>>
        /\ UNCHANGED gui
    BY DEF PrepareService, gui
  <1>4. ClosedInv' /\ PromptInv' BY <1>1, <1>3, TakenClosed
  <1>5. Undecided' = Undecided /\ InFlight' = InFlight BY <1>3 DEF Undecided, InFlight
  <1>6. GuiInv => GuiInv'
    <2> SUFFICES ASSUME GuiInv PROVE GuiInv'
      OBVIOUS
    <2>1. AcceptQueued'
      <3>1. ASSUME NEW i \in 1..Len(toService'), toService'[i].op = "accept"
            PROVE  /\ \A j \in 1..(i-1) : toService'[j].op = "prepare"
                   /\ toService'[i].video = sig.video /\ Undecided
        <4>1. i + 1 \in 1..Len(toService) /\ toService[i+1].op = "accept" /\ toService'[i] = toService[i+1]
          BY <1>2, <3>1
        <4>2. \A j \in 1..(i-1) : j + 1 \in 1..((i+1)-1) /\ toService'[j] = toService[j+1]
          BY <1>2
        <4> QED BY <4>1, <4>2 DEF GuiInv, AcceptQueued
      <3> QED BY <1>3, <1>5, <3>1 DEF AcceptQueued
    <2>2. OnlyPrepares => OnlyPrepares' BY <1>2 DEF OnlyPrepares
    <2>3. Rings' /\ AcceptAsked' BY <1>3, <1>5, <2>2 DEF GuiInv, Rings, AcceptAsked
    <2>4. Waits' BY <1>2, <1>3 DEF GuiInv, Waits
    <2> QED BY <2>1, <2>3, <2>4 DEF GuiInv
  <1>7. CASE sig.started
    <2>1. rtc' = rtc /\ overlap' = overlap BY <1>7 DEF PrepareService
    <2>2. CallsTypeOK' BY <1>1, <1>2, <1>3, <2>1 DEF CallsTypeOK
    <2>3. AloneInv'
      BY <1>3, <1>6, <2>1, ServiceKept DEF CallsInv, AloneInv
    <2> QED BY <1>3, <1>4, <2>1, <2>2, <2>3, ServiceKept DEF CallsInv
  <1>8. CASE ~sig.started
    <2> DEFINE c == Prepare(Existing)
    <2>1. PICK ok \in BOOLEAN : PrepareMedia(c, FALSE, ok)
      BY <1>8 DEF PrepareService
    <2>2. overlap' = (overlap \/ InFlight) BY <1>8 DEF PrepareService
    <2>3. /\ c \in Clients /\ c.peer = Existing.peer /\ c.pending = Existing.pending
          /\ c.command = Existing.command /\ (c.capture = "on" => Existing.capture = "on")
      BY <1>1, ExistingType, PreparedType DEF CallsTypeOK
    <2> HIDE DEF c
    <2>4. /\ ok => /\ rtc' \in Clients /\ rtc' # Nil /\ rtc'.ready
                   /\ rtc'.peer = c.peer /\ rtc'.pending = c.pending /\ rtc'.camera = FALSE
                   /\ rtc'.command = "start" => c.command = "start"
                   /\ rtc'.capture = "on" => c.capture = "on"
          /\ ~ok => rtc' = Nil
      BY <2>1, <2>3, MediaPrepared
    <2>5. CallsTypeOK'
      <3>1. rtc' \in Clients \cup {Nil} BY <2>4
      <3>2. overlap' \in BOOLEAN BY <1>1, <2>2 DEF CallsTypeOK
      <3> QED BY <1>1, <1>2, <1>3, <3>1, <3>2 DEF CallsTypeOK
    <2>6. ReadyInv' BY <1>3, <1>8 DEF CallsInv, ReadyInv
    <2>7. DiesOnlyByCandidate' BY <1>3 DEF DiesOnlyByCandidate
    <2>8. AloneInv'
      <3> SUFFICES ASSUME ~overlap' PROVE astray' \subseteq {"early"} /\ GuiInv' /\ FlightInv' /\ RtcInv'
        BY DEF AloneInv
      <3>1. ~overlap /\ ~InFlight /\ astray \subseteq {"early"} /\ GuiInv /\ FlightInv /\ RtcInv
        BY <2>2 DEF CallsInv, AloneInv
      <3>2. FlightInv' BY <1>3, <1>5, <3>1 DEF FlightInv
      <3>3. Existing.peer = Nil /\ Existing.pending = "none"
            /\ (Existing.command = "start" \/ Existing.capture = "on" => agreed)
        BY <1>1, <1>8, <3>1, ExistingIdle
      <3>4. \A r \in open : r.t # "accepted" BY <3>1 DEF InFlight
      <3>5. RtcInv' BY <1>3, <2>3, <2>4, <3>3, <3>4 DEF RtcInv
      <3> QED BY <1>3, <1>6, <3>1, <3>2, <3>5
    <2> QED BY <1>4, <2>5, <2>6, <2>7, <2>8 DEF CallsInv
  <1> QED BY <1>7, <1>8

Sigs == [recipient : Peers \cup {Nil}, full : BOOLEAN, video : BOOLEAN, started : BOOLEAN,
         from : Peers \cup {Nil}, partner : Peers \cup {Nil}, sid : 0..MaxSids, with : Peers \cup {Nil}]
Stanzas == [t : {"proposed", "accepted", "offered", "session"}, peer : Peers, id : 0..MaxSids]

\* What is sent.
LEMMA StanzaTypes ==
  ASSUME NEW p \in Peers, NEW n \in 0..MaxSids
  PROVE  /\ Proposal(p) \in Stanzas /\ Proposal(p).t = "proposed" /\ Proposal(p).peer = p
         /\ Acceptance(p) \in Stanzas /\ Acceptance(p).t = "accepted" /\ Acceptance(p).peer = p
         /\ SessionInitiate(p, n) \in Stanzas /\ SessionInitiate(p, n).t = "offered"
         /\ SessionAccept(p, n) \in Stanzas /\ SessionAccept(p, n).t = "session"
  BY CallsAssumption DEF Proposal, Acceptance, SessionInitiate, SessionAccept, Stanzas

\* A start finds nothing in flight, or calls overlap.
LEMMA StartServiceInv ==
  ASSUME CallsInv, ~died, StartService
  PROVE  CallsInv'
  <1> DEFINE c == toService[1]
  <1>1. CallsTypeOK /\ Take("start") BY DEF CallsInv, StartService
  <1>2. /\ toService' \in Seq(Commands) /\ Len(toService') <= Backlog
        /\ \A i \in 1..Len(toService') : toService'[i].op = "start" => toService'[i].to \in Peers
        /\ Head(toService) = c /\ 1 \in 1..Len(toService) /\ c.op = "start" /\ c \in Commands
    BY <1>1, Taken
  <1>3. c.to \in Peers /\ c.video \in BOOLEAN BY <1>1, <1>2 DEF CallsTypeOK, Commands
  <1>4. UNCHANGED <<mic, cam, prompts, vm, toGui, online, disco, calls, sids, died, astray>>
        /\ UNCHANGED <<gui, toGui>>
    BY DEF StartService, gui
  <1>5. ClosedInv' /\ PromptInv' BY <1>1, <1>4, TakenClosed
  <1>6. ~overlap => GuiInv' BY <1>1, <1>4, TakenGui
  <1>7. DiesOnlyByCandidate' BY <1>4 DEF DiesOnlyByCandidate
  <1>8. CASE ~online
    <2>1. UNCHANGED <<sig, rtc, open, agreed, overlap>> BY <1>8 DEF StartService
    <2>2. CallsTypeOK' BY <1>1, <1>2, <1>4, <2>1 DEF CallsTypeOK
    <2> QED BY <1>4, <1>5, <1>6, <2>1, <2>2, ServiceKept DEF CallsInv, AloneInv
  <1>9. CASE online
    <2>1. PICK ok \in BOOLEAN :
            /\ PrepareMedia(Existing, c.video, ok)
            /\ sig' = [sig EXCEPT !.recipient = c.to, !.full = FALSE, !.video = c.video,
                                  !.started = @ \/ ok, !.partner = IF ok THEN c.to ELSE @,
                                  !.with = IF ok THEN c.to ELSE @]
            /\ open' = IF ok THEN open \cup {Proposal(c.to)} ELSE open
            /\ agreed' = (agreed \/ c.video)
            /\ overlap' = (overlap \/ sig.started \/ InFlight)
      BY <1>2, <1>9 DEF StartService
    <2> HIDE DEF c
    <2>2. /\ sig' \in Sigs /\ sig'.recipient = c.to /\ sig'.full = FALSE /\ sig'.video = c.video
          /\ sig'.started = (sig.started \/ ok) /\ sig'.partner = IF ok THEN c.to ELSE sig.partner
          /\ sig'.with = IF ok THEN c.to ELSE sig.with
      <3>1. sig \in Sigs BY <1>1 DEF CallsTypeOK, Sigs
      <3>2. (sig.started \/ ok) \in BOOLEAN /\ (IF ok THEN c.to ELSE sig.partner) \in Peers \cup {Nil}
           /\ (IF ok THEN c.to ELSE sig.with) \in Peers \cup {Nil}
        BY <1>3, <3>1 DEF Sigs
      <3> QED BY <1>3, <2>1, <3>1, <3>2 DEF Sigs
    <2>3. /\ Existing \in Clients
          /\ ok => /\ rtc' \in Clients /\ rtc' # Nil /\ rtc'.ready
                   /\ rtc'.peer = Existing.peer /\ rtc'.pending = Existing.pending
                   /\ rtc'.camera = c.video
                   /\ rtc'.command = "start" => c.video \/ Existing.command = "start"
                   /\ rtc'.capture = "on" => Existing.capture = "on"
          /\ ~ok => rtc' = Nil /\ ~Existing.ready
      <3>1. Existing \in Clients BY <1>1, ExistingType DEF CallsTypeOK
      <3> QED BY <1>3, <2>1, <3>1, MediaPrepared
    <2>4. ~ok => ~sig.started
      BY <1>1, <2>3, ExistingType DEF CallsInv, CallsTypeOK, ReadyInv
    <2>5. ReadyInv' BY <2>2, <2>3, <2>4 DEF ReadyInv
    <2>6. CallsTypeOK'
      <3>1. open' \subseteq Stanzas
        <4>1. open \subseteq Stanzas BY <1>1 DEF CallsTypeOK, Stanzas
        <4>2. Proposal(c.to) \in Stanzas BY <1>3, StanzaTypes, CallsAssumption
        <4> QED BY <2>1, <4>1, <4>2
      <3>2. agreed' \in BOOLEAN /\ overlap' \in BOOLEAN /\ rtc' \in Clients \cup {Nil}
        BY <2>1, <2>3
      <3> QED BY <1>1, <1>2, <1>4, <2>2, <3>1, <3>2 DEF CallsTypeOK, Sigs, Stanzas
    <2>7. AloneInv'
      <3> SUFFICES ASSUME ~overlap' PROVE astray' \subseteq {"early"} /\ GuiInv' /\ FlightInv' /\ RtcInv'
        BY DEF AloneInv
      <3>1. ~overlap /\ ~sig.started /\ ~InFlight /\ astray \subseteq {"early"} /\ RtcInv
        BY <2>1 DEF CallsInv, AloneInv
      <3>2. disco = <<>> /\ \A r \in open : r.t \notin {"proposed", "accepted"}
        BY <3>1 DEF InFlight
      <3>3. \A r \in open' : /\ r.t = "proposed" => ok /\ r.peer = c.to
                             /\ r.t # "accepted"
        BY <1>3, <2>1, <3>2, StanzaTypes, CallsAssumption
      <3>4. FlightInv'
        <4>1. disco' = <<>> BY <1>4, <3>2
        <4>2. Len(disco') = 0 BY <4>1
        <4>3. sig'.started => sig'.with = sig'.partner BY <2>2, <3>1
        <4> QED BY <2>2, <3>3, <4>1, <4>2, <4>3 DEF FlightInv, InFlight
      <3>5. RtcInv'
        BY <1>1, <2>1, <2>3, <3>1, <3>3, ExistingIdle DEF RtcInv
      <3> QED BY <1>4, <1>6, <3>1, <3>4, <3>5
    <2> QED BY <1>5, <1>7, <2>5, <2>6, <2>7 DEF CallsInv
  <1> QED BY <1>8, <1>9

\* An acceptance that is taken finds nothing under way, and the video of the call it accepts.
LEMMA AcceptServiceInv ==
  ASSUME CallsInv, ~died, AcceptService
  PROVE  CallsInv'
  <1> DEFINE c == toService[1]
  <1>1. CallsTypeOK /\ Take("accept") BY DEF CallsInv, AcceptService
  <1>2. /\ toService' \in Seq(Commands) /\ Len(toService') <= Backlog
        /\ \A i \in 1..Len(toService') : toService'[i].op = "start" => toService'[i].to \in Peers
        /\ Head(toService) = c /\ c \in Commands
    BY <1>1, Taken
  <1>3. sig.video \in BOOLEAN /\ c.video \in BOOLEAN BY <1>1, <1>2 DEF CallsTypeOK, Commands
  <1>4. UNCHANGED <<mic, cam, prompts, vm, toGui, online, disco, calls, sids, died, astray, overlap>>
        /\ UNCHANGED <<gui, toGui>>
    BY DEF AcceptService, gui
  <1>5. ClosedInv' /\ PromptInv' BY <1>1, <1>4, TakenClosed
  <1>6. ~overlap => GuiInv' /\ Undecided /\ c.video = sig.video BY <1>1, <1>4, TakenGui
  <1>7. DiesOnlyByCandidate' BY <1>4 DEF DiesOnlyByCandidate
  <1>8. CASE ~online
    <2>1. UNCHANGED <<sig, rtc, open, agreed>> BY <1>8 DEF AcceptService
    <2>2. CallsTypeOK' BY <1>1, <1>2, <1>4, <2>1 DEF CallsTypeOK
    <2> QED BY <1>4, <1>5, <1>6, <2>1, <2>2, ServiceKept DEF CallsInv, AloneInv
  <1>9. CASE online
    <2>1. PICK ok \in BOOLEAN :
            /\ PrepareMedia(Existing, sig.video, ok)
            /\ sig' = [sig EXCEPT !.started = @ \/ ok, !.with = IF ok THEN sig.from ELSE @]
            /\ open' = IF ok /\ sig.from # Nil THEN open \cup {Acceptance(sig.from)} ELSE open
            /\ agreed' = (agreed \/ c.video)
      BY <1>2, <1>9 DEF AcceptService
    <2> HIDE DEF c
    <2>2. /\ sig' \in Sigs /\ sig'.recipient = sig.recipient /\ sig'.full = sig.full
          /\ sig'.video = sig.video /\ sig'.from = sig.from
          /\ sig'.started = (sig.started \/ ok) /\ sig'.partner = sig.partner
          /\ sig'.with = IF ok THEN sig.from ELSE sig.with
      <3>1. sig \in Sigs BY <1>1 DEF CallsTypeOK, Sigs
      <3>2. (sig.started \/ ok) \in BOOLEAN /\ (IF ok THEN sig.from ELSE sig.with) \in Peers \cup {Nil}
        BY <3>1 DEF Sigs
      <3> QED BY <2>1, <3>1, <3>2 DEF Sigs
    <2>3. /\ Existing \in Clients
          /\ ok => /\ rtc' \in Clients /\ rtc' # Nil /\ rtc'.ready
                   /\ rtc'.peer = Existing.peer /\ rtc'.pending = Existing.pending
                   /\ rtc'.camera = sig.video
                   /\ rtc'.command = "start" => sig.video \/ Existing.command = "start"
                   /\ rtc'.capture = "on" => Existing.capture = "on"
          /\ ~ok => rtc' = Nil /\ ~Existing.ready
      <3>1. Existing \in Clients BY <1>1, ExistingType DEF CallsTypeOK
      <3> QED BY <1>3, <2>1, <3>1, MediaPrepared
    <2>4. ~ok => ~sig.started
      BY <1>1, <2>3, ExistingType DEF CallsInv, CallsTypeOK, ReadyInv
    <2>5. ReadyInv' BY <2>2, <2>3, <2>4 DEF CallsInv, ReadyInv
    <2>6. CallsTypeOK'
      <3>1. open' \subseteq Stanzas
        <4>1. sig.from # Nil => sig.from \in Peers BY <1>1 DEF CallsTypeOK
        <4>2. open \subseteq Stanzas BY <1>1 DEF CallsTypeOK, Stanzas
        <4>3. sig.from # Nil => Acceptance(sig.from) \in Stanzas
          BY <4>1, StanzaTypes, CallsAssumption
        <4> QED BY <2>1, <4>2, <4>3
      <3>2. agreed' \in BOOLEAN /\ rtc' \in Clients \cup {Nil}
        BY <2>1, <2>3
      <3> QED BY <1>1, <1>2, <1>4, <2>2, <3>1, <3>2 DEF CallsTypeOK, Sigs, Stanzas
    <2>7. AloneInv'
      <3> SUFFICES ASSUME ~overlap' PROVE astray' \subseteq {"early"} /\ GuiInv' /\ FlightInv' /\ RtcInv'
        BY DEF AloneInv
      <3>1. ~overlap /\ ~sig.started /\ ~InFlight /\ astray \subseteq {"early"} /\ RtcInv /\ GuiInv' /\ c.video = sig.video
            /\ sig.from # Nil
        BY <1>4, <1>6 DEF CallsInv, AloneInv, Undecided
      <3>2. disco = <<>> /\ \A r \in open : r.t \notin {"proposed", "accepted"}
        BY <3>1 DEF InFlight
      <3>3. \A r \in open' : /\ r.t # "proposed"
                             /\ r.t = "accepted" => ok /\ r = Acceptance(sig.from)
        <4>1. sig.from # Nil => sig.from \in Peers BY <1>1 DEF CallsTypeOK
        <4> QED BY <2>1, <3>2, <4>1, StanzaTypes, CallsAssumption
      <3>4. FlightInv'
        <4>1. disco' = <<>> BY <1>4, <3>2
        <4>2. Len(disco') = 0 BY <4>1
        <4>3. Acceptance(sig.from)' = Acceptance(sig.from) BY <2>2 DEF Acceptance
        <4>4. ASSUME sig'.started
              PROVE  Acceptance(sig.with)' = Acceptance(sig.from) /\ Acceptance(sig.from) \in open'
          BY <2>1, <2>2, <3>1, <4>4 DEF Acceptance
        <4> QED BY <2>2, <3>3, <4>1, <4>2, <4>3, <4>4 DEF FlightInv, InFlight
      <3>5. RtcInv'
        BY <1>1, <2>1, <2>2, <2>3, <3>1, <3>3, ExistingIdle DEF RtcInv
      <3> QED BY <1>4, <3>1, <3>4, <3>5
    <2> QED BY <1>5, <1>7, <2>5, <2>6, <2>7 DEF CallsInv
  <1> QED BY <1>8, <1>9

\* The end leaves no client.
LEMMA EndServiceInv ==
  ASSUME CallsInv, ~died, EndService
  PROVE  CallsInv'
  <1>1. CallsTypeOK /\ Take("end") BY DEF CallsInv, EndService
  <1>2. /\ toService' \in Seq(Commands) /\ Len(toService') <= Backlog
        /\ Len(toService) \in Nat /\ Len(toService) > 0 /\ Len(toService') = Len(toService) - 1
        /\ \A i \in 1..Len(toService') : i + 1 \in 1..Len(toService) /\ toService'[i] = toService[i+1]
        /\ \A i \in 1..Len(toService') : toService'[i].op = "start" => toService'[i].to \in Peers
    BY <1>1, Taken
  <1>3. UNCHANGED <<mic, cam, prompts, vm, toGui, online, disco, open, calls, sids, died, overlap>>
        /\ UNCHANGED <<gui, toGui>>
    BY DEF EndService, gui
  <1>12. /\ astray' \subseteq Stray
         /\ ~overlap /\ astray \subseteq {"early"} /\ FlightInv => astray' \subseteq {"early"}
    <2>1. \/ astray' = astray
          \/ /\ sig.started
             /\ astray' = IF sig.partner = sig.with THEN astray
                          ELSE astray \cup {IF Acceptance(sig.with) \in open THEN "early" ELSE "terminate"}
      BY DEF EndService, SessionTerminate, Strays
    <2>2. astray \subseteq Stray BY <1>1 DEF CallsTypeOK, Stray
    <2> QED BY <2>1, <2>2 DEF Stray, FlightInv
  <1>4. sig' = [sig EXCEPT !.started = FALSE, !.with = Nil] /\ rtc' = Nil /\ agreed' = FALSE BY DEF EndService
  <1>5. /\ sig' \in Sigs /\ sig'.recipient = sig.recipient /\ sig'.full = sig.full
        /\ sig'.video = sig.video /\ sig'.from = sig.from
        /\ sig'.started = FALSE /\ sig'.partner = sig.partner
    <2>1. sig \in Sigs BY <1>1 DEF CallsTypeOK, Sigs
    <2> QED BY <1>4, <2>1 DEF Sigs
  <1>6. CallsTypeOK'
    <2>1. agreed' \in BOOLEAN /\ rtc' \in Clients \cup {Nil} BY <1>4
    <2> QED BY <1>1, <1>2, <1>3, <1>5, <1>12, <2>1 DEF CallsTypeOK, Sigs, Stray
  <1>7. PromptInv' BY <1>3 DEF CallsInv, PromptInv
  <1>8. ReadyInv' BY <1>5 DEF CallsInv, ReadyInv
  <1>9. DiesOnlyByCandidate' BY <1>3 DEF DiesOnlyByCandidate
  <1>10. ClosedInv'
    <2> SUFFICES ASSUME ~vm.open, Len(toService') # 0
                 PROVE  Len(toService') > 0 /\ toService'[Len(toService')].op = "end"
      BY <1>3, <1>4, <1>5 DEF CallsInv, ClosedInv
    <2>1. Len(toService') \in 1..Len(toService') /\ Len(toService') + 1 = Len(toService) BY <1>2
    <2> QED BY <1>2, <2>1 DEF CallsInv, ClosedInv
  <1>11. AloneInv'
    <2> SUFFICES ASSUME ~overlap' PROVE astray' \subseteq {"early"} /\ GuiInv' /\ FlightInv' /\ RtcInv'
      BY DEF AloneInv
    <2>1. ~overlap /\ astray \subseteq {"early"} /\ FlightInv BY <1>3 DEF CallsInv, AloneInv
    <2>2. GuiInv' BY <1>1, <1>3, <2>1, TakenGui
    <2>3. Acceptance(sig.from)' = Acceptance(sig.from) BY <1>5 DEF Acceptance
    <2>4. FlightInv' BY <1>3, <1>4, <1>5, <2>1, <2>3 DEF FlightInv
    <2>5. RtcInv' BY <1>4 DEF RtcInv
    <2> QED BY <1>3, <1>12, <2>1, <2>2, <2>4, <2>5
  <1> QED BY <1>6, <1>7, <1>8, <1>9, <1>10, <1>11 DEF CallsInv

\* A rejection leaves no client either.
LEMMA RejectServiceInv ==
  ASSUME CallsInv, ~died, RejectService
  PROVE  CallsInv'
  <1>1. CallsTypeOK /\ Take("reject") BY DEF CallsInv, RejectService
  <1>2. /\ toService' \in Seq(Commands) /\ Len(toService') <= Backlog
        /\ \A i \in 1..Len(toService') : toService'[i].op = "start" => toService'[i].to \in Peers
    BY <1>1, Taken
  <1>3. /\ UNCHANGED <<mic, cam, prompts, vm, toGui, online, disco, open, calls, sids, died, astray, overlap, agreed>>
        /\ UNCHANGED <<gui, toGui>>
    BY DEF RejectService, gui
  <1>4. ClosedInv' /\ PromptInv' BY <1>1, <1>3, TakenClosed
  <1>5. ~overlap => GuiInv' BY <1>1, <1>3, TakenGui
  <1>6. CASE ~online
    <2>1. UNCHANGED <<sig, rtc>> BY <1>6 DEF RejectService
    <2>2. CallsTypeOK' BY <1>1, <1>2, <1>3, <2>1 DEF CallsTypeOK
    <2> QED BY <1>3, <1>4, <1>5, <2>1, <2>2, ServiceKept DEF CallsInv, AloneInv
  <1>7. CASE online
    <2>1. sig' = [sig EXCEPT !.started = FALSE, !.with = Nil] /\ rtc' = Nil BY <1>7 DEF RejectService
    <2>2. /\ sig' \in Sigs /\ sig'.recipient = sig.recipient /\ sig'.full = sig.full
          /\ sig'.video = sig.video /\ sig'.from = sig.from
          /\ sig'.started = FALSE /\ sig'.partner = sig.partner
      <3>1. sig \in Sigs BY <1>1 DEF CallsTypeOK, Sigs
      <3> QED BY <2>1, <3>1 DEF Sigs
    <2>3. CallsTypeOK' BY <1>1, <1>2, <1>3, <2>1, <2>2 DEF CallsTypeOK, Sigs
    <2>4. ReadyInv' BY <2>2 DEF CallsInv, ReadyInv
    <2>5. DiesOnlyByCandidate' BY <1>3 DEF DiesOnlyByCandidate
    <2>6. AloneInv'
      <3> SUFFICES ASSUME ~overlap' PROVE astray' \subseteq {"early"} /\ GuiInv' /\ FlightInv' /\ RtcInv'
        BY DEF AloneInv
      <3>1. ~overlap /\ astray \subseteq {"early"} /\ FlightInv BY <1>3 DEF CallsInv, AloneInv
      <3>2. Acceptance(sig.from)' = Acceptance(sig.from) BY <2>2 DEF Acceptance
      <3>3. FlightInv' BY <1>3, <2>1, <2>2, <3>1, <3>2 DEF FlightInv
      <3>4. RtcInv' BY <2>1 DEF RtcInv
      <3> QED BY <1>3, <1>5, <3>1, <3>3, <3>4
    <2> QED BY <1>4, <2>3, <2>4, <2>5, <2>6 DEF CallsInv
  <1> QED BY <1>6, <1>7

-----------------------------------------------------------------------------
\* The XMPP thread: stanzas, and what WebRTC reports.

\* A step that leaves the queues and the GUI alone keeps what they promise, when it
\* puts nothing in flight that was not.
LEMMA KeptGui ==
  ASSUME CallsInv, UNCHANGED <<gui, toService, toGui>>, Undecided => Undecided',
         sig'.video = sig.video
  PROVE  PromptInv' /\ (GuiInv => GuiInv')
  <1>1. UNCHANGED <<mic, cam, prompts, vm, toService, toGui>> BY DEF gui
  <1>2. PromptInv' BY <1>1 DEF CallsInv, PromptInv
  <1>3. OnlyPrepares' = OnlyPrepares BY <1>1 DEF OnlyPrepares
  <1>4. GuiInv => AcceptQueued' BY <1>1 DEF GuiInv, AcceptQueued
  <1>5. GuiInv => Rings' /\ AcceptAsked' BY <1>1, <1>3 DEF GuiInv, Rings, AcceptAsked
  <1>6. GuiInv => Waits' BY <1>1 DEF GuiInv, Waits
  <1> QED BY <1>2, <1>4, <1>5, <1>6 DEF GuiInv

\* No client, or the first one, which was never used.
Unused == rtc = Nil \/ (rtc = NewClient /\ open = {} /\ disco = <<>>)

\* And what holds behind a closed window.
LEMMA KeptClosed ==
  ASSUME CallsInv, UNCHANGED <<gui, toService>>, sig'.started = sig.started, Unused => Unused'
  PROVE  ClosedInv'
  <1>1. UNCHANGED <<mic, cam, prompts, vm, toService>> BY DEF gui
  <1> QED BY <1>1 DEF CallsInv, ClosedInv, Unused

\* A proposal that comes while nothing is under way.
LEMMA ProposeReceivedInv ==
  ASSUME CallsInv, ~died, NEW p \in Peers, NEW video \in BOOLEAN, ProposeReceived(p, video)
  PROVE  CallsInv'
  <1> DEFINE S == [signal : {"propose", "terminate"}, video : BOOLEAN]
             g == [signal |-> "propose", video |-> video]
  <1>1. CallsTypeOK /\ toGui \in Seq(S) BY DEF CallsInv, CallsTypeOK
  <1>2. g \in S /\ g.signal = "propose" /\ g.video = video OBVIOUS
  <1>3. toGui' = Append(toGui, g) BY DEF ProposeReceived, Signal
  <1> HIDE DEF S, g
  <1>4. /\ toGui' \in Seq(S) /\ Len(toGui') = Len(toGui) + 1 /\ Len(toGui) \in Nat
        /\ \A i \in 1..Len(toGui) : toGui'[i] = toGui[i]
        /\ toGui'[Len(toGui) + 1] = g
    BY <1>1, <1>2, <1>3, Appended
  <1>5. /\ UNCHANGED <<mic, cam, prompts, vm, toService, online, rtc, disco, open, sids, died, agreed, astray>>
        /\ calls < MaxCalls /\ calls' = calls + 1 /\ UNCHANGED <<gui, toService>>
    BY DEF ProposeReceived, gui
  <1>6. overlap' = (overlap \/ sig.started \/ InFlight \/ vm.open \/ toService # <<>> \/ ProposalWaits)
    BY DEF ProposeReceived
  <1>7. /\ sig' \in Sigs /\ sig'.recipient = sig.recipient /\ sig'.full = sig.full
        /\ sig'.video = video /\ sig'.started = sig.started /\ sig'.partner = sig.partner
        /\ sig'.sid = sig.sid /\ sig'.from # Nil
    <2>1. sig \in Sigs BY <1>1 DEF CallsTypeOK, Sigs
    <2>2. sig' = [sig EXCEPT !.from = p, !.video = video] BY DEF ProposeReceived, Proposed
    <2> QED BY <2>1, <2>2, NilAssumption DEF Sigs
  <1>8. CallsTypeOK'
    <2>1. calls' \in 0..MaxCalls BY <1>1, <1>5, CallsAssumption DEF CallsTypeOK
    <2>2. overlap' \in BOOLEAN BY <1>6
    <2> QED BY <1>1, <1>4, <1>5, <1>7, <2>1, <2>2 DEF CallsTypeOK, Sigs, S
  <1>9. PromptInv' BY <1>5 DEF CallsInv, PromptInv
  <1>10. ReadyInv' /\ DiesOnlyByCandidate' BY <1>5, <1>7 DEF CallsInv, ReadyInv, DiesOnlyByCandidate
  <1>11. ClosedInv' BY <1>5, <1>7, KeptClosed DEF Unused
  <1>12. AloneInv'
    <2> SUFFICES ASSUME ~overlap' PROVE astray' \subseteq {"early"} /\ GuiInv' /\ FlightInv' /\ RtcInv'
      BY DEF AloneInv
    <2>1. ~overlap /\ ~sig.started /\ ~InFlight /\ ~vm.open /\ toService = <<>> /\ ~ProposalWaits
      BY <1>6
    <2>2. astray \subseteq {"early"} /\ RtcInv BY <2>1 DEF CallsInv, AloneInv
    <2>3. disco = <<>> /\ \A r \in open : r.t \notin {"proposed", "accepted"}
      BY <2>1 DEF InFlight
    <2>4. ~InFlight' /\ Undecided' BY <1>5, <1>7, <2>1, <2>3 DEF InFlight, Undecided
    <2>5. FlightInv'
      <3>1. disco' = <<>> /\ Len(disco') = 0 BY <1>5, <2>3
      <3> QED BY <1>5, <1>7, <2>1, <2>3, <2>4, <3>1 DEF FlightInv
    <2>6. RtcInv' BY <1>5, <1>7, <2>2, <2>3 DEF RtcInv
    <2>7. Len(toService') = 0 BY <1>5, <2>1
    <2>8. AcceptQueued' BY <2>7 DEF AcceptQueued
    <2>9. Rings' BY <1>5, <2>1 DEF CallsInv, PromptInv, Rings
    <2>10. AcceptAsked' BY <1>5, <2>1 DEF CallsInv, ClosedInv, AcceptAsked
    <2>11. Waits'
      <3>1. \A i \in 1..Len(toGui') : toGui'[i].signal = "propose" => i = Len(toGui) + 1 /\ toGui'[i] = g
        BY <1>4, <2>1 DEF ProposalWaits
      <3> QED BY <1>2, <1>5, <1>7, <2>1, <2>4, <2>7, <3>1 DEF Waits
    <2> QED BY <1>5, <2>2, <2>5, <2>6, <2>8, <2>9, <2>10, <2>11 DEF GuiInv
  <1> QED BY <1>8, <1>9, <1>10, <1>11, <1>12 DEF CallsInv

\* The party that is called accepts.
LEMMA AcceptReceivedInv ==
  ASSUME CallsInv, ~died, NEW r \in open, AcceptReceived(r)
  PROVE  CallsInv'
  <1>1. CallsTypeOK BY DEF CallsInv
  <1>2. /\ UNCHANGED <<mic, cam, prompts, vm, toService, toGui, online, rtc, calls, sids, died, agreed, overlap, astray>>
        /\ r.t = "proposed" /\ open' = open \ {r} /\ UNCHANGED <<gui, toService, toGui>>
    BY DEF AcceptReceived, Arrives, gui
  <1>3. \/ r.peer = sig.recipient /\ sig' = [sig EXCEPT !.full = TRUE] /\ disco' = Append(disco, r.peer)
        \/ r.peer # sig.recipient /\ sig' = sig /\ disco' = disco
    BY DEF AcceptReceived
  <1>4. r.peer \in Peers /\ disco \in Seq(Peers) BY <1>1 DEF CallsTypeOK
  <1>5. /\ sig' \in Sigs /\ sig'.recipient = sig.recipient /\ sig'.video = sig.video
        /\ sig'.from = sig.from /\ sig'.started = sig.started /\ sig'.partner = sig.partner
        /\ sig'.with = sig.with
        /\ sig'.full => sig.full \/ r.peer = sig.recipient
    <2>1. sig \in Sigs BY <1>1 DEF CallsTypeOK, Sigs
    <2> QED BY <1>3, <2>1 DEF Sigs
  <1>6. /\ disco' \in Seq(Peers)
        /\ (\A i \in 1..Len(disco) : disco[i] = r.peer) =>
             (r.peer = sig.recipient => \A i \in 1..Len(disco') : disco'[i] = r.peer)
    <2>1. /\ Append(disco, r.peer) \in Seq(Peers) /\ Len(Append(disco, r.peer)) = Len(disco) + 1
          /\ Len(disco) \in Nat
          /\ \A i \in 1..Len(disco) : Append(disco, r.peer)[i] = disco[i]
          /\ Append(disco, r.peer)[Len(disco) + 1] = r.peer
      BY <1>4, Appended
    <2> QED BY <1>3, <1>4, <2>1
  <1>7. InFlight /\ ~Undecided BY <1>2 DEF InFlight, Undecided
  <1>8. CallsTypeOK'
    <2>1. open' \subseteq Stanzas BY <1>1, <1>2 DEF CallsTypeOK, Stanzas
    <2> QED BY <1>1, <1>2, <1>5, <1>6, <2>1 DEF CallsTypeOK, Sigs, Stanzas
  <1>9. PromptInv' /\ (GuiInv => GuiInv') BY <1>2, <1>5, <1>7, KeptGui
  <1>10. ReadyInv' BY <1>2, <1>4, <1>5 DEF CallsInv, ReadyInv
  <1>11. DiesOnlyByCandidate' BY <1>2 DEF DiesOnlyByCandidate
  <1>12. ClosedInv'
    <2>1. Unused => Unused' BY <1>2 DEF Unused
    <2> QED BY <1>2, <1>5, <2>1, KeptClosed
  <1>13. AloneInv'
    <2> SUFFICES ASSUME ~overlap' PROVE astray' \subseteq {"early"} /\ GuiInv' /\ FlightInv' /\ RtcInv'
      BY DEF AloneInv
    <2>1. ~overlap /\ astray \subseteq {"early"} /\ GuiInv /\ FlightInv /\ RtcInv BY <1>2 DEF CallsInv, AloneInv
    <2>2. r.peer = sig.recipient /\ sig.partner = sig.recipient /\ (sig.started \/ rtc = Nil)
          /\ (\A i \in 1..Len(disco) : disco[i] = r.peer) /\ \A s \in open : s.t # "accepted"
      BY <1>2, <1>7, <2>1 DEF FlightInv
    <2>3. \A i \in 1..Len(disco') : disco'[i] = sig.recipient BY <1>6, <2>2
    <2>4. FlightInv'
      <3>1. Acceptance(sig.with)' = Acceptance(sig.with) /\ Acceptance(sig.with) # r
        BY <1>2, <1>5 DEF Acceptance
      <3> QED BY <1>2, <1>5, <2>1, <2>2, <2>3, <3>1 DEF FlightInv
    <2>5. RtcInv' BY <1>2, <1>5, <2>1, <2>2 DEF RtcInv
    <2> QED BY <1>2, <1>9, <2>1, <2>4, <2>5
  <1> QED BY <1>8, <1>9, <1>10, <1>11, <1>12, <1>13 DEF CallsInv

\* The connection is made with the party that is called.
LEMMA ServicesReceivedInv ==
  ASSUME CallsInv, ~died, ServicesReceived
  PROVE  CallsInv'
  <1> DEFINE p == disco[1]
  <1>1. CallsTypeOK /\ disco \in Seq(Peers) /\ disco # <<>> /\ disco' = Tail(disco)
    BY DEF CallsInv, CallsTypeOK, ServicesReceived
  <1>2. /\ disco' \in Seq(Peers) /\ Len(disco') = Len(disco) - 1 /\ Len(disco) \in Nat /\ Len(disco) > 0
        /\ \A i \in 1..Len(disco') : disco'[i] = disco[i+1]
        /\ Head(disco) = p /\ p \in Peers
    BY <1>1, TailOf
  <1>3. /\ UNCHANGED <<mic, cam, prompts, vm, toService, toGui, online, sig, open, calls, sids, died, agreed, overlap, astray>>
        /\ UNCHANGED <<gui, toService, toGui>>
    BY DEF ServicesReceived, gui
  <1>4. \/ rtc' = rtc
        \/ rtc # Nil /\ rtc.ready /\ rtc.peer = Nil /\ rtc' = Negotiating(rtc, p, "offer")
    BY <1>2 DEF ServicesReceived, CanConnect
  <1>5. InFlight /\ ~Undecided BY <1>1 DEF InFlight, Undecided
  <1> HIDE DEF p
  <1>6. \/ rtc' = rtc
        \/ /\ rtc # Nil /\ rtc.ready /\ rtc.peer = Nil /\ rtc \in Clients
           /\ rtc' \in Clients /\ rtc' # Nil /\ rtc'.ready = rtc.ready /\ rtc'.peer = p
           /\ rtc'.pending = "offer" /\ rtc'.camera = rtc.camera
           /\ rtc'.command = "start" => rtc.camera \/ rtc.command = "start"
           /\ rtc'.capture = "on" => rtc.capture = "on"
    <2> SUFFICES ASSUME rtc # Nil /\ rtc.ready /\ rtc.peer = Nil /\ rtc' = Negotiating(rtc, p, "offer")
                 PROVE  /\ rtc \in Clients
                        /\ rtc' \in Clients /\ rtc' # Nil /\ rtc'.ready = rtc.ready /\ rtc'.peer = p
                        /\ rtc'.pending = "offer" /\ rtc'.camera = rtc.camera
                        /\ rtc'.command = "start" => rtc.camera \/ rtc.command = "start"
                        /\ rtc'.capture = "on" => rtc.capture = "on"
      BY <1>4
    <2>1. rtc \in Clients BY <1>1 DEF CallsTypeOK
    <2> DEFINE d == Negotiating(rtc, p, "offer")
    <2>2. /\ d \in Clients
          /\ d.ready = rtc.ready /\ d.peer = p /\ d.pending = "offer" /\ d.camera = rtc.camera
          /\ d.command = "start" => rtc.camera \/ rtc.command = "start"
          /\ d.capture = "on" => rtc.capture = "on"
      <3>1. p \in Peers /\ "offer" \in {"offer", "answer"} BY <1>2
      <3> QED BY <2>1, <3>1, Negotiation
    <2>3. rtc' = d OBVIOUS
    <2> HIDE DEF d
    <2> QED BY <2>1, <2>2, <2>3, NilAssumption
  <1>7. CallsTypeOK'
    <2>1. rtc' \in Clients \cup {Nil} BY <1>1, <1>6 DEF CallsTypeOK
    <2> QED BY <1>1, <1>2, <1>3, <2>1 DEF CallsTypeOK
  <1>8. PromptInv' /\ (GuiInv => GuiInv') BY <1>3, <1>5, KeptGui
  <1>9. ReadyInv' BY <1>3, <1>6 DEF CallsInv, ReadyInv
  <1>10. DiesOnlyByCandidate' BY <1>3 DEF DiesOnlyByCandidate
  <1>11. ClosedInv'
    <2>1. Unused => Unused' BY <1>1, <1>4 DEF Unused
    <2> QED BY <1>3, <2>1, KeptClosed
  <1>12. AloneInv'
    <2> SUFFICES ASSUME ~overlap' PROVE astray' \subseteq {"early"} /\ GuiInv' /\ FlightInv' /\ RtcInv'
      BY DEF AloneInv
    <2>1. ~overlap /\ astray \subseteq {"early"} /\ GuiInv /\ FlightInv /\ RtcInv BY <1>3 DEF CallsInv, AloneInv
    <2>2. /\ p = sig.recipient /\ sig.partner = sig.recipient /\ (sig.started \/ rtc = Nil)
          /\ \A r \in open : r.t # "accepted"
      BY <1>1, <1>2, <1>5, <2>1 DEF FlightInv, p
    <2>3. \A i \in 1..Len(disco') : disco'[i] = sig.recipient
      <3>1. \A i \in 1..Len(disco') : i+1 \in 1..Len(disco) BY <1>2
      <3> QED BY <1>2, <2>1, <3>1 DEF FlightInv
    <2>4. rtc' = Nil => rtc = Nil BY <1>6
    <2>5. rtc = Nil => rtc' = Nil BY <1>6
    <2>6. FlightInv' BY <1>3, <2>1, <2>2, <2>3, <2>5 DEF FlightInv
    <2>7. RtcInv'
      <3>1. CASE rtc' = rtc BY <1>3, <2>1, <3>1 DEF RtcInv
      <3>2. CASE rtc' # rtc
        <4>1. /\ rtc # Nil /\ rtc'.peer = p /\ rtc'.pending = "offer" /\ rtc'.camera = rtc.camera
              /\ rtc'.command = "start" => rtc.camera \/ rtc.command = "start"
              /\ rtc'.capture = "on" => rtc.capture = "on"
          BY <1>6, <3>2
        <4>2. rtc'.camera \/ rtc'.command = "start" \/ rtc'.capture = "on" => agreed
          BY <2>1, <4>1 DEF RtcInv
        <4> QED BY <1>2, <1>3, <2>2, <4>1, <4>2, NilAssumption DEF RtcInv
      <3> QED BY <3>1, <3>2
    <2> QED BY <1>3, <1>8, <2>1, <2>6, <2>7
  <1> QED BY <1>7, <1>8, <1>9, <1>10, <1>11, <1>12 DEF CallsInv

\* The description is set.
LEMMA DescribedType ==
  ASSUME NEW c \in Clients
  PROVE  LET d == Described(c) IN
         /\ d \in Clients /\ d.ready = c.ready /\ d.peer = c.peer /\ d.pending = "none"
         /\ d.camera = c.camera /\ d.command = c.command /\ d.capture = c.capture
  BY DEF Described, Clients

\* A description that is ready goes to the party the connection is with.
LEMMA OfferReadyInv ==
  ASSUME CallsInv, ~died, OfferReady
  PROVE  CallsInv'
  <1>1. CallsTypeOK /\ rtc # Nil /\ rtc.pending = "offer" /\ rtc' = Described(rtc)
    BY DEF CallsInv, OfferReady
  <1>2. rtc \in Clients BY <1>1 DEF CallsTypeOK
  <1>3. /\ rtc' \in Clients /\ rtc' # Nil /\ rtc'.ready = rtc.ready /\ rtc'.peer = rtc.peer
        /\ rtc'.pending = "none" /\ rtc'.camera = rtc.camera /\ rtc'.command = rtc.command
        /\ rtc'.capture = rtc.capture
    BY <1>1, <1>2, DescribedType, NilAssumption
  <1>4. /\ UNCHANGED <<mic, cam, prompts, vm, toService, toGui, online, disco, calls, died, agreed, overlap>>
        /\ UNCHANGED <<gui, toService, toGui>>
    BY DEF OfferReady, gui
  <1>5. \/ UNCHANGED <<sig, open, sids, astray>>
        \/ /\ sids < MaxSids /\ sids' = sids + 1
           /\ sig' = [sig EXCEPT !.partner = sig.recipient, !.sid = sids + 1]
           /\ open' = IF sig.full THEN open \cup {SessionInitiate(sig.recipient, sids + 1)} ELSE open
           /\ astray' = IF sig.recipient = rtc.peer THEN astray ELSE astray \cup {"offer"}
    BY DEF OfferReady, Strays
  <1>6. sids' \in 0..MaxSids /\ (sids < MaxSids => sids + 1 \in 0..MaxSids)
    BY <1>1, <1>5, CallsAssumption DEF CallsTypeOK
  <1>7. /\ sig' \in Sigs /\ sig'.recipient = sig.recipient /\ sig'.full = sig.full
        /\ sig'.video = sig.video /\ sig'.from = sig.from /\ sig'.started = sig.started
        /\ sig'.partner = sig.partner \/ sig'.partner = sig.recipient
        /\ sig'.with = sig.with
    <2>1. sig \in Sigs BY <1>1 DEF CallsTypeOK, Sigs
    <2>2. sig.recipient \in Peers \cup {Nil} BY <2>1 DEF Sigs
    <2> QED BY <1>5, <1>6, <2>1, <2>2 DEF Sigs
  <1>8. open' \subseteq Stanzas /\ \A r \in open' : r \in open \/ r.t = "offered"
    <2>1. open \subseteq Stanzas BY <1>1 DEF CallsTypeOK, Stanzas
    <2>2. sig.full => sig.recipient \in Peers BY DEF CallsInv, ReadyInv
    <2>3. ASSUME sig.full, sids < MaxSids
          PROVE  /\ SessionInitiate(sig.recipient, sids + 1) \in Stanzas
                 /\ SessionInitiate(sig.recipient, sids + 1).t = "offered"
      BY <1>6, <2>2, <2>3, StanzaTypes
    <2> QED BY <1>5, <2>1, <2>3
  <1>9. open \subseteq open' BY <1>5
  <1>10. InFlight' = InFlight BY <1>4, <1>8, <1>9 DEF InFlight
  <1>11. Undecided => Undecided' BY <1>7, <1>10 DEF Undecided
  <1>12. CallsTypeOK'
    <2>1. astray' \subseteq Stray BY <1>1, <1>5 DEF CallsTypeOK, Stray
    <2> QED BY <1>1, <1>3, <1>4, <1>6, <1>7, <1>8, <2>1 DEF CallsTypeOK, Sigs, Stanzas, Stray
  <1>13. PromptInv' /\ (GuiInv => GuiInv') BY <1>4, <1>7, <1>11, KeptGui
  <1>14. ReadyInv' BY <1>1, <1>3, <1>7 DEF CallsInv, ReadyInv
  <1>15. DiesOnlyByCandidate' BY <1>4 DEF DiesOnlyByCandidate
  <1>16. ClosedInv'
    <2>1. ~Unused BY <1>1, NewClientType DEF Unused
    <2> QED BY <1>4, <1>7, <2>1, KeptClosed
  <1>17. AloneInv'
    <2> SUFFICES ASSUME ~overlap' PROVE astray' \subseteq {"early"} /\ GuiInv' /\ FlightInv' /\ RtcInv'
      BY DEF AloneInv
    <2>1. ~overlap /\ astray \subseteq {"early"} /\ GuiInv /\ FlightInv /\ RtcInv BY <1>4 DEF CallsInv, AloneInv
    <2>2. rtc.peer # Nil /\ rtc.peer = sig.recipient /\ sig.started /\ sig.partner = rtc.peer
      BY <1>1, <2>1 DEF RtcInv
    <2>3. astray' \subseteq {"early"} BY <1>5, <2>1, <2>2
    <2>4. Acceptance(sig.from)' = Acceptance(sig.from) BY <1>7 DEF Acceptance
    <2>5. FlightInv'
      <3>1. Acceptance(sig.with)' = Acceptance(sig.with) BY <1>7 DEF Acceptance
      <3> QED BY <1>4, <1>7, <1>8, <1>9, <2>1, <2>2, <2>4, <3>1 DEF FlightInv
    <2>6. RtcInv' BY <1>1, <1>3, <1>4, <1>7, <1>8, <2>1, <2>2 DEF RtcInv
    <2> QED BY <1>13, <2>1, <2>3, <2>5, <2>6
  <1> QED BY <1>12, <1>13, <1>14, <1>15, <1>16, <1>17 DEF CallsInv

\* The same of an answer.
LEMMA AnswerReadyInv ==
  ASSUME CallsInv, ~died, AnswerReady
  PROVE  CallsInv'
  <1>1. CallsTypeOK /\ rtc # Nil /\ rtc.pending = "answer" /\ rtc' = Described(rtc)
    BY DEF CallsInv, AnswerReady
  <1>2. rtc \in Clients BY <1>1 DEF CallsTypeOK
  <1>3. /\ rtc' \in Clients /\ rtc' # Nil /\ rtc'.ready = rtc.ready /\ rtc'.peer = rtc.peer
        /\ rtc'.pending = "none" /\ rtc'.camera = rtc.camera /\ rtc'.command = rtc.command
        /\ rtc'.capture = rtc.capture
    BY <1>1, <1>2, DescribedType, NilAssumption
  <1>4. /\ UNCHANGED <<mic, cam, prompts, vm, toService, toGui, online, sig, disco, open, calls, sids, died, agreed, overlap>>
        /\ UNCHANGED <<gui, toService, toGui>>
    BY DEF AnswerReady, gui
  <1>5. astray' = astray \/ astray' = IF sig.partner = rtc.peer THEN astray ELSE astray \cup {"answer"}
    BY DEF AnswerReady, Strays
  <1>6. Undecided => Undecided' BY <1>4 DEF Undecided, InFlight
  <1>7. CallsTypeOK'
    <2>1. astray' \subseteq Stray BY <1>1, <1>5 DEF CallsTypeOK, Stray
    <2> QED BY <1>1, <1>3, <1>4, <2>1 DEF CallsTypeOK, Stray
  <1>8. PromptInv' /\ (GuiInv => GuiInv') BY <1>4, <1>6, KeptGui
  <1>9. ReadyInv' BY <1>1, <1>3, <1>4 DEF CallsInv, ReadyInv
  <1>10. DiesOnlyByCandidate' BY <1>4 DEF DiesOnlyByCandidate
  <1>11. ClosedInv'
    <2>1. ~Unused BY <1>1, NewClientType DEF Unused
    <2> QED BY <1>4, <2>1, KeptClosed
  <1>12. AloneInv'
    <2> SUFFICES ASSUME ~overlap' PROVE astray' \subseteq {"early"} /\ GuiInv' /\ FlightInv' /\ RtcInv'
      BY DEF AloneInv
    <2>1. ~overlap /\ astray \subseteq {"early"} /\ GuiInv /\ FlightInv /\ RtcInv BY <1>4 DEF CallsInv, AloneInv
    <2>2. rtc.peer # Nil /\ sig.started /\ sig.partner = rtc.peer
      BY <1>1, <2>1 DEF RtcInv
    <2>3. astray' \subseteq {"early"} BY <1>5, <2>1, <2>2
    <2>4. InFlight' = InFlight BY <1>4 DEF InFlight
    <2>5. FlightInv' BY <1>4, <2>1, <2>2, <2>4 DEF FlightInv, Acceptance
    <2>6. RtcInv' BY <1>1, <1>3, <1>4, <2>1, <2>2 DEF RtcInv
    <2> QED BY <1>8, <2>1, <2>3, <2>5, <2>6
  <1> QED BY <1>7, <1>8, <1>9, <1>10, <1>11, <1>12 DEF CallsInv

\* The answer of the party that was called.
LEMMA AnswerReceivedInv ==
  ASSUME CallsInv, ~died, NEW r \in open, AnswerReceived(r)
  PROVE  CallsInv'
  <1> DEFINE s == SessionAccept(r.peer, r.id)
  <1>1. CallsTypeOK BY DEF CallsInv
  <1>2. /\ UNCHANGED <<mic, cam, prompts, vm, toService, toGui, online, sig, rtc, disco, calls, sids, died, agreed, overlap, astray>>
        /\ UNCHANGED <<gui, toService, toGui>> /\ r.t = "offered" /\ open' = (open \ {r}) \cup {s}
    BY DEF AnswerReceived, Arrives, gui
  <1>3. open \subseteq Stanzas BY <1>1 DEF CallsTypeOK, Stanzas
  <1>4. s \in Stanzas /\ s.t = "session"
    <2>1. r.peer \in Peers /\ r.id \in 0..MaxSids BY <1>3 DEF Stanzas
    <2> QED BY <2>1, StanzaTypes
  <1> HIDE DEF s
  <1>5. open' \subseteq Stanzas BY <1>2, <1>3, <1>4
  <1>6. \A x : x.t \in {"proposed", "accepted"} => (x \in open <=> x \in open') BY <1>2, <1>4
  <1>7. InFlight' = InFlight BY <1>2, <1>6 DEF InFlight
  <1>8. Undecided => Undecided' BY <1>2, <1>7 DEF Undecided
  <1>9. CallsTypeOK' BY <1>1, <1>2, <1>5 DEF CallsTypeOK, Stanzas
  <1>10. PromptInv' /\ (GuiInv => GuiInv') BY <1>2, <1>8, KeptGui
  <1>11. ReadyInv' /\ DiesOnlyByCandidate' BY <1>2 DEF CallsInv, ReadyInv, DiesOnlyByCandidate
  <1>12. ClosedInv'
    <2>1. Unused => Unused' BY <1>2 DEF Unused
    <2> QED BY <1>2, <2>1, KeptClosed
  <1>13. AloneInv'
    <2> SUFFICES ASSUME ~overlap' PROVE astray' \subseteq {"early"} /\ GuiInv' /\ FlightInv' /\ RtcInv'
      BY DEF AloneInv
    <2>1. ~overlap /\ astray \subseteq {"early"} /\ GuiInv /\ FlightInv /\ RtcInv BY <1>2 DEF CallsInv, AloneInv
    <2>2. FlightInv' BY <1>2, <1>6, <1>7, <2>1 DEF FlightInv, Acceptance
    <2>3. RtcInv' BY <1>2, <1>6, <2>1 DEF RtcInv
    <2> QED BY <1>2, <1>10, <2>1, <2>2, <2>3
  <1> QED BY <1>9, <1>10, <1>11, <1>12, <1>13 DEF CallsInv

\* The offer of the party whose proposal was accepted.
LEMMA OfferReceivedInv ==
  ASSUME CallsInv, ~died, NEW r \in open, NEW video \in BOOLEAN, OfferReceived(r, video)
  PROVE  CallsInv'
  <1> DEFINE s == SessionAccept(r.peer, sids + 1)
             b == sig.video /\ video
             c == SetCameraEnabled(rtc, b)
  <1>1. CallsTypeOK BY DEF CallsInv
  <1>2. /\ UNCHANGED <<mic, cam, prompts, vm, toService, toGui, online, disco, calls, died, agreed, overlap, astray>>
        /\ UNCHANGED <<gui, toService, toGui>> /\ r.t = "accepted" /\ open' = (open \ {r}) \cup {s}
        /\ sids < MaxSids /\ sids' = sids + 1
        /\ sig' = [sig EXCEPT !.partner = r.peer, !.sid = sids + 1]
    BY DEF OfferReceived, Arrives, gui
  <1>3. \/ rtc = Nil /\ rtc' = rtc
        \/ rtc # Nil /\ rtc' = c
        \/ rtc # Nil /\ CanConnect(c) /\ rtc' = Negotiating(c, r.peer, "answer")
    BY DEF OfferReceived
  <1>4. open \subseteq Stanzas BY <1>1 DEF CallsTypeOK, Stanzas
  <1>5. r.peer \in Peers BY <1>4 DEF Stanzas
  <1>6. sids' \in 0..MaxSids /\ sids + 1 \in 0..MaxSids
    BY <1>1, <1>2, CallsAssumption DEF CallsTypeOK
  <1>7. s \in Stanzas /\ s.t = "session" BY <1>5, <1>6, StanzaTypes
  <1>8. b \in BOOLEAN OBVIOUS
  <1>9. rtc # Nil => /\ c \in Clients
                     /\ c.ready = rtc.ready /\ c.peer = rtc.peer /\ c.pending = rtc.pending
                     /\ c.camera = b
                     /\ c.command = "start" => b \/ rtc.command = "start"
                     /\ c.capture = "on" => rtc.capture = "on"
    <2>1. rtc # Nil => rtc \in Clients BY <1>1 DEF CallsTypeOK
    <2> QED BY <1>8, <2>1, SetCamera
  <1> HIDE DEF s, c
  <1>10. rtc # Nil =>
           /\ rtc' \in Clients /\ rtc' # Nil /\ rtc'.ready = rtc.ready /\ rtc'.camera = b
           /\ rtc'.command = "start" => b \/ rtc.command = "start"
           /\ rtc'.capture = "on" => rtc.capture = "on"
           /\ \/ rtc'.peer = rtc.peer /\ rtc'.pending = rtc.pending
              \/ rtc'.peer = r.peer /\ rtc'.pending = "answer"
    <2> SUFFICES ASSUME rtc # Nil
                 PROVE  /\ rtc' \in Clients /\ rtc' # Nil /\ rtc'.ready = rtc.ready /\ rtc'.camera = b
                        /\ rtc'.command = "start" => b \/ rtc.command = "start"
                        /\ rtc'.capture = "on" => rtc.capture = "on"
                        /\ \/ rtc'.peer = rtc.peer /\ rtc'.pending = rtc.pending
                           \/ rtc'.peer = r.peer /\ rtc'.pending = "answer"
      OBVIOUS
    <2>1. CASE rtc' = c BY <1>9, <2>1, NilAssumption
    <2>2. CASE rtc' = Negotiating(c, r.peer, "answer")
      <3>1. "answer" \in {"offer", "answer"} OBVIOUS
      <3>2. /\ rtc' \in Clients /\ rtc'.ready = c.ready /\ rtc'.peer = r.peer
            /\ rtc'.pending = "answer" /\ rtc'.camera = c.camera
            /\ rtc'.command = "start" => c.camera \/ c.command = "start"
            /\ rtc'.capture = "on" => c.capture = "on"
        BY <1>5, <1>9, <2>2, <3>1, Negotiation
      <3> QED BY <1>9, <3>2, NilAssumption
    <2> QED BY <1>3, <2>1, <2>2
  <1>11. /\ sig' \in Sigs /\ sig'.recipient = sig.recipient /\ sig'.full = sig.full
         /\ sig'.video = sig.video /\ sig'.from = sig.from /\ sig'.started = sig.started
         /\ sig'.partner = r.peer /\ sig'.with = sig.with
    <2>1. sig \in Sigs BY <1>1 DEF CallsTypeOK, Sigs
    <2> QED BY <1>2, <1>5, <1>6, <2>1 DEF Sigs
  <1>12. InFlight /\ ~Undecided BY <1>2 DEF InFlight, Undecided
  <1>13. CallsTypeOK'
    <2>1. open' \subseteq Stanzas BY <1>2, <1>4, <1>7
    <2>2. rtc' \in Clients \cup {Nil} BY <1>3, <1>10
    <2> QED BY <1>1, <1>2, <1>6, <1>11, <2>1, <2>2 DEF CallsTypeOK, Sigs, Stanzas
  <1>14. PromptInv' /\ (GuiInv => GuiInv') BY <1>2, <1>11, <1>12, KeptGui
  <1>15. ReadyInv' BY <1>10, <1>11 DEF CallsInv, ReadyInv
  <1>16. DiesOnlyByCandidate' BY <1>2 DEF DiesOnlyByCandidate
  <1>17. ClosedInv'
    <2>1. Unused => Unused' BY <1>3 DEF Unused
    <2> QED BY <1>2, <1>11, <2>1, KeptClosed
  <1>18. AloneInv'
    <2> SUFFICES ASSUME ~overlap' PROVE astray' \subseteq {"early"} /\ GuiInv' /\ FlightInv' /\ RtcInv'
      BY DEF AloneInv
    <2>1. ~overlap /\ astray \subseteq {"early"} /\ GuiInv /\ FlightInv /\ RtcInv BY <1>2 DEF CallsInv, AloneInv
    <2>2. /\ disco = <<>> /\ (\A x \in open : x.t # "proposed") /\ (sig.started \/ rtc = Nil)
          /\ \A x \in open : x.t = "accepted" => x = r
      BY <1>2, <1>12, <2>1 DEF FlightInv
    <2>3. \A x \in open' : x.t \notin {"proposed", "accepted"} BY <1>2, <1>7, <2>2
    <2>4. FlightInv'
      <3>1. disco' = <<>> /\ Len(disco') = 0 BY <1>2, <2>2
      <3>2. sig.started => sig.with = r.peer
        BY <1>2, <2>1, <2>2 DEF FlightInv, Acceptance
      <3> QED BY <1>11, <2>3, <3>1, <3>2 DEF FlightInv, InFlight
    <2>5. RtcInv'
      <3> SUFFICES ASSUME rtc' # Nil
                   PROVE  /\ rtc'.peer # Nil => sig'.started /\ sig'.partner = rtc'.peer
                          /\ rtc'.pending # "none" => rtc'.peer # Nil
                          /\ rtc'.pending = "offer" => rtc'.peer = sig'.recipient
                          /\ rtc'.camera \/ rtc'.command = "start" \/ rtc'.capture = "on" => agreed'
        BY <2>3 DEF RtcInv
      <3>1. rtc # Nil BY <1>3
      <3>2. rtc.peer = Nil /\ (sig.video => agreed) /\ sig.started BY <1>2, <2>1, <2>2, <3>1 DEF RtcInv
      <3>3. rtc'.camera \/ rtc'.command = "start" \/ rtc'.capture = "on" => agreed'
        BY <1>2, <1>10, <2>1, <3>1, <3>2 DEF RtcInv
      <3>4. rtc.pending = "none" BY <2>1, <3>1, <3>2 DEF RtcInv
      <3> QED BY <1>5, <1>10, <1>11, <3>1, <3>2, <3>3, <3>4, NilAssumption
    <2> QED BY <1>2, <1>14, <2>1, <2>4, <2>5
  <1> QED BY <1>13, <1>14, <1>15, <1>16, <1>17, <1>18 DEF CallsInv

\* A candidate goes to the partner of the call.
LEMMA CandidateFoundInv ==
  ASSUME CallsInv, ~died, CandidateFound
  PROVE  CallsInv'
  <1>1. CallsTypeOK /\ rtc # Nil /\ rtc.peer # Nil BY DEF CallsInv, CandidateFound
  <1>2. /\ UNCHANGED <<mic, cam, prompts, vm, toService, toGui, online, sig, rtc, disco, open, calls, sids, died, agreed, overlap>>
        /\ UNCHANGED <<gui, toService, toGui>>
    BY DEF CandidateFound, gui
  <1>3. astray' = astray \/ astray' = IF sig.partner = rtc.peer THEN astray ELSE astray \cup {"candidate"}
    BY DEF CandidateFound, Strays
  <1>4. CallsTypeOK'
    <2>1. astray' \subseteq Stray BY <1>1, <1>3 DEF CallsTypeOK, Stray
    <2> QED BY <1>1, <1>2, <2>1 DEF CallsTypeOK, Stray
  <1>5. Undecided => Undecided' BY <1>2 DEF Undecided, InFlight
  <1>6. PromptInv' /\ (GuiInv => GuiInv') BY <1>2, <1>5, KeptGui
  <1>7. ReadyInv' /\ DiesOnlyByCandidate' BY <1>2 DEF CallsInv, ReadyInv, DiesOnlyByCandidate
  <1>8. ClosedInv'
    <2>1. Unused => Unused' BY <1>2 DEF Unused
    <2> QED BY <1>2, <2>1, KeptClosed
  <1>9. AloneInv'
    <2> SUFFICES ASSUME ~overlap' PROVE astray' \subseteq {"early"} /\ GuiInv' /\ FlightInv' /\ RtcInv'
      BY DEF AloneInv
    <2>1. ~overlap /\ astray \subseteq {"early"} /\ GuiInv /\ FlightInv /\ RtcInv BY <1>2 DEF CallsInv, AloneInv
    <2>2. sig.partner = rtc.peer BY <1>1, <2>1 DEF RtcInv
    <2>3. astray' \subseteq {"early"} BY <1>3, <2>1, <2>2
    <2>4. FlightInv' BY <1>2, <2>1 DEF FlightInv, Acceptance, InFlight
    <2>5. RtcInv' BY <1>2, <2>1 DEF RtcInv
    <2> QED BY <1>6, <2>1, <2>3, <2>4, <2>5
  <1> QED BY <1>4, <1>6, <1>7, <1>8, <1>9 DEF CallsInv

\* The one step that may use a client that is not there.
LEMMA CandidateReceivedInv ==
  ASSUME CallsInv, ~died, NEW r \in open, CandidateReceived(r)
  PROVE  CallsInv'
  <1>1. CallsTypeOK BY DEF CallsInv
  <1>2. /\ UNCHANGED <<mic, cam, prompts, vm, toService, toGui, online, sig, rtc, disco, open, calls, sids, agreed, overlap, astray>>
        /\ UNCHANGED <<gui, toService, toGui>> /\ r.t = "session" /\ r.id = sig.sid /\ died' = (rtc = Nil)
    BY DEF CandidateReceived, Arrives, gui
  <1>3. CallsTypeOK'
    <2>1. died' \in BOOLEAN BY <1>2
    <2> QED BY <1>1, <1>2, <2>1 DEF CallsTypeOK
  <1>4. Undecided => Undecided' BY <1>2 DEF Undecided, InFlight
  <1>5. PromptInv' /\ (GuiInv => GuiInv') BY <1>2, <1>4, KeptGui
  <1>6. ReadyInv' BY <1>2 DEF CallsInv, ReadyInv
  <1>7. DiesOnlyByCandidate' BY <1>2 DEF CallsInv, ReadyInv, DiesOnlyByCandidate
  <1>8. ClosedInv'
    <2>1. Unused => Unused' BY <1>2 DEF Unused
    <2> QED BY <1>2, <2>1, KeptClosed
  <1>9. AloneInv'
    <2>1. FlightInv => FlightInv' BY <1>2 DEF FlightInv, Acceptance, InFlight
    <2>2. RtcInv => RtcInv' BY <1>2 DEF RtcInv
    <2> QED BY <1>2, <1>5, <2>1, <2>2 DEF CallsInv, AloneInv
  <1> QED BY <1>3, <1>5, <1>6, <1>7, <1>8, <1>9 DEF CallsInv

\* The end of some session.
LEMMA TerminateReceivedInv ==
  ASSUME CallsInv, ~died, NEW r \in open, TerminateReceived(r)
  PROVE  CallsInv'
  <1> DEFINE S == [signal : {"propose", "terminate"}, video : BOOLEAN]
             g == [signal |-> "terminate", video |-> FALSE]
  <1>1. CallsTypeOK /\ toGui \in Seq(S) BY DEF CallsInv, CallsTypeOK
  <1>2. g \in S /\ g.signal = "terminate" OBVIOUS
  <1>3. toGui' = Append(toGui, g) BY DEF TerminateReceived, Signal
  <1> HIDE DEF S, g
  <1>4. /\ toGui' \in Seq(S) /\ Len(toGui') = Len(toGui) + 1 /\ Len(toGui) \in Nat
        /\ \A i \in 1..Len(toGui) : toGui'[i] = toGui[i]
        /\ toGui'[Len(toGui) + 1] = g
    BY <1>1, <1>2, <1>3, Appended
  <1>5. /\ UNCHANGED <<mic, cam, prompts, vm, toService, online, sig, rtc, disco, calls, sids, died, agreed, overlap, astray>>
        /\ UNCHANGED <<gui, toService>> /\ r.t \in {"offered", "session"} /\ open' = open \ {r}
    BY DEF TerminateReceived, Arrives, gui
  <1>6. CallsTypeOK' BY <1>1, <1>4, <1>5 DEF CallsTypeOK, S
  <1>7. PromptInv' /\ ReadyInv' /\ DiesOnlyByCandidate'
    BY <1>5 DEF CallsInv, PromptInv, ReadyInv, DiesOnlyByCandidate
  <1>8. ClosedInv'
    <2>1. Unused => Unused' BY <1>5 DEF Unused
    <2> QED BY <1>5, <2>1, KeptClosed
  <1>9. \A x : x.t \in {"proposed", "accepted"} => (x \in open <=> x \in open') BY <1>5
  <1>10. InFlight' = InFlight BY <1>5, <1>9 DEF InFlight
  <1>11. Undecided' = Undecided BY <1>5, <1>10 DEF Undecided
  <1>12. AloneInv'
    <2> SUFFICES ASSUME ~overlap' PROVE astray' \subseteq {"early"} /\ GuiInv' /\ FlightInv' /\ RtcInv'
      BY DEF AloneInv
    <2>1. ~overlap /\ astray \subseteq {"early"} /\ GuiInv /\ FlightInv /\ RtcInv BY <1>5 DEF CallsInv, AloneInv
    <2>2. FlightInv' BY <1>5, <1>9, <1>10, <2>1 DEF FlightInv, Acceptance
    <2>3. RtcInv' BY <1>5, <1>9, <2>1 DEF RtcInv
    <2>4. OnlyPrepares' = OnlyPrepares BY <1>5 DEF OnlyPrepares
    <2>5. AcceptQueued' BY <1>5, <1>11, <2>1 DEF GuiInv, AcceptQueued
    <2>6. Rings' /\ AcceptAsked' BY <1>5, <1>11, <2>1, <2>4 DEF GuiInv, Rings, AcceptAsked
    <2>7. Waits'
      <3>1. \A i \in 1..Len(toGui') : toGui'[i].signal = "propose" =>
              i \in 1..Len(toGui) /\ toGui'[i] = toGui[i]
        BY <1>2, <1>4
      <3> QED BY <1>5, <1>11, <2>1, <3>1 DEF GuiInv, Waits
    <2> QED BY <1>5, <2>1, <2>2, <2>3, <2>5, <2>6, <2>7 DEF GuiInv
  <1> QED BY <1>6, <1>7, <1>8, <1>12 DEF CallsInv

\* What the camera is told or does changes nothing but the camera.
LEMMA CameraInv ==
  ASSUME CallsInv, ~died, rtc # Nil, ~Unused, rtc' \in Clients,
         rtc'.ready = rtc.ready, rtc'.peer = rtc.peer, rtc'.pending = rtc.pending,
         rtc'.camera \/ rtc'.command = "start" \/ rtc'.capture = "on" =>
           rtc.camera \/ rtc.command = "start" \/ rtc.capture = "on",
         UNCHANGED <<gui, toService, toGui, online, sig, disco, open, calls, sids, died, agreed, overlap, astray>>
  PROVE  CallsInv'
  <1>1. CallsTypeOK BY DEF CallsInv
  <1>2. rtc' # Nil BY NilAssumption
  <1>3. UNCHANGED <<mic, cam, prompts, vm, toService, toGui, online, sig, disco, open, calls, sids, died, agreed, overlap, astray>>
    BY DEF gui
  <1>4. CallsTypeOK' BY <1>1, <1>3 DEF CallsTypeOK
  <1>5. Undecided => Undecided' BY <1>3 DEF Undecided, InFlight
  <1>6. PromptInv' /\ (GuiInv => GuiInv') BY <1>3, <1>5, KeptGui
  <1>7. ReadyInv' BY <1>2, <1>3 DEF CallsInv, ReadyInv
  <1>8. DiesOnlyByCandidate' BY <1>3 DEF DiesOnlyByCandidate
  <1>9. ClosedInv' BY <1>3, KeptClosed
  <1>10. AloneInv'
    <2>1. FlightInv => FlightInv' BY <1>3 DEF FlightInv, Acceptance, InFlight
    <2>2. RtcInv => RtcInv' BY <1>3 DEF RtcInv
    <2> QED BY <1>3, <1>6, <2>1, <2>2 DEF CallsInv, AloneInv
  <1> QED BY <1>4, <1>6, <1>7, <1>8, <1>9, <1>10 DEF CallsInv

\* The camera is told once more.
LEMMA ConnectionChangedInv ==
  ASSUME CallsInv, ~died, ConnectionChanged
  PROVE  CallsInv'
  <1>1. rtc # Nil /\ rtc.peer # Nil /\ rtc' = UpdateCameraCapture(rtc) BY DEF ConnectionChanged
  <1>2. rtc \in Clients BY <1>1 DEF CallsInv, CallsTypeOK
  <1>3. /\ rtc' \in Clients
        /\ rtc'.ready = rtc.ready /\ rtc'.peer = rtc.peer /\ rtc'.pending = rtc.pending
        /\ rtc'.camera = rtc.camera
        /\ rtc'.command = "start" => rtc.camera \/ rtc.command = "start"
        /\ rtc'.capture = "on" => rtc.capture = "on"
    BY <1>1, <1>2, UpdateCamera
  <1>4. ~Unused BY <1>1, NewClientType DEF Unused
  <1>5. UNCHANGED <<gui, toService, toGui, online, sig, disco, open, calls, sids, died, agreed, overlap, astray>>
    BY DEF ConnectionChanged
  <1> QED BY <1>1, <1>3, <1>4, <1>5, CameraInv

\* The camera runs only on command.
LEMMA CameraThreadInv ==
  ASSUME CallsInv, ~died, CameraThread
  PROVE  CallsInv'
  <1>1. rtc # Nil BY DEF CameraThread
  <1>2. rtc \in Clients BY <1>1 DEF CallsInv, CallsTypeOK
  <1>3. \/ /\ rtc.command # "none"
           /\ \E s \in {"on", "off"} : /\ rtc' = [rtc EXCEPT !.command = "none", !.capture = s]
                                       /\ s = "on" => rtc.command = "start"
        \/ rtc.capture = "on" /\ rtc' = [rtc EXCEPT !.capture = "off"]
    BY DEF CameraThread, CameraTurns, CameraFails
  <1>4. /\ rtc' \in Clients
        /\ rtc'.ready = rtc.ready /\ rtc'.peer = rtc.peer /\ rtc'.pending = rtc.pending
        /\ rtc'.camera = rtc.camera
        /\ rtc'.command = "start" => rtc.command = "start"
        /\ rtc'.capture = "on" => rtc.command = "start" \/ rtc.capture = "on"
    BY <1>2, <1>3 DEF Clients
  <1>5. ~Unused BY <1>1, <1>3, NewClientType DEF Unused
  <1>6. UNCHANGED <<gui, toService, toGui, online, sig, disco, open, calls, sids, died, agreed, overlap, astray>>
    BY DEF CameraThread
  <1> QED BY <1>1, <1>4, <1>5, <1>6, CameraInv

\* The connection to the server changes.
LEMMA NetworkInv ==
  ASSUME CallsInv, ~died, Network
  PROVE  CallsInv'
  <1>1. CallsTypeOK BY DEF CallsInv
  <1>2. /\ UNCHANGED <<mic, cam, prompts, vm, toService, toGui, sig, rtc, disco, open, calls, sids, died, agreed, overlap, astray>>
        /\ UNCHANGED <<gui, toService, toGui>> /\ online' = ~online
    BY DEF Network, gui
  <1>3. CallsTypeOK'
    <2>1. online' \in BOOLEAN BY <1>2
    <2> QED BY <1>1, <1>2, <2>1 DEF CallsTypeOK
  <1>4. Undecided => Undecided' BY <1>2 DEF Undecided, InFlight
  <1>5. PromptInv' /\ (GuiInv => GuiInv') BY <1>2, <1>4, KeptGui
  <1>6. ReadyInv' /\ DiesOnlyByCandidate' BY <1>2 DEF CallsInv, ReadyInv, DiesOnlyByCandidate
  <1>7. ClosedInv'
    <2>1. Unused => Unused' BY <1>2 DEF Unused
    <2> QED BY <1>2, <2>1, KeptClosed
  <1>8. AloneInv'
    <2>1. FlightInv => FlightInv' BY <1>2 DEF FlightInv, Acceptance, InFlight
    <2>2. RtcInv => RtcInv' BY <1>2 DEF RtcInv
    <2> QED BY <1>2, <1>5, <2>1, <2>2 DEF CallsInv, AloneInv
  <1> QED BY <1>3, <1>5, <1>6, <1>7, <1>8 DEF CallsInv

-----------------------------------------------------------------------------
\* The first state.
LEMMA CallsInitInv == CallsInit => CallsInv
  <1> SUFFICES ASSUME CallsInit PROVE CallsInv
    OBVIOUS
  <1>1. /\ prompts = {} /\ vm = Closed /\ toService = <<>> /\ toGui = <<>> /\ rtc = NewClient
        /\ disco = <<>> /\ open = {} /\ died = FALSE /\ astray = {} /\ calls = 0 /\ sids = 0
        /\ agreed = FALSE /\ overlap = FALSE /\ online = TRUE
    BY DEF CallsInit
  <1>2. Len(toService) = 0 /\ Len(toGui) = 0 /\ Len(disco) = 0 BY <1>1
  <1>3. /\ sig \in Sigs /\ sig.started = FALSE /\ sig.full = FALSE
    BY CallsAssumption DEF CallsInit, Sigs
  <1>4. /\ toService \in Seq(Commands) /\ disco \in Seq(Peers)
        /\ toGui \in Seq([signal : {"propose", "terminate"}, video : BOOLEAN])
    BY <1>1
  <1>5. online \in BOOLEAN /\ died \in BOOLEAN /\ agreed \in BOOLEAN /\ overlap \in BOOLEAN
        /\ astray \subseteq {"offer", "answer", "candidate", "terminate", "early"}
    BY <1>1
  <1>6. CallsTypeOK
    <2>1. mic \in {"granted", "undetermined", "denied"} /\ cam \in {"granted", "undetermined", "denied"}
      BY DEF CallsInit
    <2>2. calls \in 0..MaxCalls /\ sids \in 0..MaxSids /\ Len(toService) <= Backlog
      BY <1>1, <1>2, CallsAssumption
    <2>3. vm \in Windows /\ rtc \in Clients \cup {Nil} BY <1>1, ClosedType, NewClientType
    <2> QED BY <1>1, <1>2, <1>3, <1>4, <1>5, <2>1, <2>2, <2>3 DEF CallsTypeOK, Sigs, Windows
  <1>7. PromptInv /\ ReadyInv /\ DiesOnlyByCandidate
    BY <1>1, <1>3, ClosedType DEF PromptInv, ReadyInv, DiesOnlyByCandidate
  <1>8. ClosedInv BY <1>1, <1>2, <1>3 DEF ClosedInv
  <1>9. GuiInv
    BY <1>1, <1>2, ClosedType DEF GuiInv, AcceptQueued, Rings, AcceptAsked, Waits
  <1>10. FlightInv BY <1>1, <1>2, <1>3 DEF FlightInv, InFlight
  <1>11. RtcInv BY <1>1, NewClientType DEF RtcInv
  <1> QED BY <1>1, <1>6, <1>7, <1>8, <1>9, <1>10, <1>11 DEF CallsInv, AloneInv

\* A step of something else.
LEMMA CallsStutter ==
  ASSUME CallsInv, UNCHANGED callsVars
  PROVE  CallsInv'
  <1>1. /\ UNCHANGED <<mic, cam, prompts, vm, toService, toGui, online, sig, rtc, disco, open, calls, sids, died, agreed, overlap, astray>>
        /\ UNCHANGED <<gui, toService, toGui>>
    BY DEF callsVars, gui
  <1>2. CallsTypeOK' BY <1>1 DEF CallsInv, CallsTypeOK
  <1>3. Undecided => Undecided' BY <1>1 DEF Undecided, InFlight
  <1>4. PromptInv' /\ (GuiInv => GuiInv') BY <1>1, <1>3, KeptGui
  <1>5. ReadyInv' /\ DiesOnlyByCandidate' BY <1>1 DEF CallsInv, ReadyInv, DiesOnlyByCandidate
  <1>6. ClosedInv'
    <2>1. Unused => Unused' BY <1>1 DEF Unused
    <2> QED BY <1>1, <2>1, KeptClosed
  <1>7. AloneInv'
    <2>1. FlightInv => FlightInv' BY <1>1 DEF FlightInv, Acceptance, InFlight
    <2>2. RtcInv => RtcInv' BY <1>1 DEF RtcInv
    <2> QED BY <1>1, <1>4, <2>1, <2>2 DEF CallsInv, AloneInv
  <1> QED BY <1>2, <1>4, <1>5, <1>6, <1>7 DEF CallsInv

\* Every step.
LEMMA CallsNextInv ==
  ASSUME CallsInv, CallsNext
  PROVE  CallsInv'
  <1>0. ~died BY DEF CallsNext
  <1>1. CASE User
    BY <1>1, RequestCallInv, StartCallInv, AcceptInv, DeclineCallInv, CloseWindowInv,
       PermissionAnsweredInv DEF User
  <1>2. CASE Gui BY <1>2, ProposeShownInv, TerminateShownInv DEF Gui
  <1>3. CASE Service
    BY <1>0, <1>3, PrepareServiceInv, StartServiceInv, AcceptServiceInv, EndServiceInv,
       RejectServiceInv DEF Service
  <1>4. CASE Peer
    BY <1>0, <1>4, ProposeReceivedInv, AcceptReceivedInv, AnswerReceivedInv, CandidateReceivedInv,
       TerminateReceivedInv, OfferReceivedInv, ServicesReceivedInv DEF Peer
  <1>5. CASE Media
    BY <1>0, <1>5, OfferReadyInv, AnswerReadyInv, CandidateFoundInv, ConnectionChangedInv,
       CameraThreadInv DEF Media
  <1>6. CASE Network BY <1>0, <1>6, NetworkInv
  <1> QED BY <1>1, <1>2, <1>3, <1>4, <1>5, <1>6 DEF CallsNext

\* The invariant of the calls holds in every reachable state: the client of a started call is
\* ready, behind every closed window the end of its call is on its way, and while calls do not
\* overlap the queues, what is in flight and the connection are all of one call.
THEOREM CallsInductive == CallsSpec => []CallsInv
  <1>1. CallsInv /\ [CallsNext]_callsVars => CallsInv' BY CallsNextInv, CallsStutter
  <1> QED BY <1>1, CallsInitInv, PTL DEF CallsSpec

\* As long as calls do not overlap, no offer, answer or candidate goes to a party other than the
\* one the connection is with, and no session-terminate to another than the party of the call,
\* but for a call whose session-initiate has not come, although all calls share the members that
\* hold the addresses.
THEOREM NothingEverAstray == CallsSpec => []NothingAstray
  <1>1. CallsInv => NothingAstray BY DEF CallsInv, AloneInv, NothingAstray, CallsTypeOK
  <1> QED BY <1>1, CallsInductive, PTL

\* As long as calls do not overlap, there is a connection only in a started call, and the camera
\* is on only when the user chose video for it.
THEOREM AlwaysOnlyInCall == CallsSpec => []OnlyInCall
  <1>1. CallsInv => OnlyInCall
    BY DEF CallsInv, AloneInv, RtcInv, OnlyInCall, CameraAgreed, ConnectedInCall
  <1> QED BY <1>1, CallsInductive, PTL

\* With the window closed and the queues empty there is no call, no connection and no camera.
THEOREM AlwaysQuietWhenClosed == CallsSpec => []QuietWhenClosed
  <1>1. CallsInv => QuietWhenClosed
    <2> SUFFICES ASSUME CallsInv, ~vm.open, toService = <<>> PROVE Quiet
      BY DEF QuietWhenClosed
    <2>1. Len(toService) = 0 OBVIOUS
    <2> QED BY <2>1, NewClientType DEF CallsInv, ClosedInv, Quiet
  <1> QED BY <1>1, CallsInductive, PTL

\* A client that is not there is used only for a candidate of the current session that comes
\* after the call ended here.
THEOREM AlwaysDiesByCandidate == CallsSpec => []DiesOnlyByCandidate
  <1>1. CallsInv => DiesOnlyByCandidate BY DEF CallsInv
  <1> QED BY <1>1, CallsInductive, PTL
==============================================================================
