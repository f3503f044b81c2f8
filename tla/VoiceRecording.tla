---------------------------- MODULE VoiceRecording ----------------------------
(***************************************************************************)
(* Recording a voice message and handing it to the send queue:             *)
(* VoiceRecorder, M4aEncoder, VoiceMessageController and                   *)
(* MessagingViewModel::sendVoice(), driven by the message composer.        *)
(*                                                                         *)
(* Everything runs on the GUI thread.  What interleaves are the user, the  *)
(* microphone, the answer to the permission request, the zero timers of    *)
(* scheduleFinish(), the encoder and the end of uploads; a signal is       *)
(* handled inside the step that emits it.  A recording is known by the     *)
(* m_request of its start(), and audio is counted in pieces.               *)
(***************************************************************************)
EXTENDS Integers, Sequences

CONSTANTS
  Conversations,
  None,         \* no conversation, no job, no upload
  MaxStarts,    \* bound: how often a recording is started
  MaxAudio      \* bound: pieces of audio in a recording

ASSUME VoiceAssumption == None \notin Conversations /\ MaxStarts \in Nat /\ MaxAudio \in Nat /\ None \notin Nat

VARIABLES
  state,     \* VoiceRecorder::m_state
  session,   \* m_session exists: the encoder and the temporary directory
  request,   \* m_request
  asks,      \* requests with a permission question that is not answered
  timers,    \* requests with a scheduled finishRecording()
  discard,   \* m_discard
  error,     \* m_error is not empty
  encodingFinal,
  job,       \* what the encoder works on, and how much audio that is
  audio,     \* audio captured by the recording; m_duration
  kept,      \* recordings whose directory stays on disk
  active,    \* m_activeConversationId
  recipient, \* m_recordingConversationId
  file,      \* m_voiceRecordingFile
  whenReady, \* m_sendVoiceWhenReady
  sent,      \* voice messages handed to the send queue
  uploads,   \* sends whose future is watched
  latest,    \* the send whose revision is still recordingRevision()
  sendError, \* the send m_voiceSendError is about
  madeFor,   \* conversation that was open when a recording was started
  asked,     \* recordings the user has asked to send
  withdrawn  \* recordings the user has canceled before they were sent

recorder == <<state, session, request, asks, timers, discard, error, encodingFinal, job, audio, kept>>
composer == <<active, recipient, file, whenReady, sent, uploads, latest, sendError>>
ghosts == <<madeFor, asked, withdrawn>>
vars == <<recorder, composer, ghosts>>

Takes == 0..(MaxStarts + 1)
NoFile == [kind |-> "none", take |-> 0, audio |-> 0]

Init ==
  /\ state = "Idle" /\ session = FALSE /\ request = 0 /\ asks = {} /\ timers = {}
  /\ discard = FALSE /\ error = FALSE /\ encodingFinal = FALSE /\ job = None /\ audio = 0 /\ kept = {}
  /\ active = None /\ recipient = None /\ file = NoFile /\ whenReady = FALSE
  /\ sent = <<>> /\ uploads = {} /\ latest = None /\ sendError = None
  /\ madeFor = [t \in Takes |-> None] /\ asked = {} /\ withdrawn = {}

Busy == state # "Idle"

-----------------------------------------------------------------------------
(* Sending                                                                 *)

\* SendMessageUsecase::sendVoice(): the file exists.  The directory of a recording
\* is removed with its session unless the recording was saved.
Usable(f) == f.kind # "none" /\ f.take \in kept'

\* sendVoice() when nothing is being recorded, of what is left after a step that
\* gives m_voiceRecordingFile the value f and m_voiceSendError the value e.  Unless it
\* returns early, sendVoice() releases the composer with cancelVoiceRecording().
SendNow(f, e) ==
  IF audio = 0 \/ f.kind = "none" \/ recipient = None \/ recipient # active
  THEN file' = f /\ sendError' = e /\ UNCHANGED <<recipient, sent, uploads, latest>>
  ELSE /\ sent' = IF Usable(f) THEN Append(sent, [take |-> f.take, kind |-> f.kind, to |-> recipient]) ELSE sent
       /\ uploads' = uploads \cup {f.take} /\ latest' = f.take
       /\ file' = NoFile /\ sendError' = None /\ recipient' = None

\* The future of a send finishes; the error of an older one is not shown.
UploadEnds(t, ok) ==
  /\ t \in uploads /\ uploads' = uploads \ {t}
  /\ ok => \E i \in 1..Len(sent) : sent[i].take = t
  /\ sendError' = IF ~ok /\ t = latest THEN t ELSE sendError
  /\ UNCHANGED <<recorder, active, recipient, file, whenReady, sent, latest, ghosts>>

-----------------------------------------------------------------------------
(* The recorder                                                            *)

\* Mutant: a canceled recording leaves m_sendVoiceWhenReady set.
CanceledUnheard == UNCHANGED whenReady

\* canceled() and errorOccurred() reach the view model.
Canceled == whenReady' = FALSE
Failed == error' = TRUE /\ whenReady' = FALSE

\* fail() without a session, and with the one of request r.
FailEarly ==
  /\ Failed /\ discard' = TRUE /\ state' = "Idle"
  /\ UNCHANGED <<session, timers, encodingFinal, job>>
FailLate(r) ==
  /\ Failed /\ discard' = TRUE /\ state' = "Stopping"
  /\ timers' = timers \cup {r}

\* beginRecording() for request r: no microphone, a session that does not work, or a
\* recording.  start() has cleared m_discard and m_error; the file was f.
BeginRecording(r, f) ==
  \/ FailEarly /\ file' = f
  \/ FailLate(r) /\ session' = TRUE /\ encodingFinal' = FALSE /\ job' = None /\ file' = f
  \/ /\ state' = "Recording" /\ session' = TRUE /\ encodingFinal' = FALSE /\ job' = None
     /\ file' = [kind |-> "target", take |-> r, audio |-> 0]
     /\ discard' = FALSE /\ error' = FALSE
     /\ UNCHANGED <<timers, whenReady>>

\* M4aEncoder::encode(), when it succeeds: a newer job replaces the one before.
Encode(kind) == ~encodingFinal /\ audio > 0 /\ job' = [kind |-> kind, audio |-> audio]

\* recordingReady(), for the conversation that is still open.
RecordingReady ==
  LET final == [kind |-> "final", take |-> request, audio |-> audio] IN
  IF recipient = None \/ recipient # active
  THEN UNCHANGED <<file, recipient, sent, uploads, latest, sendError, whenReady>>
  ELSE /\ whenReady' = FALSE
       /\ IF whenReady THEN SendNow(final, None)
          ELSE file' = final /\ sendError' = None /\ UNCHANGED <<recipient, sent, uploads, latest>>

\* completeRecording(): canceled() is only emitted if no error was reported before.
Complete(saved) ==
  /\ state' = "Idle" /\ session' = FALSE /\ encodingFinal' = FALSE /\ job' = None
  /\ kept' = IF saved THEN kept \cup {request} ELSE kept
  /\ IF saved THEN RecordingReady /\ UNCHANGED error
     ELSE /\ UNCHANGED <<file, recipient, sent, uploads, latest, sendError>>
          /\ \/ ~error /\ ~discard /\ Failed
             \/ ~error /\ discard /\ Canceled /\ UNCHANGED error
             \/ error /\ UNCHANGED <<error, whenReady>>

\* finishRecording(), from a timer of scheduleFinish().
Finish(r) ==
  /\ r \in timers /\ timers' = timers \ {r}
  /\ IF r # request \/ ~session \/ state # "Stopping"
     THEN UNCHANGED <<state, session, error, encodingFinal, job, kept, file, recipient, whenReady, sent, uploads, latest, sendError>>
     ELSE \/ ~discard /\ Encode("final") /\ encodingFinal' = TRUE
             /\ UNCHANGED <<state, session, error, kept, file, recipient, whenReady, sent, uploads, latest, sendError>>
          \/ Complete(FALSE)
  /\ UNCHANGED <<request, asks, discard, audio, active, ghosts>>

\* previewReady(), for the conversation that is still open.
PreviewReady ==
  IF recipient = None \/ recipient # active THEN UNCHANGED <<file, sendError>>
  ELSE file' = [kind |-> "preview", take |-> request, audio |-> job.audio] /\ sendError' = None

\* encodingFinished(): the encoder is done, has failed or was timed out.
Encoded(ok) ==
  /\ job # None
  /\ IF encodingFinal THEN Complete(ok /\ ~discard)
     ELSE /\ job' = None
          /\ IF state # "Paused" THEN UNCHANGED <<error, file, whenReady, sendError>>
             ELSE IF ok THEN PreviewReady /\ UNCHANGED <<error, whenReady>>
             ELSE Failed /\ UNCHANGED <<file, sendError>>
          /\ UNCHANGED <<state, session, encodingFinal, kept, recipient, sent, uploads, latest>>
  /\ UNCHANGED <<request, asks, timers, discard, audio, active, ghosts>>

\* writeData(): the microphone delivers.
Capture ==
  /\ state = "Recording" /\ audio < MaxAudio /\ audio' = audio + 1
  /\ UNCHANGED <<state, session, request, asks, timers, discard, error, encodingFinal, job, kept, composer, ghosts>>

\* The microphone stops.
SourceFails ==
  /\ state \in {"Recording", "Paused"} /\ FailLate(request)
  /\ UNCHANGED <<session, request, asks, encodingFinal, job, audio, kept>>
  /\ UNCHANGED <<active, recipient, file, sent, uploads, latest, sendError, ghosts>>

\* The user answers the permission question; it may be about an older start().
Permission(r, granted) ==
  /\ r \in asks /\ asks' = asks \ {r}
  /\ IF r # request \/ state # "Starting"
     THEN UNCHANGED <<state, session, timers, discard, error, encodingFinal, job, file, whenReady>>
     ELSE IF granted THEN BeginRecording(request, file) ELSE FailEarly /\ UNCHANGED file
  /\ UNCHANGED <<request, audio, kept, active, recipient, sent, uploads, latest, sendError, ghosts>>

-----------------------------------------------------------------------------
(* The user                                                                *)

\* startVoiceRecording() when no conversation is open.
StartNowhere ==
  /\ ~Busy /\ active = None /\ whenReady' = FALSE
  /\ UNCHANGED <<recorder, active, recipient, file, sent, uploads, latest, sendError, ghosts>>

\* startVoiceRecording(): the directory is not writable, the permission is known, or
\* it is asked for.
Start ==
  /\ ~Busy /\ active # None /\ request < MaxStarts
  /\ recipient' = active /\ latest' = None /\ sendError' = None /\ audio' = 0
  /\ \/ FailEarly /\ file' = NoFile /\ UNCHANGED <<request, asks, madeFor>>
     \/ /\ request' = request + 1 /\ madeFor' = [madeFor EXCEPT ![request + 1] = active]
        /\ \/ /\ state' = "Starting" /\ asks' = asks \cup {request + 1} /\ discard' = FALSE /\ error' = FALSE
              /\ file' = NoFile /\ UNCHANGED <<session, timers, encodingFinal, job, whenReady>>
           \/ FailEarly /\ file' = NoFile /\ UNCHANGED asks
           \/ BeginRecording(request + 1, NoFile) /\ UNCHANGED asks
  /\ UNCHANGED <<kept, active, sent, uploads, asked, withdrawn>>

\* pause(): a preview of what was captured is encoded, or cannot be.
Pause ==
  /\ state = "Recording" /\ state' = "Paused"
  /\ \/ Encode("preview") /\ UNCHANGED <<error, whenReady>>
     \/ Failed /\ job' \in {job, None}
  /\ UNCHANGED <<session, request, asks, timers, discard, encodingFinal, audio, kept>>
  /\ UNCHANGED <<active, recipient, file, sent, uploads, latest, sendError, ghosts>>

\* resumeVoiceRecording(): the preview is no longer shown.  The microphone may fail.
Resume ==
  /\ state = "Paused" /\ file' = NoFile /\ sendError' = None
  /\ \/ state' = "Recording" /\ UNCHANGED <<timers, discard, error, whenReady>>
     \/ FailLate(request)
  /\ UNCHANGED <<session, request, asks, encodingFinal, job, audio, kept>>
  /\ UNCHANGED <<active, recipient, sent, uploads, latest, ghosts>>

\* Mutant: cancel() does not schedule the end.
RecorderCancelUnscheduled(ready) ==
  CASE state = "Idle" -> whenReady' = ready /\ UNCHANGED <<state, request, timers, discard>>
    [] session -> state' = "Stopping" /\ discard' = TRUE /\ whenReady' = ready /\ UNCHANGED <<request, timers>>
    [] OTHER -> state' = "Idle" /\ discard' = TRUE /\ request' = request + 1 /\ whenReady' = FALSE /\ UNCHANGED timers

\* cancel(), with m_sendVoiceWhenReady = ready: a session is finished by the timer, a
\* start is given up at once.
RecorderCancel(ready) ==
  CASE state = "Idle" -> whenReady' = ready /\ UNCHANGED <<state, request, timers, discard>>
    [] state # "Idle" /\ session ->
         /\ state' = "Stopping" /\ discard' = TRUE /\ timers' = timers \cup {request}
         /\ whenReady' = ready /\ UNCHANGED request
    [] state # "Idle" /\ ~session ->
         state' = "Idle" /\ discard' = TRUE /\ request' = request + 1 /\ Canceled /\ UNCHANGED timers

\* sendRecording(): stopVoiceRecording() and sendVoice().
Send ==
  /\ UNCHANGED kept
  /\ \/ /\ ~Busy /\ SendNow(file, sendError)
        /\ UNCHANGED <<state, request, timers, discard, whenReady>>
     \/ /\ Busy /\ session /\ state' = "Stopping" /\ whenReady' = TRUE
        /\ timers' = IF state = "Stopping" THEN timers ELSE timers \cup {request}
        /\ UNCHANGED <<request, discard, recipient, file, sent, uploads, latest, sendError>>
     \/ /\ Busy /\ ~session /\ RecorderCancel(whenReady)
        /\ UNCHANGED <<recipient, file, sent, uploads, latest, sendError>>
  /\ asked' = asked \cup {request}
  /\ UNCHANGED <<session, asks, error, encodingFinal, job, audio, active, madeFor, withdrawn>>

\* Mutant: the recipient stays, and a recorder that is already stopping is not told.
DropDraftUnstopped(ready) ==
  /\ file' = NoFile /\ sendError' = None /\ UNCHANGED <<recipient, latest>>
  /\ IF state = "Stopping" THEN whenReady' = ready /\ UNCHANGED <<state, request, timers, discard>>
     ELSE RecorderCancel(ready)

\* VoiceMessageController::cancelVoiceRecording(), whoever calls it.
DropDraft(ready) ==
  /\ latest' = None /\ recipient' = None /\ file' = NoFile /\ sendError' = None
  /\ RecorderCancel(ready)

\* The recording the user no longer wants, if there is one that is not sent.
Withdraw == withdrawn' = IF Busy \/ file.kind # "none" THEN withdrawn \cup {request} ELSE withdrawn

\* What dropping the draft leaves alone.
Leave ==
  /\ Withdraw
  /\ UNCHANGED <<session, asks, error, encodingFinal, job, audio, kept, sent, uploads, madeFor, asked>>

CancelVoiceRecording == DropDraft(whenReady) /\ Leave /\ UNCHANGED active

\* fetchMessage() of another conversation, with setConversation().
Select(c) == c # active /\ active' = c /\ DropDraft(FALSE) /\ Leave

\* resetModel(), with reset().
Reset == active' = None /\ DropDraft(FALSE) /\ Leave

-----------------------------------------------------------------------------
Next ==
  \/ Start \/ StartNowhere \/ Pause \/ Resume \/ Send \/ CancelVoiceRecording \/ Reset
  \/ \E c \in Conversations : Select(c)
  \/ \E r \in asks, granted \in BOOLEAN : Permission(r, granted)
  \/ Capture \/ SourceFails
  \/ \E r \in timers : Finish(r)
  \/ \E ok \in BOOLEAN : Encoded(ok)
  \/ \E t \in uploads, ok \in BOOLEAN : UploadEnds(t, ok)

Spec == Init /\ [][Next]_vars

\* Timers fire, and the encoder ends or is ended by its own timer of a minute.  The
\* user, the permission and the uploads may take forever.
FairSpec ==
  /\ Spec
  /\ \A r \in Takes : WF_vars(Finish(r))
  /\ WF_vars(\E ok \in BOOLEAN : Encoded(ok))

-----------------------------------------------------------------------------
Kinds == {"none", "target", "preview", "final"}

RecorderTypes ==
  /\ state \in {"Idle", "Starting", "Recording", "Paused", "Stopping"}
  /\ session \in BOOLEAN /\ discard \in BOOLEAN /\ error \in BOOLEAN /\ encodingFinal \in BOOLEAN
  /\ request \in Takes /\ asks \subseteq Takes /\ timers \subseteq Takes
  /\ job \in {None} \cup [kind : {"preview", "final"}, audio : 1..MaxAudio]
  /\ audio \in 0..MaxAudio /\ kept \subseteq Takes
ComposerTypes ==
  /\ active \in Conversations \cup {None} /\ recipient \in Conversations \cup {None}
  /\ file \in [kind : Kinds, take : Takes, audio : 0..MaxAudio] /\ whenReady \in BOOLEAN
  /\ uploads \subseteq Takes /\ latest \in Takes \cup {None} /\ sendError \in Takes \cup {None}
SentTypes ==
  /\ sent \in Seq([take : Takes, kind : Kinds, to : Conversations])
  /\ madeFor \in [Takes -> Conversations \cup {None}]
  /\ asked \subseteq Takes /\ withdrawn \subseteq Takes

\* Every variable has its type; what the encoder is given is never empty.
TypeOK == RecorderTypes /\ ComposerTypes /\ SentTypes

\* A voice message that is queued is a finished recording whose file stays on disk,
\* never a preview or the file of a recording that failed.
SentIsFinal == \A i \in 1..Len(sent) : sent[i].kind = "final" /\ sent[i].take \in kept

\* A voice message goes to the conversation in which its recording was started, even
\* if the user opens another one while it is still encoded.
RightRecipient == \A i \in 1..Len(sent) : sent[i].to = madeFor[sent[i].take]

\* Only what the user has asked to send is sent, once, and nothing the user has
\* canceled before: not even when the encoder was already at the final file.
OnlyWanted ==
  /\ \A i \in 1..Len(sent) : sent[i].take \in asked \ withdrawn
  /\ \A i, j \in 1..Len(sent) : sent[i].take = sent[j].take => i = j

\* The error shown in the composer is about the last voice message: the end of an
\* older upload does not touch a newer recording.
ErrorIsCurrent == sendError # None => sendError = latest /\ file = NoFile

\* A recorder that is stopping gets back to idle, whatever was canceled meanwhile.
BusyEnds == state = "Stopping" ~> state = "Idle"

\* Once the recorder is idle no send waits for it any more, for whatever reason it
\* stopped; the exception is a recording that had reported an error before, whose end
\* is announced to nobody.
NothingWaits == state = "Idle" /\ whenReady => error

-----------------------------------------------------------------------------
(* The inductive invariant.                                                *)

\* The session, its encoder and the states of the recorder go together.
RecorderInv ==
  /\ session <=> state \in {"Recording", "Paused", "Stopping"}
  /\ job # None => session
  /\ encodingFinal => state = "Stopping"
  /\ state = "Starting" => request \in 1..MaxStarts
  /\ session => request \in 1..MaxStarts

\* The draft is the one of the open conversation and of the current request.
DraftInv ==
  /\ recipient # None => recipient = active
  /\ state \in {"Starting", "Recording", "Paused"} => recipient # None
  /\ state = "Stopping" /\ ~discard => recipient # None /\ request \in asked
  /\ file.kind = "none" => file = NoFile
  /\ state = "Starting" => file = NoFile
  /\ file.kind # "none" => recipient # None /\ file.take = request /\ request \notin withdrawn
  /\ (Busy \/ file.kind # "none") /\ recipient # None => madeFor[request] = recipient
  /\ Busy /\ request \in withdrawn => recipient = None
  /\ latest # None => recipient = None

\* A take is kept when its recording ends, and only its final file outlives it.
KeptInv ==
  /\ \A t \in kept : 0 < t /\ t <= request
  /\ \A t \in withdrawn : t <= request
  /\ Busy => request \notin kept
  /\ file.kind \in {"target", "preview"} => request \notin kept
  /\ \A i \in 1..Len(sent) : sent[i].take \in kept
  /\ file.kind # "none" => \A i \in 1..Len(sent) : sent[i].take # request

SentInv == SentIsFinal /\ RightRecipient /\ OnlyWanted

\* Whatever the user paused, canceled, or left for another conversation, what
\* sendVoiceMessage() queues is what the user meant to send.
SentAsMeant == TypeOK /\ SentInv

\* The composer tells the truth about the recorder: an error is about the last
\* message, and no send waits for a recorder that is idle.
ScreenInv == ErrorIsCurrent /\ NothingWaits
VoiceInv ==
  /\ RecorderTypes /\ ComposerTypes /\ SentTypes
  /\ RecorderInv /\ DraftInv /\ KeptInv /\ SentInv /\ ScreenInv
=============================================================================
