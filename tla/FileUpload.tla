------------------------------ MODULE FileUpload ------------------------------
(***************************************************************************)
(* Uploads on the XMPP thread: XmppManager::fileUpload() and               *)
(* fileUploads(), FileUploadOperation and watchFileUploads().              *)
(*                                                                         *)
(* The futures are handed to another thread, which may cancel them at any  *)
(* moment; everything else happens on the XMPP thread, one event at a time *)
(* and in no particular order: the answer of the upload service, the end   *)
(* of the HTTP transfer, the 120 s timer, the loss of the connection, the  *)
(* news that a future was canceled or has finished.                        *)
(***************************************************************************)
EXTENDS Integers, Sequences

CONSTANTS
  Singles,  \* files passed to fileUpload()
  Batch     \* the files passed to fileUploads(), in order

Parts == {Batch[i] : i \in 1..Len(Batch)}
Files == Singles \cup Parts

ASSUME UploadAssumption ==
  /\ Batch \in Seq(Files) /\ Singles \cap Parts = {}
  /\ \A i, k \in 1..Len(Batch) : Batch[i] = Batch[k] => i = k

VARIABLES
  stage,     \* where each file is; "done" is m_done
  canceled,  \* files whose future is canceled
  finishes,  \* how often promise->finish() was called for each file
  result,    \* what was added to the future
  reply,     \* the HTTP transfer of each file
  open,      \* files whose source device is open
  accepted,  \* files the server has taken
  batch,     \* where the batch is
  started,   \* how many files of the batch were started
  heard,     \* files of the batch whose end was noted
  results,   \* what the batch collects: outcomes of its files
  batchCanceled, batchFinishes, batchResult,
  alive      \* the XmppManager exists

batchVars == <<batch, started, heard, results, batchCanceled, batchFinishes, batchResult>>
vars == <<stage, canceled, finishes, result, reply, open, accepted, batchVars, alive>>

Outcomes == {"none", "url", "error"}

Init ==
  /\ stage = [f \in Files |-> "idle"] /\ canceled = {}
  /\ finishes = [f \in Files |-> 0] /\ result = [f \in Files |-> "none"]
  /\ reply = [f \in Files |-> "none"] /\ open = {} /\ accepted = {}
  /\ batch = "idle" /\ started = 0 /\ heard = {} /\ results = [f \in Files |-> "none"]
  /\ batchCanceled = FALSE /\ batchFinishes = 0 /\ batchResult = <<>>
  /\ alive = TRUE

\* Operations that exist and have not finished.
Running == {f \in Files : stage[f] \in {"opening", "slot", "putting", "sending", "stopped"}}

\* The XMPP thread is in its event loop.
Free == alive /\ batch # "looping" /\ \A f \in Files : stage[f] \notin {"opening", "putting"}

Moved(fs, to) == [f \in Files |-> IF f \in fs THEN to ELSE stage[f]]

\* Mutant: m_done is set after stopTransport(), whose abort() re-enters.
FinishAbortFirst(fs, how) ==
  /\ stage' = Moved(fs, "done")
  /\ finishes' = [f \in Files |-> finishes[f] + (IF f \notin fs THEN 0 ELSE IF reply[f] = "running" THEN 2 ELSE 1)]
  /\ result' = [f \in Files |-> IF f \in fs \ canceled THEN how ELSE result[f]]
  /\ reply' = [f \in Files |-> IF f \in fs /\ reply[f] = "running" THEN "ended" ELSE reply[f]]
  /\ open' = open \ fs

\* finish() and cancel() of the operations of these files: m_done, the transfer
\* is aborted, the device closed, and the promise finished.
Finish(fs, how) ==
  /\ stage' = Moved(fs, "done")
  /\ finishes' = [f \in Files |-> finishes[f] + (IF f \in fs THEN 1 ELSE 0)]
  /\ result' = [f \in Files |-> IF f \in fs \ canceled THEN how ELSE result[f]]
  /\ reply' = [f \in Files |-> IF f \in fs /\ reply[f] = "running" THEN "ended" ELSE reply[f]]
  /\ open' = open \ fs

Goto(f, to) == stage' = Moved({f}, to) /\ UNCHANGED <<finishes, result, reply, open>>

-----------------------------------------------------------------------------
(* The other thread                                                        *)

Ask(f) ==
  /\ alive /\ f \in Singles /\ stage[f] = "idle"
  /\ Goto(f, "posted")
  /\ UNCHANGED <<canceled, accepted, batchVars, alive>>

AskBatch ==
  /\ alive /\ batch = "idle" /\ batch' = "posted"
  /\ UNCHANGED <<stage, canceled, finishes, result, reply, open, accepted, started, heard, results,
                 batchCanceled, batchFinishes, batchResult, alive>>

Cancel(f) ==
  /\ f \in Singles \ canceled /\ stage[f] # "idle" /\ finishes[f] = 0
  /\ canceled' = canceled \cup {f}
  /\ UNCHANGED <<stage, finishes, result, reply, open, accepted, batchVars, alive>>

CancelBatch ==
  /\ batch # "idle" /\ batchFinishes = 0 /\ ~batchCanceled
  /\ batchCanceled' = TRUE
  /\ UNCHANGED <<stage, canceled, finishes, result, reply, open, accepted, batch, started, heard,
                 results, batchFinishes, batchResult, alive>>

-----------------------------------------------------------------------------
(* One file                                                                *)

\* The body of fileUpload(): a canceled upload ends, one that cannot start is
\* rejected, otherwise an operation is created.
Begin(f) ==
  \/ f \in canceled /\ Finish({f}, "none")
  \/ f \notin canceled /\ Finish({f}, "error")
  \/ f \notin canceled /\ Goto(f, "opening")

Call(f) ==
  /\ Free /\ stage[f] = "posted" /\ Begin(f)
  /\ UNCHANGED <<canceled, accepted, batchVars, alive>>

\* open() or openData(), and the request for a slot.
Open(f) ==
  /\ stage[f] = "opening"
  /\ \/ f \in canceled /\ Goto(f, "stopped")
     \/ f \notin canceled /\ Finish({f}, "error")
     \/ /\ f \notin canceled /\ stage' = Moved({f}, "slot") /\ open' = open \cup {f}
        /\ UNCHANGED <<finishes, result, reply>>
  /\ UNCHANGED <<canceled, accepted, batchVars, alive>>

\* The upload service answers: a slot, or an error or a URL that is not allowed.
Slot(f, ok) ==
  /\ Free /\ stage[f] = "slot"
  /\ IF f \in canceled THEN Goto(f, "stopped")
     ELSE IF ok THEN Goto(f, "putting") ELSE Finish({f}, "error")
  /\ UNCHANGED <<canceled, accepted, batchVars, alive>>

\* put(), after the first progress was reported.
Put(f) ==
  /\ stage[f] = "putting"
  /\ IF f \in canceled THEN Goto(f, "stopped")
     ELSE /\ stage' = Moved({f}, "sending") /\ reply' = [reply EXCEPT ![f] = "running"]
          /\ UNCHANGED <<finishes, result, open>>
  /\ UNCHANGED <<canceled, accepted, batchVars, alive>>

\* The HTTP transfer ends.
Reply(f, ok) ==
  /\ Free /\ stage[f] = "sending" /\ reply[f] = "running"
  /\ accepted' = IF ok THEN accepted \cup {f} ELSE accepted
  /\ IF f \in canceled
     THEN /\ stage' = Moved({f}, "stopped") /\ reply' = [reply EXCEPT ![f] = "ended"]
          /\ UNCHANGED <<finishes, result, open>>
     ELSE Finish({f}, IF ok THEN "url" ELSE "error")
  /\ UNCHANGED <<canceled, batchVars, alive>>

HandleCanceled(f) ==
  /\ Free /\ f \in Running \cap canceled /\ Finish({f}, "none")
  /\ UNCHANGED <<canceled, accepted, batchVars, alive>>

Timeout(f) ==
  /\ Free /\ f \in Running /\ Finish({f}, "error")
  /\ UNCHANGED <<canceled, accepted, batchVars, alive>>

\* The network is lost, or the XMPP connection, which only operations that were
\* opened listen to.
Lost ==
  /\ Free
  /\ \E fs \in {Running, Running \cap open} : fs # {} /\ Finish(fs, "error")
  /\ UNCHANGED <<canceled, accepted, batchVars, alive>>

-----------------------------------------------------------------------------
(* The batch                                                               *)

Members == {Batch[i] : i \in 1..started}
FinishBatch(how) == batch' = "done" /\ batchFinishes' = batchFinishes + 1 /\ batchResult' = how
Unfinished(fs) == {f \in fs : finishes[f] = 0}

BatchCall ==
  /\ Free /\ batch = "posted"
  /\ IF batchCanceled THEN FinishBatch(<<>>)
     ELSE batch' = "looping" /\ UNCHANGED <<batchFinishes, batchResult>>
  /\ UNCHANGED <<stage, canceled, finishes, result, reply, open, accepted, started, heard, results,
                 batchCanceled, alive>>

Starting == batch = "looping" /\ \A f \in Files : stage[f] # "opening"

\* The loop of fileUploads() starts the next file.
Loop ==
  /\ Starting /\ started < Len(Batch) /\ ~batchCanceled
  /\ started' = started + 1
  /\ Begin(Batch[started + 1])
  /\ UNCHANGED <<canceled, accepted, batch, heard, results, batchCanceled, batchFinishes,
                 batchResult, alive>>

\* watchFileUploads().
Watch ==
  /\ Starting /\ (started = Len(Batch) \/ batchCanceled)
  /\ canceled' = IF batchCanceled THEN canceled \cup Unfinished(Members) ELSE canceled
  /\ IF started = 0 THEN FinishBatch(<<>>)
     ELSE batch' = "watching" /\ UNCHANGED <<batchFinishes, batchResult>>
  /\ UNCHANGED <<stage, finishes, result, reply, open, accepted, started, heard, results,
                 batchCanceled, alive>>

\* Mutant: the files of a canceled batch are not canceled.
HandleBatchCanceledKept ==
  /\ Free /\ batch = "watching" /\ batchCanceled /\ Unfinished(Members) \ canceled # {}
  /\ UNCHANGED vars

\* The news that the batch was canceled: so are its files.
HandleBatchCanceled ==
  /\ Free /\ batch = "watching" /\ batchCanceled /\ Unfinished(Members) \ canceled # {}
  /\ canceled' = canceled \cup Unfinished(Members)
  /\ UNCHANGED <<stage, finishes, result, reply, open, accepted, batchVars, alive>>

\* What handleFinished stores for a file.
Note(f) == [results EXCEPT ![f] = IF f \in canceled THEN "error" ELSE result[f]]

\* Mutant: a canceled file is not counted.
HandleFinishedUncounted(f) ==
  /\ Free /\ batch = "watching" /\ f \in Members \ heard /\ finishes[f] > 0 /\ f \notin canceled
  /\ heard' = heard \cup {f}
  /\ results' = Note(f)
  /\ IF heard' = Members
     THEN FinishBatch(IF batchCanceled THEN <<>> ELSE [i \in 1..started |-> results'[Batch[i]]])
     ELSE UNCHANGED <<batch, batchFinishes, batchResult>>
  /\ UNCHANGED <<stage, canceled, finishes, result, reply, open, accepted, started, batchCanceled, alive>>

\* The news that a file has finished; the last one finishes the batch.
HandleFinished(f) ==
  /\ Free /\ batch = "watching" /\ f \in Members \ heard /\ finishes[f] > 0
  /\ heard' = heard \cup {f}
  /\ results' = Note(f)
  /\ IF heard' = Members
     THEN FinishBatch(IF batchCanceled THEN <<>> ELSE [i \in 1..started |-> results'[Batch[i]]])
     ELSE UNCHANGED <<batch, batchFinishes, batchResult>>
  /\ UNCHANGED <<stage, canceled, finishes, result, reply, open, accepted, started, batchCanceled, alive>>

\* The XmppManager is deleted: operations finish their promises as canceled, then
\* the batch does; calls that were posted are dropped with their promises.
Destroy ==
  /\ Free
  /\ alive' = FALSE
  /\ LET fs == Running \cup {f \in Files : stage[f] = "posted"}
     IN  /\ stage' = Moved(fs, "done")
         /\ finishes' = [f \in Files |-> finishes[f] + (IF f \in fs THEN 1 ELSE 0)]
         /\ reply' = [f \in Files |-> IF f \in fs /\ reply[f] = "running" THEN "ended" ELSE reply[f]]
         /\ open' = open \ fs /\ canceled' = canceled \cup fs
  /\ IF batch \in {"posted", "watching"}
     THEN FinishBatch(<<>>) /\ batchCanceled' = TRUE
     ELSE UNCHANGED <<batch, batchFinishes, batchResult, batchCanceled>>
  /\ UNCHANGED <<result, accepted, started, heard, results>>

OtherThread == AskBatch \/ CancelBatch \/ \E f \in Files : Ask(f) \/ Cancel(f)
Server == \E f \in Files, ok \in BOOLEAN : Slot(f, ok) \/ Reply(f, ok)
Prompt ==
  \/ BatchCall \/ Loop \/ Watch \/ HandleBatchCanceled
  \/ \E f \in Files : Call(f) \/ Open(f) \/ Put(f) \/ HandleCanceled(f) \/ HandleFinished(f)
Timers == \E f \in Files : Timeout(f)

Next == OtherThread \/ Server \/ Prompt \/ Timers \/ Lost \/ Destroy

Spec == Init /\ [][Next]_vars

\* The event loop handles what is posted; neither a server nor a timer is needed.
PromptSpec == Spec /\ WF_vars(Prompt)

\* The timers run too.
TimersRun == \A f \in Files : WF_vars(Timeout(f))

-----------------------------------------------------------------------------
(* Properties                                                              *)

TypeOK ==
  /\ stage \in [Files -> {"idle", "posted", "opening", "slot", "putting", "sending", "stopped", "done"}]
  /\ canceled \subseteq Files /\ finishes \in [Files -> Nat] /\ result \in [Files -> Outcomes]
  /\ reply \in [Files -> {"none", "running", "ended"}] /\ open \subseteq Files /\ accepted \subseteq Files
  /\ batch \in {"idle", "posted", "looping", "watching", "done"} /\ started \in 0..Len(Batch)
  /\ heard \subseteq Members /\ results \in [Files -> Outcomes]
  /\ batchCanceled \in BOOLEAN /\ batchFinishes \in Nat /\ batchResult \in Seq(Outcomes)
  /\ alive \in BOOLEAN

\* A promise is finished exactly once, by whichever of the answer, the
\* cancellation, the timer, the lost connection and the destructor is first.
FinishedOnce ==
  /\ \A f \in Files : finishes[f] = IF stage[f] = "done" THEN 1 ELSE 0
  /\ batchFinishes = IF batch = "done" THEN 1 ELSE 0

\* Nothing is transferred or read for an upload whose future has finished.
TransportStopped ==
  \A f \in Files : finishes[f] > 0 => reply[f] # "running" /\ f \notin open

\* A future that holds a URL belongs to a file the server has taken.
SuccessIsReal == \A f \in Files : result[f] = "url" => f \in accepted /\ stage[f] = "done"

\* The result of a batch lists its files in the order they were given, each with
\* its own outcome, and only when all of them have finished.
BatchInOrder ==
  batchResult # <<>> =>
    /\ Len(batchResult) = Len(Batch)
    /\ \A i \in 1..Len(Batch) : finishes[Batch[i]] = 1 /\ batchResult[i] = result[Batch[i]]

\* An upload ends once, with its transport, and says what happened: all of the
\* above, in whatever order the answer, the cancellation, the timer, the lost
\* connection and the destructor of FileUpload come.
UploadSound ==
  TypeOK /\ FinishedOnce /\ TransportStopped /\ SuccessIsReal /\ BatchInOrder

\* Every future finishes while the timers run, even if no server ever answers.
EveryUploadEnds ==
  TimersRun => /\ \A f \in Files : stage[f] # "idle" ~> finishes[f] > 0
               /\ batch # "idle" ~> batchFinishes > 0

\* Canceling is prompt: it needs neither a server nor the timer, and it reaches
\* every file of the batch.
CancelIsPrompt ==
  /\ \A f \in Singles : f \in canceled ~> finishes[f] > 0
  /\ batchCanceled ~> batch = "done" /\ Running \cap Parts = {}
=============================================================================
