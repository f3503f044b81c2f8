---------------------------- MODULE TransferProofs ----------------------------
(***************************************************************************)
(* The transfers of files, both ways.  FileUpload, for any number of       *)
(* single files and any batch: promises are finished once, transports are  *)
(* stopped, and results are the right ones.  Downloads, for any number of  *)
(* messages, requests and destinations: the tables of the repository, the  *)
(* rows that show them and the player agree.                               *)
(***************************************************************************)
EXTENDS FileUpload, Downloads, TLAPS

\* A transfer runs only in the stage that waits for it, and a device is open only
\* while its operation is running.
FileInv ==
  /\ \A f \in Files : finishes[f] = IF stage[f] = "done" THEN 1 ELSE 0
  /\ \A f \in Files : reply[f] = "running" => stage[f] = "sending"
  /\ \A f \in open : stage[f] \in {"slot", "putting", "sending", "stopped"}
  /\ SuccessIsReal

\* The files of a batch are started in order; only a canceled batch cancels them;
\* what was noted of a file that has ended stays true.
BatchInv ==
  /\ \A i \in 1..Len(Batch) : i > started => stage[Batch[i]] = "idle"
  /\ \A f \in Parts : stage[f] # "posted"
  /\ batch \in {"idle", "posted"} => started = 0
  /\ batch = "watching" /\ ~batchCanceled => started = Len(Batch)
  /\ batch = "done" => \A f \in Parts : stage[f] \in {"idle", "done"}
  /\ canceled \cap Parts # {} => batchCanceled
  /\ \A f \in heard : stage[f] = "done" /\ results[f] = IF f \in canceled THEN "error" ELSE result[f]
  /\ batchFinishes = IF batch = "done" THEN 1 ELSE 0
  /\ batchResult # <<>> => batch = "done"
  /\ BatchInOrder

UploadInv == TypeOK /\ FileInv /\ BatchInv

-----------------------------------------------------------------------------
(* Files                                                                   *)

\* The part of the type invariant about single files.
FileTypes ==
  /\ stage \in [Files -> {"idle", "posted", "opening", "slot", "putting", "sending", "stopped", "done"}]
  /\ canceled \subseteq Files /\ finishes \in [Files -> Nat] /\ result \in [Files -> Outcomes]
  /\ reply \in [Files -> {"none", "running", "ended"}] /\ open \subseteq Files /\ accepted \subseteq Files

BatchTypes ==
  /\ batch \in {"idle", "posted", "looping", "watching", "done"} /\ started \in 0..Len(Batch)
  /\ heard \subseteq Members /\ results \in [Files -> Outcomes]
  /\ batchCanceled \in BOOLEAN /\ batchFinishes \in Nat /\ batchResult \in Seq(Outcomes)
  /\ alive \in BOOLEAN

LEMMA TypeParts == TypeOK <=> FileTypes /\ BatchTypes
  BY DEF TypeOK, FileTypes, BatchTypes

\* Files that have ended, and files of the batch that were not started, are left
\* alone by a step.
Kept ==
  /\ \A f \in Files : stage[f] = "done" =>
       /\ stage'[f] = "done" /\ result'[f] = result[f] /\ finishes'[f] = finishes[f]
       /\ f \in canceled' <=> f \in canceled
  /\ \A f \in Parts : stage[f] = "idle" => stage'[f] = "idle"
  /\ \A f \in Parts : stage'[f] # "posted"

\* Operations that have not ended are finished.
LEMMA FinishDone ==
  ASSUME FileTypes, FileInv, NEW fs, fs \subseteq Files, \A f \in fs : stage[f] # "done",
         NEW how \in Outcomes, accepted' \subseteq Files, accepted \subseteq accepted',
         how = "url" => fs \subseteq accepted',
         canceled' = canceled, Finish(fs, how)
  PROVE  /\ FileTypes' /\ FileInv'
         /\ \A f \in Files : IF f \in fs THEN stage'[f] = "done"
                             ELSE stage'[f] = stage[f] /\ result'[f] = result[f] /\ finishes'[f] = finishes[f]
  <1>1. /\ stage' = [f \in Files |-> IF f \in fs THEN "done" ELSE stage[f]]
        /\ finishes' = [f \in Files |-> finishes[f] + (IF f \in fs THEN 1 ELSE 0)]
        /\ result' = [f \in Files |-> IF f \in fs \ canceled THEN how ELSE result[f]]
        /\ reply' = [f \in Files |-> IF f \in fs /\ reply[f] = "running" THEN "ended" ELSE reply[f]]
        /\ open' = open \ fs
    BY DEF Finish, Moved
  <1>2. FileTypes' BY <1>1 DEF FileTypes, Outcomes
  <1>3. \A f \in Files : finishes'[f] = IF stage'[f] = "done" THEN 1 ELSE 0
    BY <1>1 DEF FileTypes, FileInv
  <1>4. \A f \in Files : reply'[f] = "running" => stage'[f] = "sending" BY <1>1 DEF FileTypes, FileInv
  <1>5. \A f \in open' : stage'[f] \in {"slot", "putting", "sending", "stopped"}
    BY <1>1 DEF FileTypes, FileInv
  <1>6. SuccessIsReal' BY <1>1 DEF FileTypes, FileInv, SuccessIsReal, Outcomes
  <1>7. \A f \in Files : IF f \in fs THEN stage'[f] = "done"
                         ELSE stage'[f] = stage[f] /\ result'[f] = result[f] /\ finishes'[f] = finishes[f]
    BY <1>1 DEF FileTypes
  <1>8. QED BY <1>2, <1>3, <1>4, <1>5, <1>6, <1>7 DEF FileInv

\* An operation that has not ended goes to its next stage.
LEMMA GotoDone ==
  ASSUME FileTypes, FileInv, NEW g \in Files, stage[g] # "done",
         NEW to \in {"posted", "opening", "slot", "putting", "sending", "stopped"},
         stage' = Moved({g}, to), finishes' = finishes, result' = result,
         accepted' \subseteq Files, accepted \subseteq accepted', canceled' = canceled,
         reply' = reply \/ (\E r \in {"none", "running", "ended"} : reply' = [reply EXCEPT ![g] = r]),
         reply'[g] = "running" => to = "sending",
         open' \in {open, open \cup {g}}, g \in open' => to \in {"slot", "putting", "sending", "stopped"}
  PROVE  /\ FileTypes' /\ FileInv'
         /\ \A f \in Files : IF f = g THEN stage'[f] = to
                             ELSE stage'[f] = stage[f] /\ result'[f] = result[f] /\ finishes'[f] = finishes[f]
  <1>1. stage' = [f \in Files |-> IF f \in {g} THEN to ELSE stage[f]] BY DEF Moved
  <1>2. FileTypes' BY <1>1 DEF FileTypes
  <1>3. \A f \in Files : finishes'[f] = IF stage'[f] = "done" THEN 1 ELSE 0
    BY <1>1 DEF FileTypes, FileInv
  <1>4. \A f \in Files : reply'[f] = "running" => stage'[f] = "sending" BY <1>1 DEF FileTypes, FileInv
  <1>5. \A f \in open' : stage'[f] \in {"slot", "putting", "sending", "stopped"}
    BY <1>1 DEF FileTypes, FileInv
  <1>6. SuccessIsReal' BY <1>1 DEF FileTypes, FileInv, SuccessIsReal
  <1>7. \A f \in Files : IF f = g THEN stage'[f] = to
                         ELSE stage'[f] = stage[f] /\ result'[f] = result[f] /\ finishes'[f] = finishes[f]
    BY <1>1 DEF FileTypes
  <1>8. QED BY <1>2, <1>3, <1>4, <1>5, <1>6, <1>7 DEF FileInv

\* A step that leaves the batch and the ended files alone keeps the invariant.
LEMMA BatchKept ==
  ASSUME UploadInv, Kept, UNCHANGED <<batchVars, alive>>,
         canceled' \cap Parts # {} => batchCanceled
  PROVE  BatchInv' /\ BatchTypes'
  <1>0. Parts \subseteq Files /\ Members \subseteq Parts
    BY DEF Files, Parts, Members, UploadInv, TypeOK
  <1>1. BatchTypes' BY DEF UploadInv, TypeOK, BatchTypes, batchVars, Members
  <1>2. \A i \in 1..Len(Batch) : i > started' => stage'[Batch[i]] = "idle"
    BY DEF UploadInv, BatchInv, batchVars, Kept, Parts
  <1>3. batch' = "done" => \A f \in Parts : stage'[f] \in {"idle", "done"}
    BY <1>0 DEF UploadInv, BatchInv, batchVars, Kept
  <1>4. \A f \in heard' : stage'[f] = "done" /\ results'[f] = IF f \in canceled' THEN "error" ELSE result'[f]
    BY <1>0 DEF UploadInv, TypeOK, BatchInv, batchVars, Kept
  <1>5. BatchInOrder'
    <2>1. SUFFICES ASSUME batchResult' # <<>>
                   PROVE  /\ Len(batchResult') = Len(Batch)
                          /\ \A i \in 1..Len(Batch) : finishes'[Batch[i]] = 1 /\ batchResult'[i] = result'[Batch[i]]
      BY DEF BatchInOrder
    <2>2. batchResult' = batchResult BY DEF batchVars
    <2>3. /\ Len(batchResult) = Len(Batch)
          /\ \A i \in 1..Len(Batch) : finishes[Batch[i]] = 1 /\ batchResult[i] = result[Batch[i]]
      BY <2>1, <2>2 DEF UploadInv, BatchInv, BatchInOrder
    <2>4. \A i \in 1..Len(Batch) : Batch[i] \in Files /\ stage[Batch[i]] = "done"
      BY <1>0, <2>3 DEF UploadInv, FileInv, Parts
    <2>5. QED BY <2>2, <2>3, <2>4 DEF Kept
  <1>6. QED BY <1>1, <1>2, <1>3, <1>4, <1>5 DEF UploadInv, BatchInv, batchVars, Kept

LEMMA Membership ==
  /\ Parts \subseteq Files /\ Singles \subseteq Files /\ Singles \cap Parts = {}
  /\ \A f \in Files : f \notin Singles => f \in Parts
  BY UploadAssumption DEF Files

\* A step that finishes operations.
LEMMA FinishStep ==
  ASSUME UploadInv, NEW fs, fs \subseteq Files, \A f \in fs : stage[f] \notin {"done", "idle"},
         NEW how \in Outcomes, accepted' \subseteq Files, accepted \subseteq accepted',
         how = "url" => fs \subseteq accepted',
         canceled' = canceled, Finish(fs, how), UNCHANGED <<batchVars, alive>>
  PROVE  UploadInv'
  <1>1. FileTypes /\ BatchTypes /\ FileInv BY TypeParts DEF UploadInv
  <1>2. /\ FileTypes' /\ FileInv'
        /\ \A f \in Files : IF f \in fs THEN stage'[f] = "done"
                            ELSE stage'[f] = stage[f] /\ result'[f] = result[f] /\ finishes'[f] = finishes[f]
    BY <1>1, FinishDone
  <1>3. Kept BY <1>2, Membership DEF Kept, UploadInv, BatchInv
  <1>4. BatchInv' /\ BatchTypes' BY <1>3, BatchKept DEF UploadInv, BatchInv
  <1>5. TypeOK' BY <1>2, <1>4 DEF TypeOK, FileTypes, BatchTypes
  <1>6. QED BY <1>2, <1>4, <1>5 DEF UploadInv

\* A step that moves one operation.
LEMMA GotoStep ==
  ASSUME UploadInv, NEW g \in Files, stage[g] # "done", stage[g] = "idle" => g \in Singles,
         NEW to \in {"posted", "opening", "slot", "putting", "sending", "stopped"},
         to = "posted" => g \in Singles,
         stage' = Moved({g}, to), finishes' = finishes, result' = result,
         accepted' \subseteq Files, accepted \subseteq accepted', canceled' = canceled,
         reply' = reply \/ (\E r \in {"none", "running", "ended"} : reply' = [reply EXCEPT ![g] = r]),
         reply'[g] = "running" => to = "sending",
         open' \in {open, open \cup {g}}, g \in open' => to \in {"slot", "putting", "sending", "stopped"},
         UNCHANGED <<batchVars, alive>>
  PROVE  UploadInv'
  <1>1. FileTypes /\ BatchTypes /\ FileInv BY TypeParts DEF UploadInv
  <1>2. /\ FileTypes' /\ FileInv'
        /\ \A f \in Files : IF f = g THEN stage'[f] = to
                            ELSE stage'[f] = stage[f] /\ result'[f] = result[f] /\ finishes'[f] = finishes[f]
    BY <1>1, GotoDone
  <1>3. Kept
    <2>1. \A f \in Files : stage[f] = "done" =>
            /\ stage'[f] = "done" /\ result'[f] = result[f] /\ finishes'[f] = finishes[f]
            /\ f \in canceled' <=> f \in canceled
      BY <1>2
    <2>2. \A f \in Parts : stage[f] = "idle" => stage'[f] = "idle" BY <1>2, Membership
    <2>3. \A f \in Parts : stage'[f] # "posted"
      <3>1. \A f \in Parts : stage[f] # "posted" BY DEF UploadInv, BatchInv
      <3>2. QED BY <1>2, <3>1, Membership
    <2>4. QED BY <2>1, <2>2, <2>3 DEF Kept
  <1>4. BatchInv' /\ BatchTypes' BY <1>3, BatchKept DEF UploadInv, BatchInv
  <1>5. TypeOK' BY <1>2, <1>4 DEF TypeOK, FileTypes, BatchTypes
  <1>6. QED BY <1>2, <1>4, <1>5 DEF UploadInv

\* Where an operation is not sending, nothing is transferred; where it is not
\* past open(), its device is closed.
LEMMA NotSending ==
  ASSUME UploadInv, NEW f \in Files
  PROVE  /\ stage[f] # "sending" => reply[f] # "running"
         /\ stage[f] \notin {"slot", "putting", "sending", "stopped"} => f \notin open
  BY DEF UploadInv, FileInv

-----------------------------------------------------------------------------
(* Steps of a single file                                                  *)

LEMMA AskInv == ASSUME UploadInv, NEW f \in Files, Ask(f) PROVE UploadInv'
  <1>1. /\ f \in Singles /\ stage[f] = "idle" /\ stage' = Moved({f}, "posted")
        /\ UNCHANGED <<finishes, result, reply, open, canceled, accepted, batchVars, alive>>
    BY DEF Ask, Goto
  <1>2. reply[f] # "running" /\ f \notin open BY <1>1, NotSending
  <1>3. accepted \subseteq Files BY DEF UploadInv, TypeOK
  <1>4. QED BY <1>1, <1>2, <1>3, GotoStep

LEMMA CancelInv == ASSUME UploadInv, NEW f \in Files, Cancel(f) PROVE UploadInv'
  <1>1. /\ f \in Singles /\ finishes[f] = 0 /\ canceled' = canceled \cup {f}
        /\ UNCHANGED <<stage, finishes, result, reply, open, accepted, batchVars, alive>>
    BY DEF Cancel
  <1>2. Kept BY <1>1, Membership DEF Kept, UploadInv, FileInv, BatchInv
  <1>3. canceled' \cap Parts # {} => batchCanceled BY <1>1, Membership DEF UploadInv, BatchInv
  <1>4. BatchInv' /\ BatchTypes' BY <1>1, <1>2, <1>3, BatchKept
  <1>5. FileInv' BY <1>1 DEF UploadInv, FileInv, SuccessIsReal
  <1>6. TypeOK' BY <1>1, <1>4 DEF UploadInv, TypeOK, BatchTypes
  <1>7. QED BY <1>4, <1>5, <1>6 DEF UploadInv

LEMMA CallInv == ASSUME UploadInv, NEW f \in Files, Call(f) PROVE UploadInv'
  <1>1. /\ stage[f] = "posted" /\ Begin(f) /\ UNCHANGED <<canceled, accepted, batchVars, alive>> BY DEF Call
  <1>2. accepted \subseteq Files /\ "none" \in Outcomes /\ "error" \in Outcomes
    BY DEF UploadInv, TypeOK, Outcomes
  <1>3. ASSUME NEW how \in {"none", "error"}, Finish({f}, how) PROVE UploadInv'
    BY <1>1, <1>2, <1>3, FinishStep
  <1>4. CASE Goto(f, "opening")
    <2>1. reply[f] # "running" /\ f \notin open BY <1>1, NotSending
    <2>2. QED BY <1>1, <1>2, <1>4, <2>1, GotoStep DEF Goto
  <1>5. QED BY <1>1, <1>3, <1>4 DEF Begin

LEMMA OpenInv == ASSUME UploadInv, NEW f \in Files, Open(f) PROVE UploadInv'
  <1>1. stage[f] = "opening" /\ UNCHANGED <<canceled, accepted, batchVars, alive>> BY DEF Open
  <1>2. accepted \subseteq Files /\ "error" \in Outcomes BY DEF UploadInv, TypeOK, Outcomes
  <1>3. reply[f] # "running" /\ f \notin open BY <1>1, NotSending
  <1>4. CASE Goto(f, "stopped") BY <1>1, <1>2, <1>3, <1>4, GotoStep DEF Goto
  <1>5. CASE Finish({f}, "error") BY <1>1, <1>2, <1>5, FinishStep
  <1>6. CASE stage' = Moved({f}, "slot") /\ open' = open \cup {f} /\ UNCHANGED <<finishes, result, reply>>
    BY <1>1, <1>2, <1>3, <1>6, GotoStep
  <1>7. QED BY <1>4, <1>5, <1>6 DEF Open

LEMMA SlotInv == ASSUME UploadInv, NEW f \in Files, NEW ok \in BOOLEAN, Slot(f, ok) PROVE UploadInv'
  <1>1. stage[f] = "slot" /\ UNCHANGED <<canceled, accepted, batchVars, alive>> BY DEF Slot
  <1>2. accepted \subseteq Files /\ "error" \in Outcomes BY DEF UploadInv, TypeOK, Outcomes
  <1>3. reply[f] # "running" BY <1>1, NotSending
  <1>4. ASSUME NEW to \in {"stopped", "putting"}, Goto(f, to) PROVE UploadInv'
    BY <1>1, <1>2, <1>3, <1>4, GotoStep DEF Goto
  <1>5. CASE Finish({f}, "error") BY <1>1, <1>2, <1>5, FinishStep
  <1>6. QED BY <1>4, <1>5 DEF Slot

LEMMA PutInv == ASSUME UploadInv, NEW f \in Files, Put(f) PROVE UploadInv'
  <1>1. stage[f] = "putting" /\ UNCHANGED <<canceled, accepted, batchVars, alive>> BY DEF Put
  <1>2. accepted \subseteq Files BY DEF UploadInv, TypeOK
  <1>3. reply[f] # "running" BY <1>1, NotSending
  <1>4. CASE Goto(f, "stopped") BY <1>1, <1>2, <1>3, <1>4, GotoStep DEF Goto
  <1>5. CASE /\ stage' = Moved({f}, "sending") /\ reply' = [reply EXCEPT ![f] = "running"]
             /\ UNCHANGED <<finishes, result, open>>
    BY <1>1, <1>2, <1>5, GotoStep
  <1>6. QED BY <1>4, <1>5 DEF Put

LEMMA ReplyInv == ASSUME UploadInv, NEW f \in Files, NEW ok \in BOOLEAN, Reply(f, ok) PROVE UploadInv'
  <1>1. /\ stage[f] = "sending" /\ UNCHANGED <<canceled, batchVars, alive>>
        /\ accepted' = IF ok THEN accepted \cup {f} ELSE accepted
    BY DEF Reply
  <1>2. /\ accepted' \subseteq Files /\ accepted \subseteq accepted'
        /\ "error" \in Outcomes /\ "url" \in Outcomes
    BY <1>1 DEF UploadInv, TypeOK, Outcomes
  <1>3. CASE f \in canceled
    <2>1. /\ stage' = Moved({f}, "stopped") /\ reply' = [reply EXCEPT ![f] = "ended"]
          /\ UNCHANGED <<finishes, result, open>>
      BY <1>3 DEF Reply
    <2>2. reply'[f] = "ended" BY <2>1 DEF UploadInv, TypeOK
    <2>3. QED BY <1>1, <1>2, <2>1, <2>2, GotoStep
  <1>4. CASE f \notin canceled /\ ok
    <2>1. Finish({f}, "url") /\ f \in accepted' BY <1>1, <1>4 DEF Reply
    <2>2. QED BY <1>1, <1>2, <2>1, FinishStep
  <1>5. CASE f \notin canceled /\ ~ok
    <2>1. Finish({f}, "error") BY <1>5 DEF Reply
    <2>2. QED BY <1>1, <1>2, <2>1, FinishStep
  <1>6. QED BY <1>3, <1>4, <1>5

\* The cancellation, the timer and the lost connection.
LEMMA EndInv ==
  ASSUME UploadInv, Lost \/ \E f \in Files : HandleCanceled(f) \/ Timeout(f)
  PROVE  UploadInv'
  <1>1. \E fs, how : fs \subseteq Running /\ how \in {"none", "error"} /\ Finish(fs, how)
    BY DEF Lost, HandleCanceled, Timeout
  <1>2. UNCHANGED <<canceled, accepted, batchVars, alive>> BY DEF Lost, HandleCanceled, Timeout
  <1>3. accepted \subseteq Files BY DEF UploadInv, TypeOK
  <1>4. QED BY <1>1, <1>2, <1>3, FinishStep DEF Running, Outcomes

-----------------------------------------------------------------------------
(* Steps of the batch                                                      *)

\* The batch is asked for, or canceled.
LEMMA BatchAskedInv == ASSUME UploadInv, AskBatch \/ CancelBatch PROVE UploadInv'
  <1>1. UNCHANGED <<stage, canceled, finishes, result, reply, open, accepted, started, heard,
                    results, batchFinishes, batchResult, alive>>
    BY DEF AskBatch, CancelBatch
  <1>2. \/ batch = "idle" /\ batch' = "posted" /\ batchCanceled' = batchCanceled
        \/ batch # "idle" /\ batch' = batch /\ batchCanceled' = TRUE
    BY DEF AskBatch, CancelBatch
  <1>3. TypeOK' BY <1>1, <1>2 DEF UploadInv, TypeOK, Members
  <1>4. FileInv' BY <1>1 DEF UploadInv, FileInv, SuccessIsReal
  <1>5. BatchInOrder' BY <1>1 DEF UploadInv, BatchInv, BatchInOrder
  <1>6. BatchInv' BY <1>1, <1>2, <1>5 DEF UploadInv, BatchInv
  <1>7. QED BY <1>3, <1>4, <1>6 DEF UploadInv

\* Until the batch is done it has no result.
LEMMA NoResultYet == ASSUME UploadInv, batch # "done" PROVE batchResult = <<>> /\ batchFinishes = 0
  BY DEF UploadInv, BatchInv

LEMMA BatchCallInv == ASSUME UploadInv, BatchCall PROVE UploadInv'
  <1>1. /\ batch = "posted"
        /\ UNCHANGED <<stage, canceled, finishes, result, reply, open, accepted, started, heard,
                       results, batchCanceled, alive>>
    BY DEF BatchCall
  <1>2. batchResult = <<>> /\ batchFinishes = 0 BY <1>1, NoResultYet
  <1>3. \/ batch' = "done" /\ batchFinishes' = 1 /\ batchResult' = <<>>
        \/ batch' = "looping" /\ batchFinishes' = 0 /\ batchResult' = <<>>
    BY <1>2 DEF BatchCall, FinishBatch
  <1>4. TypeOK'
    <2>1. batchResult' = batchResult BY <1>2, <1>3
    <2>2. QED BY <1>1, <1>3, <2>1 DEF UploadInv, TypeOK, Members
  <1>5. FileInv' BY <1>1 DEF UploadInv, FileInv, SuccessIsReal
  <1>6. started = 0 BY <1>1 DEF UploadInv, BatchInv
  <1>7. \A f \in Parts : stage[f] = "idle" BY <1>6 DEF UploadInv, BatchInv, Parts
  <1>8. BatchInOrder' BY <1>3 DEF BatchInOrder
  <1>9. BatchInv' BY <1>1, <1>3, <1>7, <1>8 DEF UploadInv, BatchInv
  <1>10. QED BY <1>4, <1>5, <1>9 DEF UploadInv

\* The loop starts the first file that is still idle.
LEMMA LoopInv == ASSUME UploadInv, Loop PROVE UploadInv'
  <1> DEFINE g == Batch[started + 1]
  <1>1. /\ batch = "looping" /\ started < Len(Batch) /\ started' = started + 1 /\ Begin(g)
        /\ UNCHANGED <<canceled, accepted, batch, heard, results, batchCanceled, batchFinishes,
                       batchResult, alive>>
    BY DEF Loop, Starting
  <1>2. started \in Nat /\ Len(Batch) \in Nat /\ started + 1 \in 1..Len(Batch)
    BY <1>1, UploadAssumption DEF UploadInv, TypeOK
  <1>3. g \in Parts /\ g \in Files /\ stage[g] = "idle"
    BY <1>2, Membership DEF UploadInv, BatchInv, Parts
  <1>4. FileTypes /\ BatchTypes /\ FileInv BY TypeParts DEF UploadInv
  <1>5. accepted \subseteq Files /\ "none" \in Outcomes /\ "error" \in Outcomes
    BY DEF UploadInv, TypeOK, Outcomes
  <1>6. /\ FileTypes' /\ FileInv' /\ stage'[g] # "posted"
        /\ \A f \in Files : f # g =>
             stage'[f] = stage[f] /\ result'[f] = result[f] /\ finishes'[f] = finishes[f]
    <2>1. ASSUME NEW how \in {"none", "error"}, Finish({g}, how)
          PROVE  /\ FileTypes' /\ FileInv'
                 /\ \A f \in Files : IF f \in {g} THEN stage'[f] = "done"
                                     ELSE stage'[f] = stage[f] /\ result'[f] = result[f] /\ finishes'[f] = finishes[f]
      <3>1. {g} \subseteq Files /\ \A f \in {g} : stage[f] # "done" BY <1>3
      <3>2. QED BY <1>1, <1>4, <1>5, <2>1, <3>1, FinishDone
    <2>2. CASE Goto(g, "opening")
      <3>1. reply[g] # "running" /\ g \notin open BY <1>3, NotSending
      <3>2. /\ FileTypes' /\ FileInv'
            /\ \A f \in Files : IF f = g THEN stage'[f] = "opening"
                                ELSE stage'[f] = stage[f] /\ result'[f] = result[f] /\ finishes'[f] = finishes[f]
        BY <1>1, <1>3, <1>4, <1>5, <2>2, <3>1, GotoDone DEF Goto
      <3>3. QED BY <1>3, <3>2
    <2>3. QED BY <1>1, <1>3, <2>1, <2>2 DEF Begin
  <1>7. batchResult = <<>> /\ batchFinishes = 0 BY <1>1, NoResultYet
  <1>8. BatchTypes'
    <2>1. Members \subseteq Members' BY <1>1, <1>2 DEF Members
    <2>2. started' \in 0..Len(Batch) BY <1>1, <1>2
    <2>3. QED BY <1>1, <1>4, <2>1, <2>2 DEF BatchTypes
  <1>9. \A i \in 1..Len(Batch) : i > started' => stage'[Batch[i]] = "idle"
    <2>1. SUFFICES ASSUME NEW i \in 1..Len(Batch), i > started' PROVE stage'[Batch[i]] = "idle" OBVIOUS
    <2>2. i > started /\ i # started + 1 BY <1>1, <1>2, <2>1
    <2>3. Batch[i] # g BY <1>2, <2>2, UploadAssumption
    <2>4. Batch[i] \in Files /\ stage[Batch[i]] = "idle"
      BY <2>2, Membership DEF UploadInv, BatchInv, Parts
    <2>5. QED BY <1>6, <2>3, <2>4
  <1>10. \A f \in Parts : stage'[f] # "posted" BY <1>6, Membership DEF UploadInv, BatchInv
  <1>11. heard \subseteq Files BY <1>2, Membership DEF UploadInv, TypeOK, Members, Parts
  <1>12. \A f \in heard' : stage'[f] = "done" /\ results'[f] = IF f \in canceled' THEN "error" ELSE result'[f]
    BY <1>1, <1>3, <1>6, <1>11 DEF UploadInv, BatchInv
  <1>13. BatchInOrder' BY <1>1, <1>7 DEF BatchInOrder
  <1>14. BatchInv' BY <1>1, <1>7, <1>9, <1>10, <1>12, <1>13 DEF UploadInv, BatchInv
  <1>15. QED BY <1>6, <1>8, <1>14, TypeParts DEF UploadInv, TypeOK, FileTypes, BatchTypes

\* Members of the batch that have not finished are the ones that may be canceled.
LEMMA UnfinishedOnly == ASSUME UploadInv PROVE
    /\ Members \subseteq Parts
    /\ Unfinished(Members) \subseteq Parts /\ Unfinished(Members) \subseteq Files
    /\ \A f \in Unfinished(Members) : stage[f] # "done"
  <1>1. Members \subseteq Parts /\ Members \subseteq Files
    <2>1. started \in 0..Len(Batch) BY DEF UploadInv, TypeOK
    <2>2. Len(Batch) \in Nat BY UploadAssumption
    <2>3. \A i \in 1..started : i \in 1..Len(Batch) BY <2>1, <2>2
    <2>4. Members \subseteq Parts BY <2>3, Zenon DEF Members, Parts
    <2>5. QED BY <2>4, Membership
  <1>2. QED BY <1>1 DEF Unfinished, UploadInv, FileInv

\* Files whose futures are canceled before they have ended.
LEMMA CanceledPartsKept ==
  ASSUME UploadInv, UNCHANGED <<stage, finishes, result, reply, open, accepted>>,
         NEW fs, fs \subseteq Unfinished(Members), canceled' = canceled \cup fs
  PROVE  Kept /\ FileTypes' /\ FileInv'
  <1>1. Kept
    <2>1. \A f \in Files : stage[f] = "done" => (f \in canceled' <=> f \in canceled) BY UnfinishedOnly
    <2>2. QED BY <2>1 DEF Kept, UploadInv, BatchInv
  <1>2. FileTypes' BY UnfinishedOnly DEF UploadInv, TypeOK, FileTypes
  <1>3. FileInv' BY DEF UploadInv, FileInv, SuccessIsReal
  <1>4. QED BY <1>1, <1>2, <1>3

LEMMA WatchInv == ASSUME UploadInv, Watch PROVE UploadInv'
  <1>1. /\ batch = "looping" /\ (started = Len(Batch) \/ batchCanceled)
        /\ canceled' = IF batchCanceled THEN canceled \cup Unfinished(Members) ELSE canceled
        /\ UNCHANGED <<stage, finishes, result, reply, open, accepted, started, heard, results,
                       batchCanceled, alive>>
    BY DEF Watch, Starting
  <1>2. batchResult = <<>> /\ batchFinishes = 0 BY <1>1, NoResultYet
  <1>3. \/ started = 0 /\ batch' = "done" /\ batchFinishes' = 1 /\ batchResult' = <<>>
        \/ batch' = "watching" /\ batchFinishes' = 0 /\ batchResult' = <<>>
    BY <1>2 DEF Watch, FinishBatch
  <1>4. \E fs : fs \subseteq Unfinished(Members) /\ canceled' = canceled \cup fs
    <2>1. CASE batchCanceled BY <1>1, <2>1
    <2>2. CASE ~batchCanceled
      <3>1. {} \subseteq Unfinished(Members) /\ canceled' = canceled \cup {} BY <1>1, <2>2
      <3>2. QED BY <3>1
    <2>3. QED BY <2>1, <2>2
  <1>5. Kept /\ FileTypes' /\ FileInv' BY <1>1, <1>4, CanceledPartsKept
  <1>6. BatchTypes'
    <2>1. batchResult' = batchResult BY <1>2, <1>3
    <2>2. QED BY <1>1, <1>3, <2>1 DEF UploadInv, TypeOK, BatchTypes, Members
  <1>7. canceled' \cap Parts # {} => batchCanceled BY <1>1 DEF UploadInv, BatchInv
  <1>8. started = 0 => \A f \in Parts : stage[f] = "idle" BY DEF UploadInv, BatchInv, Parts
  <1>9. heard \subseteq Files BY UnfinishedOnly, Membership DEF UploadInv, TypeOK
  <1>10. \A f \in heard : f \in canceled' <=> f \in canceled
    BY <1>5, <1>9 DEF Kept, UploadInv, BatchInv
  <1>11. BatchInOrder' BY <1>3 DEF BatchInOrder
  <1>12. BatchInv' BY <1>1, <1>3, <1>7, <1>8, <1>10, <1>11 DEF UploadInv, BatchInv
  <1>13. QED BY <1>5, <1>6, <1>12 DEF UploadInv, TypeOK, FileTypes, BatchTypes

LEMMA HandleBatchCanceledInv == ASSUME UploadInv, HandleBatchCanceled PROVE UploadInv'
  <1>1. /\ batchCanceled /\ canceled' = canceled \cup Unfinished(Members)
        /\ UNCHANGED <<stage, finishes, result, reply, open, accepted, batchVars, alive>>
    BY DEF HandleBatchCanceled
  <1>2. Kept /\ FileTypes' /\ FileInv' BY <1>1, CanceledPartsKept
  <1>3. BatchInv' /\ BatchTypes' BY <1>1, <1>2, BatchKept
  <1>4. QED BY <1>2, <1>3 DEF UploadInv, TypeOK, FileTypes, BatchTypes

\* The last file that is noted finishes the batch.
LEMMA HandleFinishedInv == ASSUME UploadInv, NEW g \in Files, HandleFinished(g) PROVE UploadInv'
  <1>1. /\ batch = "watching" /\ g \in Members /\ finishes[g] > 0
        /\ heard' = heard \cup {g} /\ results' = Note(g)
        /\ UNCHANGED <<stage, canceled, finishes, result, reply, open, accepted, started,
                       batchCanceled, alive>>
    BY DEF HandleFinished
  <1>2. stage[g] = "done" BY <1>1 DEF UploadInv, FileInv
  <1>3. batchResult = <<>> /\ batchFinishes = 0 BY <1>1, NoResultYet
  <1>4. /\ results' \in [Files -> Outcomes]
        /\ \A f \in Files : results'[f] = IF f # g THEN results[f]
                                          ELSE IF f \in canceled THEN "error" ELSE result[f]
    BY <1>1 DEF Note, UploadInv, TypeOK, Outcomes
  <1>5. heard' \subseteq Members /\ Members \subseteq Parts /\ Members \subseteq Files
    BY <1>1, UnfinishedOnly, Membership DEF UploadInv, TypeOK
  <1>6. \A f \in heard' : stage[f] = "done" /\ results'[f] = IF f \in canceled THEN "error" ELSE result[f]
    BY <1>1, <1>2, <1>4, <1>5 DEF UploadInv, BatchInv
  <1>7. FileInv' BY <1>1 DEF UploadInv, FileInv, SuccessIsReal
  <1>8. FileTypes' BY <1>1 DEF UploadInv, TypeOK, FileTypes
  <1>9. CASE heard' # Members
    <2>1. UNCHANGED <<batch, batchFinishes, batchResult>> BY <1>9 DEF HandleFinished
    <2>2. BatchTypes' BY <1>1, <1>4, <1>5, <2>1 DEF UploadInv, TypeOK, BatchTypes, Members
    <2>3. BatchInOrder' BY <1>3, <2>1 DEF BatchInOrder
    <2>4. BatchInv' BY <1>1, <1>6, <2>1, <2>3 DEF UploadInv, BatchInv
    <2>5. QED BY <1>7, <1>8, <2>2, <2>4 DEF UploadInv, TypeOK, FileTypes, BatchTypes
  <1>10. CASE heard' = Members
    <2> DEFINE list == [i \in 1..started |-> results'[Batch[i]]]
    <2>1. batch' = "done" /\ batchFinishes' = 1 /\ batchResult' = IF batchCanceled THEN <<>> ELSE list
      BY <1>3, <1>10 DEF HandleFinished, FinishBatch
    <2>2. started \in Nat /\ started \in 0..Len(Batch) /\ Len(Batch) \in Nat
      BY UploadAssumption DEF UploadInv, TypeOK
    <2>3. list \in Seq(Outcomes) /\ Len(list) = started
      <3>1. \A i \in 1..started : Batch[i] \in Files BY <1>5 DEF Members
      <3>2. \A i \in 1..started : results'[Batch[i]] \in Outcomes BY <1>4, <3>1
      <3>3. QED BY <2>2, <3>2
    <2>4. BatchTypes'
      <3>1. batchResult' \in Seq(Outcomes) BY <2>1, <2>3
      <3>2. Members' = Members BY <1>1 DEF Members
      <3>3. QED BY <1>1, <1>4, <1>5, <2>1, <3>1, <3>2 DEF UploadInv, TypeOK, BatchTypes
    <2>5. BatchInOrder'
      <3>1. SUFFICES ASSUME batchResult' # <<>>
                     PROVE  /\ Len(batchResult') = Len(Batch)
                            /\ \A i \in 1..Len(Batch) : finishes'[Batch[i]] = 1 /\ batchResult'[i] = result'[Batch[i]]
        BY DEF BatchInOrder
      <3>2. ~batchCanceled /\ batchResult' = list BY <2>1, <3>1
      <3>3. started = Len(Batch) /\ canceled \cap Parts = {} BY <1>1, <3>2 DEF UploadInv, BatchInv
      <3>4. ASSUME NEW i \in 1..Len(Batch) PROVE finishes[Batch[i]] = 1 /\ list[i] = result[Batch[i]]
        <4>1. Batch[i] \in Members /\ i \in 1..started BY <3>3 DEF Members
        <4>2. Batch[i] \in heard' /\ Batch[i] \in Files /\ Batch[i] \notin canceled
          BY <1>5, <1>10, <3>3, <4>1
        <4>3. stage[Batch[i]] = "done" /\ results'[Batch[i]] = result[Batch[i]] BY <1>6, <4>2
        <4>4. QED BY <4>1, <4>2, <4>3 DEF UploadInv, FileInv
      <3>5. QED BY <1>1, <2>3, <3>2, <3>3, <3>4
    <2>6. \A f \in Parts : stage[f] \in {"idle", "done"}
      <3>1. SUFFICES ASSUME NEW i \in 1..Len(Batch) PROVE stage[Batch[i]] \in {"idle", "done"} BY DEF Parts
      <3>2. CASE i > started BY <3>2 DEF UploadInv, BatchInv
      <3>3. CASE i <= started
        <4>1. Batch[i] \in Members BY <2>2, <3>3 DEF Members
        <4>2. QED BY <1>6, <1>10, <4>1
      <3>4. QED BY <2>2, <3>2, <3>3
    <2>7. BatchInv' BY <1>1, <1>6, <2>1, <2>5, <2>6 DEF UploadInv, BatchInv
    <2>8. QED BY <1>7, <1>8, <2>4, <2>7 DEF UploadInv, TypeOK, FileTypes, BatchTypes
  <1>11. QED BY <1>9, <1>10

-----------------------------------------------------------------------------
(* The end of the XmppManager                                              *)

\* Operations finish, posted calls are dropped, and the batch finishes.
LEMMA DestroyInv == ASSUME UploadInv, Destroy PROVE UploadInv'
  <1> DEFINE fs == Running \cup {f \in Files : stage[f] = "posted"}
  <1>1. /\ stage' = [f \in Files |-> IF f \in fs THEN "done" ELSE stage[f]]
        /\ finishes' = [f \in Files |-> finishes[f] + (IF f \in fs THEN 1 ELSE 0)]
        /\ reply' = [f \in Files |-> IF f \in fs /\ reply[f] = "running" THEN "ended" ELSE reply[f]]
        /\ open' = open \ fs /\ canceled' = canceled \cup fs /\ alive' = FALSE
        /\ UNCHANGED <<result, accepted, started, heard, results>>
    BY DEF Destroy, Moved
  <1>2. fs \subseteq Files /\ \A f \in Files : f \in fs <=> stage[f] \notin {"idle", "done"}
    BY DEF Running, UploadInv, TypeOK
  <1>3. FileTypes' BY <1>1, <1>2 DEF UploadInv, TypeOK, FileTypes
  <1>4. FileInv'
    <2>1. \A f \in Files : finishes'[f] = IF stage'[f] = "done" THEN 1 ELSE 0
      BY <1>1, <1>2 DEF UploadInv, TypeOK, FileInv
    <2>2. \A f \in Files : reply'[f] = "running" => stage'[f] = "sending"
      BY <1>1, <1>2 DEF UploadInv, TypeOK, FileInv
    <2>3. \A f \in open' : stage'[f] \in {"slot", "putting", "sending", "stopped"}
      BY <1>1, <1>2 DEF UploadInv, TypeOK, FileInv
    <2>4. SuccessIsReal' BY <1>1, <1>2 DEF UploadInv, TypeOK, FileInv, SuccessIsReal
    <2>5. QED BY <2>1, <2>2, <2>3, <2>4 DEF FileInv
  <1>5. Free BY DEF Destroy
  <1>6. \/ batch' = "done" /\ batchFinishes' = 1 /\ batchResult' = <<>> /\ batchCanceled' = TRUE
        \/ batch \in {"idle", "done"} /\ UNCHANGED <<batch, batchFinishes, batchResult, batchCanceled>>
    <2>1. CASE batch \in {"posted", "watching"}
      <3>1. batchFinishes = 0 BY <2>1, NoResultYet
      <3>2. QED BY <2>1, <3>1 DEF Destroy, FinishBatch
    <2>2. CASE batch \notin {"posted", "watching"}
      BY <1>5, <2>2 DEF Destroy, Free, UploadInv, TypeOK
    <2>3. QED BY <2>1, <2>2
  <1>7. BatchTypes'
    <2>1. <<>> \in Seq(Outcomes) OBVIOUS
    <2>2. batchResult' \in Seq(Outcomes) BY <1>6, <2>1 DEF UploadInv, TypeOK
    <2>3. Members' = Members BY <1>1 DEF Members
    <2>4. batch' \in {"idle", "done"} /\ batchFinishes' \in Nat BY <1>6 DEF UploadInv, TypeOK
    <2>5. batchCanceled' \in BOOLEAN BY <1>6, Zenon DEF UploadInv, TypeOK
    <2>6. QED BY <1>1, <2>2, <2>3, <2>4, <2>5 DEF UploadInv, TypeOK, BatchTypes
  <1>8. \A f \in Files : IF f \in fs THEN stage'[f] = "done" ELSE stage'[f] = stage[f] BY <1>1
  <1>9. \A f \in Files : stage[f] = "done" =>
          /\ stage'[f] = "done" /\ finishes'[f] = finishes[f] /\ (f \in canceled' <=> f \in canceled)
    BY <1>1, <1>2, <1>8 DEF UploadInv, TypeOK
  <1>10. batch \in {"idle", "done"} => fs \cap Parts = {}
    <2>1. batch = "idle" => \A f \in Parts : stage[f] = "idle" BY DEF UploadInv, BatchInv, Parts
    <2>2. batch = "done" => \A f \in Parts : stage[f] \in {"idle", "done"} BY DEF UploadInv, BatchInv
    <2>3. QED BY <1>2, <2>1, <2>2, Membership
  <1>11. \A i \in 1..Len(Batch) : i > started' => stage'[Batch[i]] = "idle"
    BY <1>1, <1>2, <1>8, Membership DEF UploadInv, BatchInv, Parts
  <1>12. \A f \in Parts : stage'[f] \in {"idle", "done"} BY <1>2, <1>8, Membership
  <1>13. \A f \in heard' : stage'[f] = "done" /\ results'[f] = IF f \in canceled' THEN "error" ELSE result'[f]
    BY <1>1, <1>9, UnfinishedOnly, Membership DEF UploadInv, TypeOK, BatchInv
  <1>14. BatchInOrder'
    <2>1. CASE batchResult' = <<>> BY <2>1 DEF BatchInOrder
    <2>2. CASE batchResult' # <<>>
      <3>1. batchResult' = batchResult BY <1>6, <2>2
      <3>2. /\ Len(batchResult) = Len(Batch)
            /\ \A i \in 1..Len(Batch) : finishes[Batch[i]] = 1 /\ batchResult[i] = result[Batch[i]]
        BY <2>2, <3>1 DEF UploadInv, BatchInv, BatchInOrder
      <3>3. \A i \in 1..Len(Batch) : Batch[i] \in Files /\ stage[Batch[i]] = "done"
        BY <3>2, Membership DEF UploadInv, FileInv, Parts
      <3>4. \A i \in 1..Len(Batch) : finishes'[Batch[i]] = 1 BY <1>9, <3>2, <3>3
      <3>5. QED BY <1>1, <3>1, <3>2, <3>4 DEF BatchInOrder
    <2>3. QED BY <2>1, <2>2
  <1>15. BatchInv'
    <2>1. canceled' \cap Parts # {} => batchCanceled' BY <1>1, <1>6, <1>10 DEF UploadInv, BatchInv
    <2>2. /\ batch' \in {"idle", "posted"} => started' = 0
          /\ batchFinishes' = IF batch' = "done" THEN 1 ELSE 0
          /\ batchResult' # <<>> => batch' = "done"
          /\ batch' = "watching" /\ ~batchCanceled' => started' = Len(Batch)
      BY <1>1, <1>6 DEF UploadInv, BatchInv
    <2>3. QED BY <1>11, <1>12, <1>13, <1>14, <2>1, <2>2 DEF BatchInv
  <1>16. QED BY <1>3, <1>4, <1>7, <1>15 DEF UploadInv, TypeOK, FileTypes, BatchTypes

-----------------------------------------------------------------------------
(* Theorems                                                                *)

LEMMA UploadInitial == Init => UploadInv
  <1> SUFFICES ASSUME Init PROVE UploadInv OBVIOUS
  <1> USE DEF Init
  <1>1. Len(Batch) \in Nat BY UploadAssumption
  <1>2. TypeOK
    <2>1. <<>> \in Seq(Outcomes) OBVIOUS
    <2>2. FileTypes BY DEF FileTypes, Outcomes
    <2>3. BatchTypes
      <3>1. batch \in {"idle", "posted", "looping", "watching", "done"} BY Zenon
      <3>2. started \in 0..Len(Batch) /\ batchFinishes \in Nat BY <1>1
      <3>3. heard \subseteq Members /\ batchCanceled \in BOOLEAN /\ alive \in BOOLEAN BY Zenon
      <3>4. results \in [Files -> Outcomes] BY DEF Outcomes
      <3>5. batchResult \in Seq(Outcomes) BY <2>1
      <3>6. QED BY <3>1, <3>2, <3>3, <3>4, <3>5 DEF BatchTypes
    <2>4. QED BY <2>2, <2>3, TypeParts
  <1>3. FileInv BY DEF FileInv, SuccessIsReal
  <1>4. BatchInv BY Membership DEF BatchInv, BatchInOrder, Parts
  <1>5. QED BY <1>2, <1>3, <1>4 DEF UploadInv

LEMMA UploadStep == UploadInv /\ [Next]_vars => UploadInv'
  <1> SUFFICES ASSUME UploadInv, [Next]_vars PROVE UploadInv' OBVIOUS
  <1>1. CASE OtherThread BY <1>1, BatchAskedInv, AskInv, CancelInv DEF OtherThread
  <1>2. CASE Server BY <1>2, SlotInv, ReplyInv DEF Server
  <1>3. CASE Prompt
    BY <1>3, BatchCallInv, LoopInv, WatchInv, HandleBatchCanceledInv, CallInv, OpenInv, PutInv, EndInv,
       HandleFinishedInv DEF Prompt
  <1>4. CASE Timers \/ Lost BY <1>4, EndInv DEF Timers
  <1>5. CASE Destroy BY <1>5, DestroyInv
  <1>6. CASE UNCHANGED vars
    <2>1. Kept BY <1>6 DEF vars, Kept, UploadInv, BatchInv
    <2>2. BatchInv' /\ BatchTypes' BY <1>6, <2>1, BatchKept DEF vars, UploadInv, BatchInv
    <2>3. FileTypes' /\ FileInv' BY <1>6 DEF vars, UploadInv, TypeOK, FileTypes, FileInv, SuccessIsReal
    <2>4. QED BY <2>2, <2>3 DEF UploadInv, TypeOK, FileTypes, BatchTypes
  <1>7. QED BY <1>1, <1>2, <1>3, <1>4, <1>5, <1>6 DEF Next

\* UploadInv is an inductive invariant of the uploads.
THEOREM UploadInductive == Spec => []UploadInv
  BY UploadInitial, UploadStep, PTL DEF Spec

\* Type correctness of the uploads.
THEOREM UploadTypeCorrect == Spec => []TypeOK
  <1>1. UploadInv => TypeOK BY DEF UploadInv
  <1>2. QED BY <1>1, UploadInductive, PTL

\* Whatever the order of answers, cancellations, timers and losses, no promise is
\* finished twice, and an operation that is over has finished its promise.
THEOREM AlwaysFinishedOnce == Spec => []FinishedOnce
  <1>1. UploadInv => FinishedOnce BY DEF UploadInv, FileInv, BatchInv, FinishedOnce
  <1>2. QED BY <1>1, UploadInductive, PTL

\* A finished future has neither a running transfer nor an open device behind it.
THEOREM TransportAlwaysStopped == Spec => []TransportStopped
  <1>1. UploadInv => TransportStopped BY DEF UploadInv, TypeOK, FileInv, TransportStopped
  <1>2. QED BY <1>1, UploadInductive, PTL

\* A URL in a future is that of a file the server has taken.
THEOREM SuccessAlwaysReal == Spec => []SuccessIsReal
  <1>1. UploadInv => SuccessIsReal BY DEF UploadInv, FileInv
  <1>2. QED BY <1>1, UploadInductive, PTL

\* A batch answers with the outcomes of its files in the order of the files.
THEOREM BatchAlwaysInOrder == Spec => []BatchInOrder
  <1>1. UploadInv => BatchInOrder BY DEF UploadInv, BatchInv
  <1>2. QED BY <1>1, UploadInductive, PTL

\* An upload ends once, with its transport, and says what happened, for any number
\* of single uploads and a batch of any length.
THEOREM UploadAlwaysSound == Spec => []UploadSound
  <1>1. TypeOK /\ FinishedOnce /\ TransportStopped /\ SuccessIsReal /\ BatchInOrder => UploadSound
    BY DEF UploadSound
  <1>2. QED BY <1>1, UploadTypeCorrect, AlwaysFinishedOnce, TransportAlwaysStopped,
               SuccessAlwaysReal, BatchAlwaysInOrder, PTL

-----------------------------------------------------------------------------
(* Downloads                                                               *)

\* The states of a request.
States == {"free", "active", "broken", "posted"}
\* The type of the requests and of the repository's two tables.
NetType ==
  [st : [Reqs -> States], path : [Reqs -> Paths \cup {None}], asked : [Reqs -> Urls \cup {None}],
   owner : [Reqs -> Msgs \cup {None}], message : [Msgs -> Reqs \cup {None}]]

\* The two tables mirror each other, and a transfer that runs is in them.
Mirror(n) ==
  /\ \A r \in Reqs : n.owner[r] # None => n.message[n.owner[r]] = r /\ n.st[r] # "free"
  /\ \A m \in Msgs : n.message[m] # None => n.owner[n.message[m]] = m
  /\ \A r \in Reqs : Transferring(n, r) => n.owner[r] # None

\* A destination belongs to one download, started or about to be reported.
OwnPaths(n) ==
  \A r, q \in Reqs : r # q /\ n.owner[r] # None /\ n.owner[q] # None /\ n.path[r] # None
                       => n.path[r] # n.path[q]

\* A download knows the URL it was asked for and, for a file, its destination.
Placed(n) ==
  \A r \in Reqs : n.owner[r] # None =>
    n.asked[r] \in Urls /\ (n.owner[r] \in FileMsgs => n.path[r] \in Paths)

\* What every operation on the requests keeps.
NetSound(n) == n \in NetType /\ Mirror(n) /\ OwnPaths(n) /\ Placed(n)

\* cleanupTask() changes the task only, not the tables.
LEMMA CleanupIs ==
  ASSUME NEW n \in NetType, NEW rs
  PROVE  /\ Cleanup(n, rs) \in NetType
         /\ Cleanup(n, rs).st = [r \in Reqs |-> IF r \in rs THEN "free" ELSE n.st[r]]
         /\ Cleanup(n, rs).path = [r \in Reqs |-> IF r \in rs THEN None ELSE n.path[r]]
         /\ Cleanup(n, rs).asked = [r \in Reqs |-> IF r \in rs THEN None ELSE n.asked[r]]
         /\ Cleanup(n, rs).owner = n.owner
         /\ Cleanup(n, rs).message = n.message
  BY DEF Cleanup, NetType, States

\* Canceling the downloads of some messages clears their entries and no others.
LEMMA CancelSound ==
  ASSUME NEW n, NetSound(n), NEW ms \in SUBSET Msgs
  PROVE  /\ NetSound(CancelDownloads(n, ms))
         /\ CancelDownloads(n, ms).message = [m \in Msgs |-> IF m \in ms THEN None ELSE n.message[m]]
<1> DEFINE rs == {n.message[m] : m \in ms} \cap Reqs
           msg == [m \in Msgs |-> IF m \in ms THEN None ELSE n.message[m]]
           own == [r \in Reqs |-> IF r \in rs THEN None ELSE n.owner[r]]
           k == [n EXCEPT !.message = msg, !.owner = own]
           over == {r \in rs : Transferring(n, r)}
           c == Cleanup(k, over)
<1>1. CancelDownloads(n, ms) = c
  BY DEF CancelDownloads, NetSound, NetType
<1>2. k \in NetType /\ k.st = n.st /\ k.path = n.path /\ k.asked = n.asked /\ k.owner = own /\ k.message = msg
  <2>1. n \in NetType  BY DEF NetSound
  <2>2. msg \in [Msgs -> Reqs \cup {None}] /\ own \in [Reqs -> Msgs \cup {None}]
    BY <2>1 DEF NetType
  <2> QED  BY <2>1, <2>2 DEF NetType
<1> HIDE DEF k
<1>3. /\ c \in NetType /\ c.owner = own /\ c.message = msg
      /\ c.st = [r \in Reqs |-> IF r \in over THEN "free" ELSE n.st[r]]
      /\ c.path = [r \in Reqs |-> IF r \in over THEN None ELSE n.path[r]]
      /\ c.asked = [r \in Reqs |-> IF r \in over THEN None ELSE n.asked[r]]
  <2> HIDE DEF own, msg, over
  <2> QED  BY <1>2, CleanupIs
<1> HIDE DEF c
<1>5. Mirror(c)
  <2>1. \A r \in Reqs : c.owner[r] # None => c.message[c.owner[r]] = r /\ c.st[r] # "free"
    <3> SUFFICES ASSUME NEW r \in Reqs, c.owner[r] # None
                 PROVE  c.message[c.owner[r]] = r /\ c.st[r] # "free"
      OBVIOUS
    <3>1. r \notin rs /\ c.owner[r] = n.owner[r] /\ n.owner[r] \in Msgs
      BY <1>3 DEF NetSound, NetType
    <3>2. n.message[n.owner[r]] = r /\ n.st[r] # "free"
      BY <3>1 DEF NetSound, Mirror
    <3>3. n.owner[r] \notin ms
      BY <3>1, <3>2
    <3> QED  BY <3>1, <3>2, <3>3, <1>3
  <2>2. \A m \in Msgs : c.message[m] # None => c.owner[c.message[m]] = m
    <3> SUFFICES ASSUME NEW m \in Msgs, c.message[m] # None
                 PROVE  c.owner[c.message[m]] = m
      OBVIOUS
    <3>1. m \notin ms /\ c.message[m] = n.message[m] /\ n.message[m] \in Reqs
      BY <1>3 DEF NetSound, NetType
    <3>2. n.owner[n.message[m]] = m
      BY <3>1 DEF NetSound, Mirror
    <3>3. n.message[m] \notin rs
      <4>1. \A l \in ms : n.message[l] = n.message[m] => l = m
        BY <3>1, <3>2 DEF NetSound, Mirror
      <4> QED  BY <4>1, <3>1
    <3> QED  BY <3>1, <3>2, <3>3, <1>3
  <2>3. \A r \in Reqs : Transferring(c, r) => c.owner[r] # None
    BY <1>3 DEF Transferring, NetSound, Mirror
  <2> QED  BY <2>1, <2>2, <2>3 DEF Mirror
<1>6. OwnPaths(c)
  BY <1>3 DEF OwnPaths, NetSound
<1>7. Placed(c)
  BY <1>3 DEF Placed, NetSound
<1> QED  BY <1>1, <1>3, <1>5, <1>6, <1>7 DEF NetSound

\* What Download() makes of the tables with request r.
Entered(n, r, s, m, u, p) ==
  [n EXCEPT !.st[r] = s, !.path[r] = p, !.asked[r] = u, !.owner[r] = m, !.message[m] = r]

\* A new download enters both tables under a request and a destination that are free.
LEMMA BeginSound ==
  ASSUME NEW n, NetSound(n), HasRoom(n),
         NEW m \in Msgs, n.message[m] = None, NEW u \in Urls,
         NEW p \in FreePaths(n) \cup {None}, m \in FileMsgs => p # None, NEW b \in Download(n, m, u, p)
  PROVE  /\ NetSound(b)
         /\ b.message[m] # None
         /\ \A l \in Msgs \ {m} : b.message[l] = n.message[l]
<1>1. PICK r \in Reqs, s \in {"active", "posted"} : n.st[r] = "free" /\ b = Entered(n, r, s, m, u, p)
  <2> DEFINE c == CHOOSE q \in Reqs : n.st[q] = "free"
  <2>1. c \in Reqs /\ n.st[c] = "free"
    BY DEF HasRoom
  <2>2. \E r \in {c}, s \in {"active", "posted"} : b = Entered(n, r, s, m, u, p)
    BY DEF Download, Entered
  <2> HIDE DEF c
  <2> QED  BY <2>1, <2>2
<1>2. n \in NetType /\ Mirror(n) /\ OwnPaths(n) /\ Placed(n) /\ p \in Paths \cup {None}
  BY DEF NetSound, FreePaths
<1>3. /\ b.st = [n.st EXCEPT ![r] = s] /\ b.path = [n.path EXCEPT ![r] = p]
      /\ b.asked = [n.asked EXCEPT ![r] = u]
      /\ b.owner = [n.owner EXCEPT ![r] = m] /\ b.message = [n.message EXCEPT ![m] = r]
      /\ b \in NetType
  BY <1>1, <1>2 DEF NetType, States, Entered
<1>4. n.owner[r] = None
  BY <1>1, <1>2 DEF Mirror
<1>5. m # None /\ r # None
  BY DownloadsAssumption
<1>6. /\ n.st \in [Reqs -> States] /\ n.asked \in [Reqs -> Urls \cup {None}] /\ n.path \in [Reqs -> Paths \cup {None}]
      /\ n.owner \in [Reqs -> Msgs \cup {None}] /\ n.message \in [Msgs -> Reqs \cup {None}]
  BY <1>2 DEF NetType
<1>7. Mirror(b)
  <2>1. \A q \in Reqs : b.owner[q] # None => b.message[b.owner[q]] = q /\ b.st[q] # "free"
    <3> SUFFICES ASSUME NEW q \in Reqs, b.owner[q] # None
                 PROVE  b.message[b.owner[q]] = q /\ b.st[q] # "free"
      OBVIOUS
    <3>1. CASE q = r  BY <3>1, <1>3, <1>6
    <3>2. CASE q # r
      <4>1. b.owner[q] = n.owner[q] /\ b.st[q] = n.st[q]  BY <3>2, <1>3, <1>6
      <4>2. n.message[n.owner[q]] = q /\ n.st[q] # "free" /\ n.owner[q] \in Msgs
        BY <4>1, <1>2, <1>6 DEF Mirror
      <4>3. n.owner[q] # m  BY <4>2, <1>5, DownloadsAssumption
      <4> QED  BY <4>1, <4>2, <4>3, <1>3, <1>6
    <3> QED  BY <3>1, <3>2
  <2>2. \A l \in Msgs : b.message[l] # None => b.owner[b.message[l]] = l
    <3> SUFFICES ASSUME NEW l \in Msgs, b.message[l] # None
                 PROVE  b.owner[b.message[l]] = l
      OBVIOUS
    <3>1. CASE l = m  BY <3>1, <1>3, <1>6
    <3>2. CASE l # m
      <4>1. b.message[l] = n.message[l] /\ n.message[l] \in Reqs  BY <3>2, <1>3, <1>6
      <4>2. n.owner[n.message[l]] = l  BY <4>1, <1>2 DEF Mirror
      <4>3. n.message[l] # r  BY <4>2, <1>4, DownloadsAssumption
      <4> QED  BY <4>1, <4>2, <4>3, <1>3, <1>6
    <3> QED  BY <3>1, <3>2
  <2>3. \A q \in Reqs : Transferring(b, q) => b.owner[q] # None
    BY <1>2, <1>3, <1>5, <1>6 DEF Transferring, Mirror
  <2> QED  BY <2>1, <2>2, <2>3 DEF Mirror
<1>8. OwnPaths(b)
  <2> SUFFICES ASSUME NEW q \in Reqs, NEW t \in Reqs, q # t, b.owner[q] # None, b.owner[t] # None,
                      b.path[q] # None
               PROVE  b.path[q] # b.path[t]
    BY DEF OwnPaths
  <2>1. CASE q # r /\ t # r  BY <2>1, <1>2, <1>3, <1>6 DEF OwnPaths
  <2>2. CASE q = r
    <3>1. b.path[q] = p /\ b.path[t] = n.path[t] /\ n.owner[t] # None  BY <2>2, <1>3, <1>6
    <3> QED  BY <3>1 DEF FreePaths
  <2>3. CASE t = r
    <3>1. b.path[t] = p /\ b.path[q] = n.path[q] /\ n.owner[q] # None  BY <2>3, <1>3, <1>6
    <3> QED  BY <3>1 DEF FreePaths
  <2> QED  BY <2>1, <2>2, <2>3
<1>9. Placed(b)
  BY <1>2, <1>3, <1>6 DEF Placed
<1> QED  BY <1>2, <1>3, <1>5, <1>6, <1>7, <1>8, <1>9 DEF NetSound

\* downloadFile() leaves other messages alone and starts nothing for a file.
LEMMA RequestSound ==
  ASSUME NEW n, NetSound(n), url \in [Msgs -> Urls],
         NEW m \in Msgs, NEW o \in Request(n, m)
  PROVE  /\ NetSound(o[1])
         /\ \A l \in Msgs \ {m} : o[1].message[l] = n.message[l]
         /\ m \in FileMsgs /\ n.message[m] = None => o[1].message[m] = None
<1>1. CASE o[1] = n
  BY <1>1
<1> DEFINE k == CancelDownload(n, m)
<1>2. NetSound(k) /\ k.message = [l \in Msgs |-> IF l \in {m} THEN None ELSE n.message[l]]
  BY CancelSound DEF CancelDownload
<1> HIDE DEF k
<1>3. CASE o[1] = k
  BY <1>2, <1>3
<1>4. CASE m \notin FileMsgs /\ HasRoom(k) /\ o[1] \in Download(k, m, url[m], None)
  <2> k.message[m] = None
    BY <1>2
  <2>1. NetSound(o[1]) /\ \A l \in Msgs \ {m} : o[1].message[l] = k.message[l]
    BY <1>2, <1>4, BeginSound
  <2> QED  BY <1>2, <1>4, <2>1
<1>5. o[1] = n \/ o[1] = k \/ (m \notin FileMsgs /\ HasRoom(k) /\ o[1] \in Download(k, m, url[m], None))
  <2> DEFINE early == url[m] = Bad
             same == n.message[m] # None /\ n.asked[n.message[m]] = url[m]
             F == {<<k, IF found THEN "completed" ELSE "dialog">> : found \in Stored(m)}
             V == {<<k, "completed">> : hit \in Exists(m) \cap {TRUE}} \cup {<<k, "failed">>} \cup
                  (IF HasRoom(k) THEN {<<b, "started">> : b \in Download(k, m, url[m], None)} ELSE {})
  <2>1. Request(n, m) = IF early THEN {<<n, "failed">>} ELSE IF same THEN {<<n, "none">>}
                        ELSE IF m \in FileMsgs THEN F ELSE V
    BY DEF Request, k
  <2>2. ASSUME o \in F PROVE o[1] = k
    BY <2>2
  <2>3. ASSUME o \in V PROVE o[1] = k \/ (HasRoom(k) /\ o[1] \in Download(k, m, url[m], None))
    <3>1. CASE HasRoom(k) /\ o \in {<<b, "started">> : b \in Download(k, m, url[m], None)}
      <4>1. PICK b \in Download(k, m, url[m], None) : o = <<b, "started">>
        BY <3>1
      <4> QED  BY <3>1, <4>1
    <3>2. CASE o = <<k, "completed">> \/ o = <<k, "failed">>
      BY <3>2
    <3> QED  BY <2>3, <3>1, <3>2
  <2>4. ASSUME o \in {<<n, "failed">>} \/ o \in {<<n, "none">>} PROVE o[1] = n
    BY <2>4
  <2> HIDE DEF early, same, F, V
  <2> QED  BY <2>1, <2>2, <2>3, <2>4
<1> QED  BY <1>1, <1>3, <1>4, <1>5

\* The end of a request removes its entries.
LEMMA FinishSound ==
  ASSUME NEW n, NetSound(n), NEW r \in Reqs
  PROVE  /\ NetSound(Cleanup(Take(n, r), {r}))
         /\ Cleanup(Take(n, r), {r}).message
              = [m \in Msgs |-> IF n.owner[r] = m THEN None ELSE n.message[m]]
<1> DEFINE own == [n.owner EXCEPT ![r] = None]
           msg == [m \in Msgs |-> IF n.owner[r] = m THEN None ELSE n.message[m]]
           k == Take(n, r)
           c == Cleanup(k, {r})
<1>1. n \in NetType /\ Mirror(n) /\ OwnPaths(n) /\ Placed(n)
  BY DEF NetSound
<1>2. own \in [Reqs -> Msgs \cup {None}] /\ msg \in [Msgs -> Reqs \cup {None}]
  BY <1>1 DEF NetType
<1>3. k \in NetType /\ k.st = n.st /\ k.path = n.path /\ k.asked = n.asked /\ k.owner = own /\ k.message = msg
  BY <1>1, <1>2 DEF NetType, Take
<1> HIDE DEF k
<1>4. /\ c \in NetType /\ c.owner = own /\ c.message = msg
      /\ c.st = [q \in Reqs |-> IF q \in {r} THEN "free" ELSE n.st[q]]
      /\ c.path = [q \in Reqs |-> IF q \in {r} THEN None ELSE n.path[q]]
      /\ c.asked = [q \in Reqs |-> IF q \in {r} THEN None ELSE n.asked[q]]
  <2> HIDE DEF own, msg
  <2> QED  BY <1>3, CleanupIs
<1> HIDE DEF c
<1>5. n.owner \in [Reqs -> Msgs \cup {None}] /\ n.message \in [Msgs -> Reqs \cup {None}]
  BY <1>1 DEF NetType
<1>6. Mirror(c)
  <2>1. \A q \in Reqs : c.owner[q] # None => c.message[c.owner[q]] = q /\ c.st[q] # "free"
    <3> SUFFICES ASSUME NEW q \in Reqs, c.owner[q] # None
                 PROVE  c.message[c.owner[q]] = q /\ c.st[q] # "free"
      OBVIOUS
    <3>1. q # r /\ c.owner[q] = n.owner[q] /\ n.owner[q] \in Msgs /\ c.st[q] = n.st[q]
      BY <1>4, <1>5
    <3>2. n.message[n.owner[q]] = q /\ n.st[q] # "free"
      BY <1>1, <3>1 DEF Mirror
    <3>3. n.owner[r] # n.owner[q]
      BY <1>1, <3>1, <3>2 DEF Mirror
    <3> QED  BY <3>1, <3>2, <3>3, <1>4
  <2>2. \A m \in Msgs : c.message[m] # None => c.owner[c.message[m]] = m
    <3> SUFFICES ASSUME NEW m \in Msgs, c.message[m] # None
                 PROVE  c.owner[c.message[m]] = m
      OBVIOUS
    <3>1. n.owner[r] # m /\ c.message[m] = n.message[m] /\ n.message[m] \in Reqs
      BY <1>4, <1>5
    <3>2. n.owner[n.message[m]] = m
      BY <1>1, <3>1 DEF Mirror
    <3> QED  BY <3>1, <3>2, <1>4, <1>5
  <2>3. \A q \in Reqs : Transferring(c, q) => c.owner[q] # None
    BY <1>1, <1>4, <1>5 DEF Transferring, Mirror
  <2> QED  BY <2>1, <2>2, <2>3 DEF Mirror
<1>7. OwnPaths(c)
  BY <1>1, <1>4, <1>5 DEF OwnPaths
<1>8. Placed(c)
  BY <1>1, <1>4, <1>5 DEF Placed
<1> QED  BY <1>4, <1>6, <1>7, <1>8 DEF NetSound, c, k

\* The rows of the message list show the table of the repository, and the save dialog is
\* open for a file that is not being downloaded.
FilesInv ==
  /\ url \in [Msgs -> Urls] /\ saved \subseteq Urls \X Paths
  /\ dialog \in [file : FileMsgs, url : Urls] \cup {None}
  /\ loading \subseteq FileMsgs /\ NetSound(net)
  /\ loading = {f \in FileMsgs : net.message[f] # None}
  /\ dialog # None => dialog.file \notin loading

\* The message whose download is awaited is the current one, asked for last or closed, and
\* the player holds nothing meanwhile; otherwise the player holds the current one.
VoiceInv ==
  /\ cached \subseteq Voices \X Urls /\ inPlay \in BOOLEAN
  /\ {pending, current, wanted, closed} \subseteq Voices \cup {None}
  /\ player \in [source : Voices \cup {None}, playing : BOOLEAN]
  /\ pending # None => /\ pending = current /\ pending \in {wanted, closed}
                       /\ player.source = None /\ ~player.playing
  /\ player.source # None => player.source = current
  /\ player.playing => player.source # None /\ player.source \in {wanted, closed}

\* The inductive invariant.
DownloadsInv == FilesInv /\ VoiceInv

\* A step that changes no entry of a file keeps the rows right.
LEMMA SameRows ==
  ASSUME FilesInv, NetSound(net'), \A f \in FileMsgs : net'.message[f] = net.message[f],
         UNCHANGED <<dialog, saved, loading>>, url' \in [Msgs -> Urls]
  PROVE  FilesInv'
  BY DEF FilesInv, NetSound, NetType

\* So does one that removes the entries and the rows of the same files.
LEMMA DropRows ==
  ASSUME FilesInv, NetSound(net'), NEW fs,
         \A f \in FileMsgs : net'.message[f] = IF f \in fs THEN None ELSE net.message[f],
         loading' = loading \ fs, dialog' = dialog,
         url' \in [Msgs -> Urls], saved' \subseteq Urls \X Paths
  PROVE  FilesInv'
  BY DEF FilesInv

\* Stopping the voice message that loads does not touch the files.
LEMMA PendingCanceled ==
  ASSUME FilesInv, pending \in Voices \cup {None}, NEW n,
         n = IF pending = None THEN net ELSE CancelDownload(net, pending)
  PROVE  NetSound(n) /\ \A f \in FileMsgs : n.message[f] = net.message[f]
<1>1. CASE pending = None
  BY <1>1 DEF FilesInv
<1>2. CASE pending # None
  <2>1. pending \in Msgs /\ pending \notin FileMsgs /\ FileMsgs \subseteq Msgs
    BY <1>2, DownloadsAssumption DEF Msgs
  <2>2. NetSound(n) /\ n.message = [m \in Msgs |-> IF m \in {pending} THEN None ELSE net.message[m]]
    BY <1>2, <2>1, CancelSound DEF FilesInv, CancelDownload
  <2> QED  BY <2>1, <2>2
<1> QED  BY <1>1, <1>2

\* Every step keeps the requests sound and the rows right.
LEMMA FilesStep ==
  ASSUME FilesInv, VoiceInv, [DownloadsNext]_downloadsVars
  PROVE  FilesInv'
<1> USE DEF files, voice
<1>0. /\ FileMsgs \subseteq Msgs /\ Voices \subseteq Msgs /\ FileMsgs \cap Voices = {}
      /\ url \in [Msgs -> Urls] /\ NetSound(net) /\ loading \subseteq FileMsgs
      /\ pending \in Voices \cup {None} /\ None \notin Msgs
  BY DownloadsAssumption DEF FilesInv, VoiceInv, Msgs
<1>1. ASSUME NEW f \in FileMsgs, DownloadFile(f) PROVE FilesInv'
  <2>1. PICK o \in Request(net, f) : net' = o[1] /\ dialog' = IF o[2] = "dialog" THEN [file |-> f, url |-> url[f]] ELSE None
    BY <1>1 DEF DownloadFile
  <2>2. f \notin loading /\ UNCHANGED <<url, saved, loading>>
    BY <1>1 DEF DownloadFile
  <2>3. net.message[f] = None
    BY <2>2 DEF FilesInv
  <2>4. NetSound(net') /\ \A l \in Msgs : net'.message[l] = net.message[l]
    BY <1>0, <2>1, <2>3, RequestSound
  <2> QED  BY <1>0, <2>1, <2>2, <2>4 DEF FilesInv
<1>2. ASSUME NEW f \in FileMsgs, CancelFileDownload(f) PROVE FilesInv'
  <2>1. NetSound(net') /\ net'.message = [l \in Msgs |-> IF l \in {f} THEN None ELSE net.message[l]]
    BY <1>0, <1>2, CancelSound DEF CancelFileDownload, CancelDownload
  <2>2. loading' = loading \ {f} /\ UNCHANGED <<url, dialog, saved>>
    BY <1>2 DEF CancelFileDownload
  <2> QED  BY <1>0, <2>1, <2>2, DropRows DEF FilesInv
<1>3. CASE Recreate
  <2>1. NetSound(net') /\ net'.message = [l \in Msgs |-> IF l \in loading THEN None ELSE net.message[l]]
    BY <1>0, <1>3, CancelSound DEF Recreate
  <2>2. loading' = loading \ loading /\ UNCHANGED <<url, dialog, saved>>
    BY <1>3 DEF Recreate
  <2> QED  BY <1>0, <2>1, <2>2, DropRows DEF FilesInv
<1>4. CASE ChooseFile
  <2>1. dialog' = None /\ UNCHANGED <<url, saved>> /\ dialog.file \in FileMsgs /\ dialog.url \in Urls
    BY <1>4 DEF ChooseFile, FilesInv
  <2>2. CASE UNCHANGED <<net, loading>>
    BY <2>1, <2>2 DEF FilesInv
  <2>3. CASE /\ HasRoom(net) /\ \E p \in FreePaths(net) : net' \in Download(net, dialog.file, dialog.url, p)
             /\ loading' = loading \cup {dialog.file}
    <3>1. net.message[dialog.file] = None
      BY <1>4, <2>1 DEF ChooseFile, FilesInv
    <3>2. /\ NetSound(net') /\ net'.message[dialog.file] # None
          /\ \A l \in Msgs \ {dialog.file} : net'.message[l] = net.message[l]
      <4>1. PICK p \in FreePaths(net) : net' \in Download(net, dialog.file, dialog.url, p)
        BY <2>3
      <4>2. p # None
        BY <4>1, DownloadsAssumption DEF FreePaths
      <4> QED  BY <1>0, <2>1, <2>3, <3>1, <4>1, <4>2, BeginSound
    <3> QED  BY <1>0, <2>1, <2>3, <3>2 DEF FilesInv
  <2> QED  BY <1>4, <2>2, <2>3 DEF ChooseFile
<1>5. ASSUME NEW m \in Msgs, NEW u \in Urls, MessageUpdated(m, u) PROVE FilesInv'
  <2>1. url' \in [Msgs -> Urls] /\ UNCHANGED <<net, dialog, saved, loading>>
    BY <1>0, <1>5 DEF MessageUpdated
  <2> QED  BY <1>0, <2>1, SameRows
<1>6. ASSUME NEW v \in Voices, PlayVoice(v) PROVE FilesInv'
  <2> DEFINE n == IF pending = None THEN net ELSE CancelDownload(net, pending)
  <2>1. NetSound(n) /\ \A f \in FileMsgs : n.message[f] = net.message[f]
    BY <1>0, PendingCanceled
  <2>2. net' = n \/ \E o \in Request(n, v) : net' = o[1]
    BY <1>6 DEF PlayVoice
  <2>3. UNCHANGED <<url, dialog, saved, loading>>
    BY <1>6 DEF PlayVoice
  <2> HIDE DEF n
  <2>4. v \in Msgs /\ v \notin FileMsgs
    BY <1>0
  <2>5. NetSound(net') /\ \A f \in FileMsgs : net'.message[f] = net.message[f]
    <3>1. CASE net' = n
      BY <2>1, <3>1
    <3>2. CASE \E o \in Request(n, v) : net' = o[1]
      <4>1. NetSound(net') /\ \A l \in Msgs \ {v} : net'.message[l] = n.message[l]
        BY <1>0, <2>1, <2>4, <3>2, RequestSound
      <4> QED  BY <1>0, <2>1, <2>4, <4>1
    <3> QED  BY <2>2, <3>1, <3>2
  <2> QED  BY <1>0, <2>3, <2>5, SameRows
<1>7. CASE StopVoicePlayback \/ ResetPlayback
  <2>1. net' = IF pending = None THEN net ELSE CancelDownload(net, pending)
    BY <1>7 DEF StopVoicePlayback, ResetPlayback, StopPending
  <2>2. NetSound(net') /\ \A f \in FileMsgs : net'.message[f] = net.message[f]
    BY <1>0, <2>1, PendingCanceled
  <2>3. UNCHANGED <<url, dialog, saved, loading>>
    BY <1>7 DEF StopVoicePlayback, ResetPlayback
  <2> QED  BY <1>0, <2>2, <2>3, SameRows
<1>8. ASSUME NEW r \in Reqs, WriteFails(r) PROVE FilesInv'
  <2>1. /\ net.st[r] = "active" /\ net' = [net EXCEPT !.st[r] = "broken"]
        /\ UNCHANGED <<url, dialog, saved, loading>>
    BY <1>8 DEF WriteFails
  <2>2. net \in NetType /\ Mirror(net) /\ OwnPaths(net) /\ Placed(net)
    BY <1>0 DEF NetSound
  <2>3. /\ net' \in NetType /\ net'.message = net.message /\ net'.owner = net.owner
        /\ net'.path = net.path /\ net'.asked = net.asked /\ net'.st = [net.st EXCEPT ![r] = "broken"]
    BY <2>1, <2>2 DEF NetType, States
  <2>4. Mirror(net') /\ OwnPaths(net') /\ Placed(net')
    BY <2>1, <2>2, <2>3 DEF Mirror, OwnPaths, Placed, Transferring, NetType
  <2> QED  BY <1>0, <2>1, <2>3, <2>4, SameRows DEF NetSound
<1>9. ASSUME NEW r \in Reqs, TransferEnds(r) PROVE FilesInv'
  <2>1. net' = Cleanup(Take(net, r), {r}) /\ UNCHANGED <<url, dialog>>
    BY <1>9 DEF TransferEnds, FinishFailed, FinishCompleted
  <2>2. NetSound(net') /\ net'.message = [m \in Msgs |-> IF net.owner[r] = m THEN None ELSE net.message[m]]
    BY <1>0, <2>1, FinishSound
  <2>3. loading' = loading \ {net.owner[r]}
    BY <1>9 DEF TransferEnds, FinishFailed, FinishCompleted, Failed, Completed
  <2>4. saved' \subseteq Urls \X Paths
    <3>1. CASE saved' = saved
      BY <3>1 DEF FilesInv
    <3>2. CASE saved' # saved
      <4>1. /\ net.owner[r] \in FileMsgs
            /\ saved' = {s \in saved : s[1] # net.asked[r]} \cup {<<net.asked[r], net.path[r]>>}
        BY <1>9, <3>2 DEF TransferEnds, FinishFailed, FinishCompleted, Failed, Completed
      <4>2. <<net.asked[r], net.path[r]>> \in Urls \X Paths
        BY <4>1, <1>0 DEF NetSound, Placed
      <4> QED  BY <4>1, <4>2 DEF FilesInv
    <3> QED  BY <3>1, <3>2
  <2>5. \A f \in FileMsgs : net'.message[f] = IF f \in {net.owner[r]} THEN None ELSE net.message[f]
    BY <1>0, <2>2
  <2> QED  BY <1>0, <2>1, <2>2, <2>3, <2>4, <2>5, DropRows
<1>10. ASSUME \/ \E v \in Voices : TogglePlayback(v)
              \/ PauseVoice \/ ResumeVoice \/ ClosePlayback \/ PlayerStopped
              \/ MediaStatusChanged \/ UNCHANGED downloadsVars
       PROVE  FilesInv'
  <2>1. UNCHANGED <<url, net, dialog, saved, loading>>
    BY <1>10 DEF TogglePlayback, PauseVoice, ResumeVoice, ClosePlayback, PlayerStopped,
                 MediaStatusChanged, downloadsVars
  <2> QED  BY <1>0, <2>1, SameRows
<1> QED  BY <1>1, <1>2, <1>3, <1>4, <1>5, <1>6, <1>7, <1>8, <1>9, <1>10 DEF DownloadsNext

\* Every step keeps the player to what was asked for.
LEMMA VoiceStep ==
  ASSUME FilesInv, VoiceInv, [DownloadsNext]_downloadsVars
  PROVE  VoiceInv'
<1> DEFINE Known == Voices \cup {None}
           Track(p, c, w, y) == /\ p # None => p = c /\ p \in w /\ y.source = None /\ ~y.playing
                                /\ y.source # None => y.source = c
                                /\ y.playing => y.source # None /\ y.source \in w
<1>0. /\ cached \subseteq Voices \X Urls /\ inPlay \in BOOLEAN
      /\ pending \in Known /\ current \in Known /\ wanted \in Known /\ closed \in Known
      /\ player \in [source : Known, playing : BOOLEAN]
      /\ Track(pending, current, {wanted, closed}, player)
      /\ None \notin Voices
  BY DownloadsAssumption DEF VoiceInv, Msgs
<1>a. Silent \in [source : Known, playing : BOOLEAN] /\ Silent.source = None /\ ~Silent.playing
  BY DEF Silent
<1>b. /\ Quiet \in [source : Known, playing : BOOLEAN] /\ ~Quiet.playing
      /\ Quiet.source = player.source
  BY <1>0 DEF Quiet
<1>c. \A v \in Voices : LET y == [source |-> v, playing |-> TRUE] IN
        y \in [source : Known, playing : BOOLEAN] /\ y.source = v
  OBVIOUS
<1> HIDE DEF Known
<1> SUFFICES /\ cached' \subseteq Voices \X Urls /\ inPlay' \in BOOLEAN
             /\ pending' \in Known /\ current' \in Known /\ wanted' \in Known /\ closed' \in Known
             /\ player' \in [source : Known, playing : BOOLEAN]
             /\ Track(pending', current', {wanted', closed'}, player')
  BY DEF VoiceInv, Known
<1>d. None \in Known /\ Voices \subseteq Known
  BY DEF Known
<1>1. ASSUME \/ \E f \in FileMsgs : DownloadFile(f) \/ CancelFileDownload(f)
             \/ \E m \in Msgs, u \in Urls : MessageUpdated(m, u)
             \/ \E r \in Reqs : WriteFails(r)
             \/ ChooseFile \/ UNCHANGED downloadsVars
      PROVE  UNCHANGED voice
  BY <1>1 DEF DownloadFile, CancelFileDownload, MessageUpdated, WriteFails, ChooseFile, downloadsVars, voice
<1>2. CASE UNCHANGED voice
  BY <1>0, <1>2 DEF voice
<1>3. CASE Recreate
  BY <1>0, <1>3, <1>a, <1>d DEF Recreate
<1>4. ASSUME NEW v \in Voices, PlayVoice(v)
      PROVE  /\ cached' \subseteq Voices \X Urls /\ inPlay' \in BOOLEAN
             /\ pending' \in Known /\ current' \in Known /\ wanted' \in Known /\ closed' \in Known
             /\ player' \in [source : Known, playing : BOOLEAN]
             /\ Track(pending', current', {wanted', closed'}, player')
  <2>1. current' = v /\ wanted' = v /\ closed' = None /\ inPlay' = TRUE /\ UNCHANGED cached
    BY <1>4 DEF PlayVoice
  <2>2. \/ pending' = None /\ player' = [source |-> v, playing |-> TRUE]
        \/ pending' \in {v, None} /\ player' = Silent
    BY <1>4 DEF PlayVoice
  <2>3. CASE pending' = None /\ player' = [source |-> v, playing |-> TRUE]
    BY <1>0, <1>c, <1>d, <2>1, <2>3
  <2>4. CASE pending' \in {v, None} /\ player' = Silent
    BY <1>0, <1>a, <1>d, <2>1, <2>4
  <2> QED  BY <2>2, <2>3, <2>4
<1>5. ASSUME NEW v \in Voices, TogglePlayback(v)
      PROVE  /\ cached' \subseteq Voices \X Urls /\ inPlay' \in BOOLEAN
             /\ pending' \in Known /\ current' \in Known /\ wanted' \in Known /\ closed' \in Known
             /\ player' \in [source : Known, playing : BOOLEAN]
             /\ Track(pending', current', {wanted', closed'}, player')
  <2>1. /\ v = current /\ pending = None /\ player.source # None
        /\ player' = [player EXCEPT !.playing = ~@] /\ inPlay' = TRUE
        /\ wanted' = v /\ closed' = None /\ UNCHANGED <<cached, pending, current>>
    BY <1>5 DEF TogglePlayback
  <2>2. player' \in [source : Known, playing : BOOLEAN] /\ player'.source = player.source
    BY <1>0, <2>1
  <2> QED  BY <1>0, <1>d, <2>1, <2>2
<1>6. CASE PauseVoice
  BY <1>0, <1>6, <1>b DEF PauseVoice
<1>7. CASE ResumeVoice
  <2>1. player' \in [source : Known, playing : BOOLEAN] /\ player'.source = player.source
    BY <1>0, <1>7 DEF ResumeVoice
  <2>2. player.source # None /\ wanted' = player.source /\ closed' = None /\ UNCHANGED <<cached, pending, current, inPlay>>
    BY <1>7 DEF ResumeVoice
  <2>3. pending = None
    BY <1>0, <1>a, <2>2
  <2> QED  BY <1>0, <2>1, <2>2, <2>3
<1>8. CASE StopVoicePlayback
  BY <1>0, <1>8, <1>b, <1>d DEF StopVoicePlayback, StopPending
<1>9. CASE ResetPlayback
  BY <1>0, <1>9, <1>a, <1>d DEF ResetPlayback, StopPending
<1>10. CASE ClosePlayback
  BY <1>0, <1>10, <1>b, <1>d DEF ClosePlayback
<1>11. CASE PlayerStopped
  BY <1>0, <1>11, <1>a, <1>b DEF PlayerStopped
<1>14. CASE MediaStatusChanged
  BY <1>0, <1>14 DEF MediaStatusChanged
<1>12. ASSUME NEW r \in Reqs, FinishFailed(r)
       PROVE  /\ cached' \subseteq Voices \X Urls /\ inPlay' \in BOOLEAN
              /\ pending' \in Known /\ current' \in Known /\ wanted' \in Known /\ closed' \in Known
              /\ player' \in [source : Known, playing : BOOLEAN]
              /\ Track(pending', current', {wanted', closed'}, player')
  BY <1>0, <1>12, <1>d DEF FinishFailed, Failed
<1>13. ASSUME NEW r \in Reqs, FinishCompleted(r)
       PROVE  /\ cached' \subseteq Voices \X Urls /\ inPlay' \in BOOLEAN
              /\ pending' \in Known /\ current' \in Known /\ wanted' \in Known /\ closed' \in Known
              /\ player' \in [source : Known, playing : BOOLEAN]
              /\ Track(pending', current', {wanted', closed'}, player')
  <2> DEFINE m == net.owner[r]
  <2>1. m \in Msgs /\ m # None /\ net.asked[r] \in Urls
    BY <1>13 DEF FinishCompleted, FilesInv, NetSound, Mirror, Placed, Transferring, NetType
  <2>2. Completed(m, net.path[r], net.asked[r]) /\ UNCHANGED <<current, inPlay, wanted, closed>>
    BY <1>13 DEF FinishCompleted
  <2> HIDE DEF m
  <2>3. cached' \subseteq Voices \X Urls
    <3>1. CASE m \in FileMsgs
      BY <1>0, <2>2, <3>1 DEF Completed
    <3>2. CASE m \notin FileMsgs
      <4>1. m \in Voices /\ cached' = cached \cup {<<m, net.asked[r]>>}
        BY <2>1, <2>2, <3>2 DEF Completed, SaveFile, Msgs
      <4> QED  BY <1>0, <2>1, <4>1
    <3> QED  BY <3>1, <3>2
  <2>4. CASE pending = m
    <3>1. pending' = None /\ player' = [source |-> m, playing |-> TRUE] /\ m \in Voices
      BY <1>0, <2>1, <2>2, <2>4 DEF Completed, Known
    <3>2. m = current /\ m \in {wanted, closed}
      BY <1>0, <2>1, <2>4
    <3> QED  BY <1>0, <1>c, <1>d, <2>2, <2>3, <3>1, <3>2
  <2>5. CASE pending # m
    BY <1>0, <2>2, <2>3, <2>5 DEF Completed
  <2> QED  BY <2>4, <2>5
<1> QED
  BY <1>1, <1>2, <1>3, <1>4, <1>5, <1>6, <1>7, <1>8, <1>9, <1>10, <1>11, <1>12, <1>13, <1>14 DEF DownloadsNext, TransferEnds

\* Nothing is requested at the start.
LEMMA DownloadsInitially ==
  ASSUME DownloadsInit
  PROVE  DownloadsInv
<1>1. net \in NetType
  BY DEF DownloadsInit, NetType, States
<1>2. /\ \A r \in Reqs : net.st[r] = "free" /\ net.path[r] = None /\ net.owner[r] = None
      /\ \A m \in Msgs : net.message[m] = None
  BY DEF DownloadsInit
<1>3. NetSound(net)
  BY <1>1, <1>2 DEF NetSound, Mirror, OwnPaths, Placed, Transferring
<1>4. FilesInv
  BY <1>2, <1>3 DEF DownloadsInit, FilesInv, Msgs
<1>5. VoiceInv
  BY DEF DownloadsInit, VoiceInv, Silent
<1> QED  BY <1>4, <1>5 DEF DownloadsInv

\* However clicks, the save dialog and the events of replies interleave, the tables, the
\* rows and the player stay consistent.
THEOREM DownloadsInductive == DownloadsSpec => []DownloadsInv
<1>1. DownloadsInit => DownloadsInv
  BY DownloadsInitially
<1>2. DownloadsInv /\ [DownloadsNext]_downloadsVars => DownloadsInv'
  BY FilesStep, VoiceStep DEF DownloadsInv
<1> QED  BY <1>1, <1>2, PTL DEF DownloadsSpec

\* The two tables of MediaRepositoryImpl mirror each other, each entry has a request that
\* will remove it, and a row shows a download exactly while there is one.
THEOREM RegistryAlwaysExact == DownloadsSpec => []RegistryExact
<1>1. DownloadsInv => RegistryExact
  BY DEF DownloadsInv, FilesInv, VoiceInv, NetSound, Mirror, NetType, States, RegistryExact, DownloadsTypeOK
<1> QED  BY <1>1, DownloadsInductive, PTL

\* No two transfers write one destination, though it is chosen in a dialog during which
\* other downloads go on.
THEOREM AlwaysOneWriter == DownloadsSpec => []OneWriter
<1>1. DownloadsInv => OneWriter
  BY DEF DownloadsInv, FilesInv, NetSound, Mirror, OwnPaths, OneWriter
<1> QED  BY <1>1, DownloadsInductive, PTL

\* What sounds is the voice message the user asked for last and has not stopped, or the one
\* whose bar was closed while it was being downloaded: the end of an older download never
\* starts playback.
THEOREM AlwaysAsked == DownloadsSpec => []NeverPlaysUnasked
<1>1. DownloadsInv => NeverPlaysUnasked
  BY DEF DownloadsInv, VoiceInv, NeverPlaysUnasked
<1> QED  BY <1>1, DownloadsInductive, PTL
===============================================================================
