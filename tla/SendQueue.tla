------------------------------ MODULE SendQueue ------------------------------
(***************************************************************************)
(* Outgoing messages, from the request of the user to the XMPP stream:     *)
(* SendMessageUsecase::sendAttachments(), the queue of                     *)
(* MessageRepositoryImpl, UploadCancellation, and the two calls of         *)
(* XmppManager that the queue waits for.                                   *)
(*                                                                         *)
(* Two threads take part.  The GUI thread runs the use case and the        *)
(* repository, and handles one posted event at a time, in order; the XMPP  *)
(* thread runs fileUpload() and sendMessage().  A QFuture continuation     *)
(* with a context and a QFutureWatcher signal are both events posted to    *)
(* the GUI thread when the future finishes or is canceled.                 *)
(*                                                                         *)
(* A job is one message.  Its future is the promise of its queue entry.    *)
(***************************************************************************)
EXTENDS Integers, Sequences

CONSTANTS
  Jobs,        \* messages
  Uploads,     \* the ones with a file: attachments and voice messages
  Attachment,  \* [Uploads -> attachment.id], the key of m_uploadTasks
  Requests,    \* what the user asks for, each once
  JobsOf,      \* [Requests -> Seq(Jobs)], the messages of a request
  Batches,     \* the requests of sendAttachments(), with a cancellation
  MaxDrops,    \* bound: how often the connection is lost
  NoJob, NoRequest

Members(s) == {s[i] : i \in 1..Len(s)}
Watched(j) == \E r \in Batches : j \in Members(JobsOf[r])
Ids == {Attachment[j] : j \in Uploads}

ASSUME SendAssumption ==
  /\ Uploads \subseteq Jobs /\ Batches \subseteq Requests
  /\ JobsOf \in [Requests -> Seq(Jobs)]
  /\ NoJob \notin Jobs /\ NoRequest \notin Requests
  /\ MaxDrops \in Nat
  \* a message belongs to one request, once
  /\ \A r, s \in Requests : \A i \in 1..Len(JobsOf[r]), k \in 1..Len(JobsOf[s]) :
       JobsOf[r][i] = JobsOf[s][k] => r = s /\ i = k
  /\ \A r \in Batches : Members(JobsOf[r]) \subseteq Uploads

VARIABLES
  asked,      \* requests already made
  todo,       \* what a loop on the GUI thread has yet to enqueue or to cancel
  queue,      \* m_queue
  current,    \* the entry being processed; NoJob when m_processing is false
  phase,      \* where the current entry is
  outcome,    \* how the future the current entry waits for has finished
  child,      \* the UploadCancellation of each upload
  revoked,    \* jobs whose future is canceled
  result,     \* how the future of a job finished
  tasks,      \* keys of m_uploadTasks
  cancelable, \* the batch of m_attachmentCancellation
  aborted,    \* batches whose cancellation was canceled
  settled,    \* fileUploadSettled was emitted
  events,     \* posted to the GUI thread
  connected,  \* m_client->isConnected()
  drops,
  wire        \* passed to QXmppClient::send()

userVars == <<asked, todo, cancelable, aborted, settled>>
queueVars == <<queue, current, phase, outcome, result, tasks>>
linkVars == <<connected, drops>>
vars == <<userVars, queueVars, child, revoked, events, linkVars, wire>>

Event(kind, j) == [kind |-> kind, job |-> j]
Events ==
  [kind : {"uploaded", "sent", "finished", "canceled", "settled"}, job : Jobs] \cup
  [kind : {"connected", "next", "batchDone"}, job : {NoJob}]

Init ==
  /\ asked = {} /\ todo = <<>> /\ cancelable = NoRequest /\ aborted = {} /\ settled = {}
  /\ queue = <<>> /\ current = NoJob /\ phase = "idle" /\ outcome = "none"
  /\ child = [j \in Jobs |-> "open"] /\ revoked = {}
  /\ result = [j \in Jobs |-> "none"] /\ tasks = {}
  /\ events = <<>> /\ connected \in BOOLEAN /\ drops = 0 /\ wire = <<>>

-----------------------------------------------------------------------------
(* The queue                                                               *)

\* The future of an upload has a watcher, which hears that it finished.
Settle(j) == IF j \in Uploads THEN <<Event("settled", j)>> ELSE <<>>

\* The first n entries are the canceled ones at the front.
Skips(q, n) ==
  /\ \A i \in 1..n : child[q[i]] = "canceled"
  /\ n < Len(q) => child[q[n + 1]] # "canceled"

Keys(js) == {Attachment[j] : j \in js \cap Uploads}

\* upload.start(): a text message is handed to XMPP, a file is prepared (images
\* are compressed, voice messages are cached) and handed over for upload.
\* Preparing may fail, and start() may throw.
Started(j, ev, res, tk) ==
  \/ /\ current' = j /\ phase' = IF j \in Uploads THEN "uploadPosted" ELSE "sendPosted"
     /\ outcome' = "none"
     /\ events' = ev /\ result' = res /\ tasks' = tk
  \/ /\ j \in Uploads
     /\ current' = j /\ phase' = "finishing" /\ outcome' = "error"
     /\ events' = Append(ev, Event("finished", j)) /\ result' = res /\ tasks' = tk
  \/ /\ current' = NoJob /\ phase' = "idle" /\ outcome' = "none"
     /\ events' = Append(ev \o Settle(j), Event("next", NoJob))
     /\ result' = [res EXCEPT ![j] = IF j \in revoked THEN "canceled" ELSE "error"]
     /\ tasks' = tk \ Keys({j})

\* The queue without its first n entries, and what becomes of those: their
\* futures are finished and their watchers hear of it.
Rest(q, n) == SubSeq(q, n + 1, Len(q))
Front(q, n) == {q[i] : i \in 1..n}
\* Mutant: the promise of a skipped entry is not finished.
VoidedUnfinished(q, n, res) == res
Voided(q, n, res) == [j \in Jobs |-> IF j \in Front(q, n) THEN "canceled" ELSE res[j]]
SettleFront(q, n) == [i \in 1..n |-> Event("settled", q[i])]

Asleep(q, ev, res, tk) ==
  /\ queue' = q /\ current' = NoJob /\ phase' = "idle" /\ outcome' = "none"
  /\ events' = ev /\ result' = res /\ tasks' = tk

\* nextProcess() when m_processing is false: skip what was canceled, and start
\* the next entry if there is a connection.
NextProcess(q, ev, res, tk) ==
  \E n \in 0..Len(q) :
    /\ Skips(q, n)
    /\ IF Rest(q, n) # <<>> /\ connected
       THEN /\ queue' = Tail(Rest(q, n))
            /\ Started(Rest(q, n)[1], ev \o SettleFront(q, n), Voided(q, n, res), tk \ Keys(Front(q, n)))
       ELSE Asleep(Rest(q, n), ev \o SettleFront(q, n), Voided(q, n, res), tk \ Keys(Front(q, n)))

-----------------------------------------------------------------------------
(* The user                                                                *)

Todo(kind, js) == [i \in 1..Len(js) |-> [kind |-> kind, job |-> js[i]]]
Doing(kind) == todo # <<>> /\ todo[1].kind = kind

\* A message, a voice message or a batch of attachments.
Ask(r) ==
  /\ todo = <<>> /\ r \notin asked
  /\ asked' = asked \cup {r}
  /\ todo' = Todo("enqueue", JobsOf[r])
  /\ cancelable' = IF r \in Batches THEN r ELSE cancelable
  /\ UNCHANGED <<aborted, settled, queueVars, child, revoked, events, linkVars, wire>>

\* sendFiles() refuses an attachment that is still in m_uploadTasks, and a file
\* it cannot read: the future is finished at once.
Refuse ==
  /\ Doing("enqueue") /\ todo[1].job \in Uploads
  /\ todo' = Tail(todo)
  /\ result' = [result EXCEPT ![todo[1].job] = "error"]
  /\ events' = events \o Settle(todo[1].job)
  /\ UNCHANGED <<asked, cancelable, aborted, settled, queue, current, phase, outcome, tasks,
                 child, revoked, linkVars, wire>>

Enqueue ==
  /\ Doing("enqueue") /\ Keys({todo[1].job}) \cap tasks = {}
  /\ todo' = Tail(todo)
  /\ LET q == Append(queue, todo[1].job)
         tk == tasks \cup Keys({todo[1].job})
     IN  IF current # NoJob
         THEN queue' = q /\ tasks' = tk /\ UNCHANGED <<current, phase, outcome, result, events>>
         ELSE NextProcess(q, events, result, tk)
  /\ UNCHANGED <<asked, cancelable, aborted, settled, child, revoked, linkVars, wire>>

\* The future of j is canceled; the watcher of sendAttachments() hears of it.
Revoke(j, ev) ==
  /\ revoked' = revoked \cup {j}
  /\ events' = IF j \notin revoked /\ Watched(j) THEN Append(ev, Event("canceled", j)) ELSE ev

\* UploadCancellation::cancel() of the job: nothing once it is committed.
CancelChild(j, ev) ==
  IF child[j] = "open"
  THEN child' = [child EXCEPT ![j] = "canceled"] /\ Revoke(j, ev)
  ELSE UNCHANGED <<child, revoked>> /\ events' = ev

\* cancelFileUpload() of a queued or running upload.
CancelUpload(j) ==
  /\ todo = <<>> /\ j \in Uploads /\ (j = current \/ j \in Members(queue))
  /\ child[j] = "open"
  /\ CancelChild(j, events)
  /\ UNCHANGED <<userVars, queueVars, linkVars, wire>>

\* cancelAttachmentUpload() cancels the futures of the batch, one after the
\* other; the uploads are canceled when the watchers hear of it.
CancelBatch(r) ==
  /\ todo = <<>> /\ r = cancelable /\ r \in Batches \ aborted
  /\ aborted' = aborted \cup {r}
  /\ todo' = Todo("cancel", JobsOf[r])
  /\ UNCHANGED <<asked, cancelable, settled, queueVars, child, revoked, events, linkVars, wire>>

CancelFuture ==
  /\ Doing("cancel")
  /\ todo' = Tail(todo)
  /\ IF result[todo[1].job] = "none" THEN Revoke(todo[1].job, events)
     ELSE UNCHANGED <<revoked, events>>
  /\ UNCHANGED <<asked, cancelable, aborted, settled, queueVars, child, linkVars, wire>>

-----------------------------------------------------------------------------
(* Events of the GUI thread                                                *)

\* The GUI thread is not in the loop of sendAttachments(), and the first event
\* is of this kind.
Handling(kind) == todo = <<>> /\ events # <<>> /\ events[1].kind = kind

\* connectedChanged(), or the call queued after start() has thrown.
HandleNext ==
  /\ Handling("connected") \/ Handling("next")
  /\ IF current # NoJob
     THEN events' = Tail(events) /\ UNCHANGED queueVars
     ELSE NextProcess(queue, Tail(events), result, tasks)
  /\ UNCHANGED <<userVars, child, revoked, linkVars, wire>>

\* Mutant: the message is sent without tryCommit().
HandleUploadedUncommitted ==
  /\ Handling("uploaded")
  /\ IF outcome = "ok"
     THEN phase' = "sendPosted" /\ outcome' = "none" /\ events' = Tail(events)
     ELSE /\ phase' = "finishing" /\ UNCHANGED outcome
          /\ events' = Append(Tail(events), Event("finished", current))
  /\ UNCHANGED <<userVars, queue, current, result, tasks, child, revoked, linkVars, wire>>

\* The continuation of the upload: tryCommit(), and the message is handed to
\* XMPP, unless the upload failed or was canceled.
HandleUploaded ==
  /\ Handling("uploaded")
  /\ IF outcome = "ok" /\ child[current] # "canceled"
     THEN /\ child' = [child EXCEPT ![current] = "committed"]
          /\ phase' = "sendPosted" /\ outcome' = "none"
          /\ events' = Tail(events)
     ELSE /\ phase' = "finishing"
          /\ outcome' = IF outcome = "ok" THEN "canceled" ELSE outcome
          /\ events' = Append(Tail(events), Event("finished", current))
          /\ UNCHANGED child
  /\ UNCHANGED <<userVars, queue, current, result, tasks, revoked, linkVars, wire>>

\* The continuation of sendMessageNow().
HandleSent ==
  /\ Handling("sent")
  /\ phase' = "finishing"
  /\ events' = Append(Tail(events), Event("finished", current))
  /\ UNCHANGED <<userVars, queue, current, outcome, result, tasks, child, revoked, linkVars, wire>>

\* What the future of j reports: a canceled future takes no result.
Reported(j) == IF j \in revoked THEN "canceled" ELSE outcome

\* Mutant: the queue is not resumed.
HandleFinishedNoResume ==
  /\ Handling("finished")
  /\ result' = [result EXCEPT ![current] = Reported(current)]
  /\ events' = Tail(events) \o Settle(current)
  /\ tasks' = tasks \ Keys({current})
  /\ current' = NoJob /\ phase' = "idle" /\ outcome' = "none"
  /\ UNCHANGED <<userVars, queue, child, revoked, linkVars, wire>>

\* The watcher of the entry: its promise is finished, the queue goes on.
HandleFinished ==
  /\ Handling("finished")
  /\ NextProcess(queue, Tail(events) \o Settle(current),
                 [result EXCEPT ![current] = Reported(current)],
                 tasks \ Keys({current}))
  /\ UNCHANGED <<userVars, child, revoked, linkVars, wire>>

\* The watcher of sendAttachments() cancels the upload of a canceled future.
HandleCanceled ==
  /\ Handling("canceled")
  /\ CancelChild(events[1].job, Tail(events))
  /\ UNCHANGED <<userVars, queueVars, linkVars, wire>>

\* fileUploadSettled(); the last one of a batch finishes the batch, and the view
\* model forgets the cancellation it holds, whichever batch that is for.
HandleSettled ==
  /\ Handling("settled")
  /\ settled' = settled \cup {events[1].job}
  /\ events' = IF \E r \in Batches : /\ events[1].job \in Members(JobsOf[r])
                                    /\ Members(JobsOf[r]) \subseteq settled'
               THEN Append(Tail(events), Event("batchDone", NoJob))
               ELSE Tail(events)
  /\ UNCHANGED <<asked, todo, cancelable, aborted, queueVars, child, revoked, linkVars, wire>>

HandleBatchDone ==
  /\ Handling("batchDone")
  /\ cancelable' = NoRequest
  /\ events' = Tail(events)
  /\ UNCHANGED <<asked, todo, aborted, settled, queueVars, child, revoked, linkVars, wire>>

-----------------------------------------------------------------------------
(* The XMPP thread                                                         *)

\* The future the current entry waits for finishes; its continuation is posted.
Finish(kind, how) ==
  /\ phase' = kind /\ outcome' = how
  /\ events' = Append(events, Event(kind, current))

\* fileUpload() on the XMPP thread: a canceled upload never starts, and it is
\* refused when there is no connection or no upload service.
UploadCall ==
  /\ phase = "uploadPosted"
  /\ \/ child[current] = "canceled" /\ Finish("uploaded", "canceled")
     \/ child[current] # "canceled" /\ Finish("uploaded", "error")
     \/ /\ child[current] # "canceled" /\ connected
        /\ phase' = "uploading" /\ UNCHANGED <<outcome, events>>
  /\ UNCHANGED <<userVars, queue, current, result, tasks, child, revoked, linkVars, wire>>

\* The FileUploadOperation ends; a canceled future takes no result.
UploadEnds(how) ==
  /\ phase = "uploading"
  /\ Finish("uploaded", IF child[current] = "canceled" THEN "canceled" ELSE how)
  /\ UNCHANGED <<userVars, queue, current, result, tasks, child, revoked, linkVars, wire>>

\* sendMessage() on the XMPP thread.
SendCall ==
  /\ phase = "sendPosted"
  /\ IF connected
     THEN wire' = Append(wire, current) /\ phase' = "onWire" /\ UNCHANGED <<outcome, events>>
     ELSE Finish("sent", "error") /\ UNCHANGED wire
  /\ UNCHANGED <<userVars, queue, current, result, tasks, child, revoked, linkVars>>

SendEnds(how) ==
  /\ phase = "onWire"
  /\ Finish("sent", how)
  /\ UNCHANGED <<userVars, queue, current, result, tasks, child, revoked, linkVars, wire>>

Connect ==
  /\ ~connected /\ connected' = TRUE
  /\ events' = Append(events, Event("connected", NoJob))
  /\ UNCHANGED <<userVars, queueVars, child, revoked, drops, wire>>

\* A running upload fails with the connection.
Disconnect ==
  /\ connected /\ drops < MaxDrops
  /\ connected' = FALSE /\ drops' = drops + 1
  /\ IF phase = "uploading"
     THEN Finish("uploaded", IF child[current] = "canceled" THEN "canceled" ELSE "error")
     ELSE UNCHANGED <<phase, outcome, events>>
  /\ UNCHANGED <<userVars, queue, current, result, tasks, child, revoked, wire>>

User == \E r \in Requests : Ask(r) \/ CancelBatch(r)
Gui ==
  \/ Refuse \/ Enqueue \/ CancelFuture
  \/ HandleNext \/ HandleUploaded \/ HandleSent \/ HandleFinished
  \/ HandleCanceled \/ HandleSettled \/ HandleBatchDone
Xmpp ==
  \/ UploadCall \/ SendCall
  \/ \E how \in {"ok", "error"} : UploadEnds(how) \/ SendEnds(how)

Next == User \/ (\E j \in Uploads : CancelUpload(j)) \/ Gui \/ Xmpp \/ Connect \/ Disconnect

Spec == Init /\ [][Next]_vars

\* The event loops of both threads run, an upload ends after 120 s at the
\* latest, QXmpp finishes every send, and it reconnects by itself.
FairSpec == Spec /\ WF_vars(Gui) /\ WF_vars(Xmpp) /\ WF_vars(Connect)

-----------------------------------------------------------------------------
(* Properties                                                              *)

Outcomes == {"none", "ok", "error", "canceled"}

TypeOK ==
  /\ asked \subseteq Requests /\ todo \in Seq([kind : {"enqueue", "cancel"}, job : Jobs])
  /\ cancelable \in Requests \cup {NoRequest} /\ aborted \subseteq Batches /\ settled \subseteq Jobs
  /\ queue \in Seq(Jobs) /\ current \in Jobs \cup {NoJob}
  /\ phase \in {"idle", "uploadPosted", "uploading", "uploaded", "sendPosted",
                "onWire", "sent", "finishing"}
  /\ outcome \in Outcomes
  /\ child \in [Jobs -> {"open", "canceled", "committed"}]
  /\ revoked \subseteq Jobs /\ result \in [Jobs -> Outcomes] /\ tasks \subseteq Ids
  /\ events \in Seq(Events)
  /\ connected \in BOOLEAN /\ drops \in 0..MaxDrops
  /\ wire \in Seq(Jobs)

\* The queue never sleeps on work it could do: when nothing is processed although
\* an entry waits and there is a connection, an event that calls nextProcess() is
\* already posted.
NoLostWakeup ==
  current = NoJob /\ queue # <<>> /\ connected =>
    \E i \in 1..Len(events) : events[i].kind \in {"connected", "next"}

\* m_uploadTasks holds exactly the uploads that are queued or processed, so that
\* cancelFileUpload() finds each of them and an attachment can be sent again
\* afterwards.
TasksExact ==
  /\ tasks = Keys(Members(queue) \cup {current})
  /\ Keys({current}) \cap Keys(Members(queue)) = {}
  /\ \A i, k \in 1..Len(queue) : i # k => Keys({queue[i]}) \cap Keys({queue[k]}) = {}

\* A future that reports success belongs to a message that was sent, and a
\* canceled upload is never reported as anything but canceled.
ResultsTruthful ==
  \A j \in Jobs :
    /\ result[j] = "ok" => j \in Members(wire)
    /\ child[j] = "canceled" => result[j] \in {"none", "canceled"}

\* The bookkeeping of MessagingService is right whatever was canceled, lost or
\* reconnected: the queue is awake, the table of uploads is the queue's, and no
\* promise lies.
QueueSound == TypeOK /\ NoLostWakeup /\ TasksExact /\ ResultsTruthful

Waiting ==
  (IF phase \in {"uploadPosted", "uploading", "uploaded", "sendPosted"}
   THEN <<current>> ELSE <<>>) \o queue

Box == INSTANCE Outbox WITH
         line <- Waiting, sent <- wire,
         withdrawn <- {j \in Jobs : child[j] = "canceled"}

\* Messages reach XMPP in the order they were queued, each at most once, and
\* never after cancelFileUpload() has said that the upload is canceled.
ImplementsOutbox == Box!Spec

\* Every message of a request is sent or reported as failed or canceled, and
\* every batch finishes.
EverythingSettles ==
  \A r \in Requests :
    r \in asked ~> /\ \A j \in Members(JobsOf[r]) : result[j] # "none"
                   /\ Members(JobsOf[r]) \cap Uploads \subseteq settled
=============================================================================
