----------------------------- MODULE MessageList -----------------------------
(***************************************************************************)
(* The list of messages of the conversation on the screen:                 *)
(* MessagingViewModel, the MessageUsecase between it and the repository,   *)
(* and the part of MessagingBody.qml that asks for older pages.            *)
(*                                                                         *)
(* Everything here runs on the GUI thread, one event at a time; what       *)
(* interleaves are the answers of fetches started earlier, messages that   *)
(* arrive, messages being sent and their uploads, and the user, who        *)
(* selects another conversation at any of these moments.                   *)
(*                                                                         *)
(* A row is a message that is new since the program started, or the token  *)
(* <<c, p>> for the older messages of the server's answer for page p of    *)
(* conversation c.  Pages are counted from the newest message: whatever    *)
(* the server stores moves the messages behind it towards later pages, so  *)
(* that which messages page p has depends on how many were stored when it  *)
(* was read, asOf.  New messages are fewer than fit on a page and are on   *)
(* page 1 once stored.  Dates, sections and local paths of the rows are    *)
(* left out.                                                               *)
(***************************************************************************)
EXTENDS Integers, Sequences, SequencesExt, FiniteSets

CONSTANTS
  Conversations,
  Incoming,     \* messages the other party sends
  Texts,        \* messages of the user without a file
  Files,        \* messages of the user with a file, which is uploaded first
  Conversation, \* [Incoming -> Conversations]
  Pages,        \* number of pages of a conversation at the start
  Room,         \* messages that still fit on the last of them
  MaxFetches,   \* bound: how often the user selects a conversation
  MaxMessages,  \* bound: how many messages are sent, by either party
  MaxRequests,  \* bound: how many fetches are under way at a time
  None

Own == Texts \cup Files
Messages == Incoming \cup Own
LastPage == Pages + 1

ASSUME ListAssumption ==
  /\ Conversation \in [Incoming -> Conversations]
  /\ None \notin Conversations
  /\ Pages \in Nat \ {0} /\ Room \in Nat /\ MaxFetches \in Nat /\ MaxMessages \in Nat /\ MaxRequests \in Nat
  /\ Incoming \cap Own = {} /\ Texts \cap Files = {}
  /\ Messages \cap (Conversations \X (1..LastPage)) = {}

VARIABLES
  active,     \* m_activeConversationId
  displayed,  \* m_displayedConversationId
  fetchId,    \* m_fetchRequestId
  loading,    \* m_loading
  rows,       \* m_message.messages
  page,       \* m_message.page
  total,      \* m_message.total_pages
  asOf,       \* how many messages were stored when a page shown was read
  uploads,    \* m_fileUploads, by message
  requests,   \* calls of MessageUsecase::execute() that have not finished
  pending,    \* paginationPending of the list view
  core,       \* what the send queue makes of a message of the user
  recipient,  \* the conversation a message of the user was sent to
  heard,      \* incoming messages that were delivered
  log,        \* per conversation, messages the server or the cache may know
  stored,     \* messages the server has
  count,      \* per conversation, how many of them
  \* What happened, for the properties:
  resumed,    \* the displayed conversation was fetched again while pending
  crossed     \* a first page came while a page was fetched that does not follow it

shown == <<active, displayed, fetchId, loading, rows, page, total, asOf>>
sending == <<uploads, core, recipient>>
world == <<heard, log, stored, count>>
listVars == <<shown, sending, world, requests, pending, resumed, crossed>>

Row(m) == [is |-> m, sending |-> FALSE]
Tokens == Conversations \X (1..LastPage)
Response(p, t, n, ms) == [page |-> p, total |-> t, asOf |-> n, rows |-> ms]
\* entity::MessageResponse{}
NoResponse == Response(0, 0, 0, <<>>)

ListInit ==
  /\ active = None /\ displayed = None /\ fetchId = 0 /\ loading = FALSE
  /\ rows = <<>> /\ page = 0 /\ total = 0 /\ asOf = [p \in 1..LastPage |-> 0]
  /\ uploads = [m \in Files |-> "absent"]
  /\ requests = {} /\ pending = FALSE
  /\ core = [m \in Own |-> "none"]
  /\ recipient = [m \in Own |-> None]
  /\ heard = {} /\ log = [c \in Conversations |-> <<>>] /\ stored = {}
  /\ count = [c \in Conversations |-> 0] /\ resumed = FALSE /\ crossed = FALSE

-----------------------------------------------------------------------------
(* Fetching                                                                *)

\* The elements of s that are in S, in order: a filter as a function, which can be
\* reasoned about.
Restricted(s, S) ==
  LET upto[k \in 0..Len(s)] ==
        IF k = 0 THEN <<>> ELSE IF s[k] \in S THEN Append(upto[k - 1], s[k]) ELSE upto[k - 1]
  IN  upto[Len(s)]

\* Of a conversation to which n messages were added.
TotalPages(n) == IF n > Room THEN LastPage ELSE Pages

\* Page 1 of c, read when n messages had been added, with those of them in S, sorted.
FirstPage(c, n, S) ==
  LET ms == <<<<c, 1>>>> \o Restricted(log[c], S)
  IN  Response(1, TotalPages(n), n, [i \in 1..Len(ms) |-> Row(ms[i])])
OldPage(c, p, n) == Response(p, TotalPages(n), n, <<Row(<<c, p>>)>>)

\* What persistMessage() has added to the cached page of c.
Cached(c) == {m \in ToSet(log[c]) : m \in heard \/ m \in Own}

\* execute(): `results' holds the answers the view model has yet to handle.
Request(c, p, results) ==
  [id |-> fetchId', conversation |-> c, page |-> p, results |-> results,
   made |-> results # <<>>, answered |-> FALSE, asOf |-> 0]

\* fetchMessage(): the user selects c.  A cached first page is an answer that
\* is there at once.  The batch of attachments of the conversation left is
\* canceled.
FetchMessage(c) ==
  /\ fetchId < MaxFetches /\ Cardinality(requests) < MaxRequests
  /\ fetchId' = fetchId + 1
  /\ core' = IF c = active THEN core
             ELSE [m \in Own |-> IF core[m] = "uploading" THEN "aborting" ELSE core[m]]
  /\ active' = c /\ loading' = TRUE
  /\ resumed' = (resumed \/ (pending /\ c = displayed))
  /\ \/ requests' = requests \cup {Request(c, 1, <<>>)}
     \/ \E n \in 0..count[c], S \in {Cached(c), ToSet(log[c])} :
          requests' = requests \cup {Request(c, 1, <<FirstPage(c, n, S)>>)}
  /\ UNCHANGED <<displayed, rows, page, total, asOf, uploads, recipient, world, pending, crossed>>

\* requestOlderMessages(): the list view asks at its top, once at a time.
CanRequestOlder == displayed # None /\ ~loading /\ ~pending

\* The user scrolls to the top: requestOlderMessages() and fetchNextMessage().
\* olderMessagesLoaded() ends the waiting of the list view.
FetchNextMessage ==
  /\ CanRequestOlder /\ Cardinality(requests) < MaxRequests
  /\ UNCHANGED fetchId
  /\ IF page < 1 \/ page >= total
     THEN pending' = FALSE /\ UNCHANGED <<requests, loading>>
     ELSE /\ pending' = TRUE /\ loading' = TRUE
          /\ requests' = requests \cup {Request(active, page + 1, <<>>)}
  /\ UNCHANGED <<active, displayed, rows, page, total, asOf, sending, world, resumed, crossed>>

\* The repository's future finishes with the server's page or, after a failure
\* and when the cached page is not older, without; a fetch without any answer
\* is given an empty one.
Answer(r) ==
  /\ r.page = 1 /\ ~r.answered
  /\ \E more \in {<<>>, <<FirstPage(r.conversation, count[r.conversation], stored)>>} :
       requests' = (requests \ {r}) \cup
         {[r EXCEPT !.answered = TRUE, !.made = TRUE,
                    !.results = @ \o IF more = <<>> /\ ~r.made THEN <<NoResponse>> ELSE more]}
  /\ UNCHANGED <<shown, sending, world, pending, resumed, crossed>>

\* The server reads an older page; its answer travels, or its fetch will have failed.
AnswerOlder(r) ==
  /\ r.page > 1 /\ ~r.answered
  /\ requests' = (requests \ {r}) \cup
       {[r EXCEPT !.answered = TRUE, !.made = TRUE, !.asOf = count[r.conversation]]}
  /\ UNCHANGED <<shown, sending, world, pending, resumed, crossed>>

\* The refresh of a displayed conversation: each incoming message is searched
\* from its own row on, then inserted, or moved there and replaced; what is
\* left behind the last one is removed.
Placed(rs, k, item) ==
  LET found == {i \in k..Len(rs) : rs[i].is = item.is}
  IN  IF found = {} THEN InsertAt(rs, k, item)
      ELSE InsertAt(RemoveAt(rs, CHOOSE i \in found : \A j \in found : i <= j), k, item)
\* Mutant: the rows behind the last incoming message are kept.
ReconciledUncut(rs, incoming) ==
  LET after[k \in 0..Len(incoming)] ==
        IF k = 0 THEN rs ELSE Placed(after[k - 1], k, incoming[k])
  IN  after[Len(incoming)]
Reconciled(rs, incoming) ==
  LET after[k \in 0..Len(incoming)] ==
        IF k = 0 THEN rs ELSE Placed(after[k - 1], k, incoming[k])
  IN  SubSeq(after[Len(incoming)], 1, Len(incoming))

OlderInFlight == {r \in requests : r.page > 1 /\ r.id = fetchId}

\* The fetch r is of the page behind the one of the response, and was not read before it.
Follows(r, response) == r.page = response.page + 1 /\ (r.answered => response.asOf <= r.asOf)

\* applyFetchedMessages(): in place when the conversation is displayed already,
\* otherwise as a reset, which initialMessagesLoaded() reports to the list view.
ApplyFetchedMessages(response) ==
  /\ page' = response.page /\ total' = response.total /\ loading' = FALSE
  /\ asOf' = [asOf EXCEPT ![1] = response.asOf]
  /\ crossed' = \E r \in OlderInFlight : ~Follows(r, response)
  /\ IF displayed = active
     THEN rows' = Reconciled(rows, response.rows) /\ UNCHANGED <<displayed, pending, resumed>>
     ELSE /\ rows' = response.rows /\ displayed' = active
          /\ pending' = FALSE /\ resumed' = FALSE
  /\ UNCHANGED <<active, fetchId>>

Forget(r) == requests' = (requests \ {r}) \cup {[r EXCEPT !.results = Tail(@)]}

\* Mutant: an answer is applied whatever was selected since.
FirstPageReadyUnchecked(r) ==
  /\ r.page = 1 /\ r.results # <<>>
  /\ Forget(r)
  /\ ApplyFetchedMessages(Head(r.results))
  /\ UNCHANGED <<sending, world>>

\* resultReadyAt() of fetchMessage(): the answer of a fetch that another one
\* has followed is dropped.
FirstPageReady(r) ==
  /\ r.page = 1 /\ r.results # <<>>
  /\ Forget(r)
  /\ IF r.id = fetchId THEN ApplyFetchedMessages(Head(r.results))
     ELSE UNCHANGED <<shown, pending, resumed, crossed>>
  /\ UNCHANGED <<sending, world>>

\* finished() of fetchMessage().
FetchFinished(r) ==
  /\ r.page = 1 /\ r.answered /\ r.results = <<>>
  /\ requests' = requests \ {r}
  /\ loading' = IF r.id = fetchId THEN FALSE ELSE loading
  /\ UNCHANGED <<active, displayed, fetchId, rows, page, total, asOf, sending, world,
                 pending, resumed, crossed>>

\* Mutant: after a failure the list stays in its loading state.
OlderPageReadyStillLoading(r, response) ==
  /\ r.page > 1 /\ r.answered
  /\ requests' = requests \ {r}
  /\ IF r.id # fetchId THEN UNCHANGED <<loading, rows, page, total, asOf, pending, resumed>>
     ELSE /\ pending' = FALSE /\ resumed' = FALSE
          /\ IF response.page < 1 THEN UNCHANGED <<rows, page, total, asOf, loading>>
             ELSE /\ rows' = response.rows \o rows /\ loading' = FALSE
                  /\ page' = response.page /\ total' = response.total
                  /\ asOf' = [asOf EXCEPT ![response.page] = response.asOf]
  /\ UNCHANGED <<active, displayed, fetchId, sending, world, crossed>>

\* The continuation of fetchNextMessage(): nothing at all for a fetch that has
\* been overtaken, nothing but the report for one that failed.
OlderPageReady(r, response) ==
  /\ r.page > 1 /\ r.answered
  /\ requests' = requests \ {r}
  /\ IF r.id # fetchId THEN UNCHANGED <<loading, rows, page, total, asOf, pending, resumed>>
     ELSE /\ loading' = FALSE /\ pending' = FALSE /\ resumed' = FALSE
          /\ IF response.page < 1 THEN UNCHANGED <<rows, page, total, asOf>>
             ELSE /\ rows' = response.rows \o rows
                  /\ page' = response.page /\ total' = response.total
                  /\ asOf' = [asOf EXCEPT ![response.page] = response.asOf]
  /\ UNCHANGED <<active, displayed, fetchId, sending, world, crossed>>

\* An older page arrives, or its fetch has failed.
OlderPage(r) ==
  \E response \in {NoResponse, OldPage(r.conversation, r.page, r.asOf)} : OlderPageReady(r, response)

-----------------------------------------------------------------------------
(* Messages that arrive, are sent and are deleted                          *)

\* A new message stays within the bound.
New(m) == Cardinality({k \in Messages : k \in heard \cup stored \/ (k \in Own /\ core[k] # "none")} \cup {m})
            <= MaxMessages

Known(c, m) ==
  log' = IF m \in ToSet(log[c]) THEN log ELSE [log EXCEPT ![c] = Append(@, m)]

InsertMessage(row) == rows' = Append(rows, row)

\* A message of the other party is delivered.
MessageReceived(m) ==
  /\ New(m) /\ m \notin heard /\ heard' = heard \cup {m}
  /\ Known(Conversation[m], m)
  /\ IF Conversation[m] = active THEN InsertMessage(Row(m)) ELSE UNCHANGED rows
  /\ UNCHANGED <<active, displayed, fetchId, loading, page, total, asOf, sending, stored, count,
                 requests, pending, resumed, crossed>>

ConversationOf(m) == IF m \in Incoming THEN Conversation[m] ELSE recipient[m]

\* The server stores a message: one of the other party at any time, one of the
\* user after it was sent.
Store(m) ==
  /\ New(m) /\ m \notin stored /\ stored' = stored \cup {m}
  /\ m \in Own => core[m] = "sent"
  /\ Known(ConversationOf(m), m)
  /\ count' = [count EXCEPT ![ConversationOf(m)] = @ + 1]
  /\ UNCHANGED <<shown, sending, heard, requests, pending, resumed, crossed>>

\* messageSent(), and for a file fileUploadStated(): a row for the message, and
\* an entry for its upload.
Send(m) ==
  /\ New(m) /\ core[m] = "none" /\ active # None
  /\ core' = [core EXCEPT ![m] = IF m \in Files THEN "uploading" ELSE "sending"]
  /\ recipient' = [recipient EXCEPT ![m] = active]
  /\ InsertMessage([is |-> m, sending |-> TRUE])
  /\ uploads' = IF m \in Files THEN [uploads EXCEPT ![m] = "uploading"] ELSE uploads
  /\ UNCHANGED <<active, displayed, fetchId, loading, page, total, asOf, world,
                 requests, pending, resumed, crossed>>

\* updateMessageSeningStatus(): the first row of the message.
Sending(m, value) ==
  LET at == {i \in 1..Len(rows) : rows[i].is = m}
  IN  rows' = IF at = {} THEN rows
              ELSE [rows EXCEPT ![CHOOSE i \in at : \A j \in at : i <= j].sending = value]

\* sendMessage() of XMPP has ended, and messageSendFinished() reports it.
SendFinished(m, how) ==
  /\ core[m] = "sending"
  /\ core' = [core EXCEPT ![m] = how]
  /\ Sending(m, FALSE)
  /\ IF how = "sent" THEN Known(recipient[m], m) ELSE UNCHANGED log
  /\ UNCHANGED <<active, displayed, fetchId, loading, page, total, asOf, uploads,
                 recipient, heard, stored, count, requests, pending, resumed, crossed>>

\* The user deletes the message in row i from the list.
DeleteMessage(i) ==
  /\ rows[i].is \in Messages
  /\ rows' = RemoveAt(rows, i)
  /\ UNCHANGED <<active, displayed, fetchId, loading, page, total, asOf, sending, world,
                 requests, pending, resumed, crossed>>

-----------------------------------------------------------------------------
(* Uploads                                                                 *)

\* setUploadProgress(): an entry that is missing or canceled stays as it is.
SetUploadProgress(m, uploading) ==
  uploads' = [uploads EXCEPT ![m] = IF @ \in {"absent", "canceled"} THEN @
                                    ELSE IF uploading THEN "uploading" ELSE "idle"]

\* removeCanceledUpload(): nothing is left of the message, and its row goes.
RemoveCanceledUpload(m) ==
  IF uploads[m] \in {"absent", "canceled"} THEN UNCHANGED <<uploads, rows>>
  ELSE /\ uploads' = [uploads EXCEPT ![m] = "canceled"]
       /\ rows' = LET at == {i \in 1..Len(rows) : rows[i].is = m}
                  IN  IF at = {} THEN rows
                      ELSE RemoveAt(rows, CHOOSE i \in at : \A j \in at : i <= j)

\* Uploads of which a progress signal may still come: the XMPP thread posts them
\* in order with the end of the upload, but cancelFileUpload() overtakes them.
Progressing(m) == core[m] \in {"uploading", "aborting", "canceled"}

\* Mutant: progress makes any upload look active.
UploadProgressUnguarded(m) ==
  /\ Progressing(m)
  /\ uploads' = [uploads EXCEPT ![m] = "uploading"]
  /\ UNCHANGED <<shown, core, recipient, world, requests, pending, resumed, crossed>>
UploadProgress(m) ==
  /\ Progressing(m)
  /\ \E done \in BOOLEAN : \* fileUploadFinish()
       IF done \/ uploads[m] = "uploading" THEN SetUploadProgress(m, ~done) ELSE UNCHANGED uploads
  /\ UNCHANGED <<shown, core, recipient, world, requests, pending, resumed, crossed>>

\* The upload has ended: the message is sent now, or fileUploadSettled() after a failure.
UploadEnds(m, how) ==
  /\ core[m] \in {"uploading", "aborting"}
  /\ core' = [core EXCEPT ![m] = how]
  /\ SetUploadProgress(m, FALSE)
  /\ UNCHANGED <<shown, recipient, world, requests, pending, resumed, crossed>>

\* cancelFileUpload() from the row of the message: the queue accepts it until
\* the message is committed.
CancelFileUpload(m) ==
  /\ uploads[m] = "uploading" /\ core[m] \in {"uploading", "aborting"}
  /\ \E i \in 1..Len(rows) : rows[i].is = m
  /\ core' = [core EXCEPT ![m] = "canceled"]
  /\ RemoveCanceledUpload(m)
  /\ UNCHANGED <<active, displayed, fetchId, loading, page, total, asOf, recipient,
                 world, requests, pending, resumed, crossed>>

\* The upload of a canceled batch ends: fileUploadSettled().
BatchUploadCanceled(m) ==
  /\ core[m] = "aborting"
  /\ core' = [core EXCEPT ![m] = "canceled"]
  /\ SetUploadProgress(m, FALSE)
  /\ UNCHANGED <<shown, recipient, world, requests, pending, resumed, crossed>>

-----------------------------------------------------------------------------
Answers == \E r \in requests : Answer(r) \/ AnswerOlder(r)
Handle ==
  \E r \in requests : FirstPageReady(r) \/ FetchFinished(r) \/ OlderPage(r)
User ==
  \/ \E c \in Conversations : FetchMessage(c)
  \/ FetchNextMessage
  \/ \E m \in Own : Send(m)
  \/ \E m \in Files : CancelFileUpload(m)
  \/ \E i \in 1..Len(rows) : DeleteMessage(i)
Others ==
  \/ \E m \in Incoming : MessageReceived(m)
  \/ \E m \in Messages : Store(m)
Queue ==
  \/ \E m \in Own : \E how \in {"sent", "failed"} : SendFinished(m, how)
  \/ \E m \in Files : \/ UploadProgress(m) \/ BatchUploadCanceled(m)
                      \/ \E how \in {"sending", "failed"} : UploadEnds(m, how)

ListNext == Answers \/ Handle \/ User \/ Others \/ Queue

ListSpec == ListInit /\ [][ListNext]_listVars

-----------------------------------------------------------------------------
(* Properties                                                              *)

Shown == {rows[i].is : i \in 1..Len(rows)}
At(m) == IF m \in Incoming THEN Conversation[m] ELSE IF m \in Own THEN recipient[m] ELSE m[1]

ListTypeOK ==
  /\ active \in Conversations \cup {None} /\ displayed \in Conversations \cup {None}
  /\ fetchId \in 0..MaxFetches /\ loading \in BOOLEAN
  /\ rows \in Seq([is : Tokens \cup Messages, sending : BOOLEAN])
  /\ page \in 0..LastPage /\ total \in {0, Pages, LastPage}
  /\ asOf \in [1..LastPage -> Nat] /\ count \in [Conversations -> Nat]
  /\ uploads \in [Files -> {"absent", "uploading", "idle", "canceled"}]
  /\ core \in [Own -> {"none", "uploading", "aborting", "sending", "sent", "failed", "canceled"}]
  /\ recipient \in [Own -> Conversations \cup {None}]
  /\ heard \subseteq Incoming /\ stored \subseteq Messages
  /\ log \in [Conversations -> Seq(Messages)]
  /\ pending \in BOOLEAN /\ resumed \in BOOLEAN /\ crossed \in BOOLEAN

\* Once the list has stopped loading it shows the conversation selected last, and
\* no message of another one, whatever answers were still on their way when it
\* was selected.
ShowsTheSelected ==
  /\ ListTypeOK
  /\ ~loading => displayed = active /\ \A m \in Shown : At(m) = active

\* The older messages shown are the answers for the pages 1 to m_message.page, each once
\* and in order, and the server read an older page no earlier than the one it follows.
\* Since stored messages only move others to later pages, scrolling up never skips a
\* message; the ones that moved in between are shown again.  Except when the first page
\* cuts the list while a page is fetched that does not follow it, or was read before it.
PagesWhole ==
  ~crossed =>
    LET Old == {i \in 1..Len(rows) : rows[i].is \notin Messages}
    IN  /\ {rows[i].is : i \in Old} = {displayed} \X (1..page)
        /\ \A i, j \in Old : i < j => rows[i].is[2] > rows[j].is[2]
        /\ \A p \in 1..page - 1 : asOf[p] <= asOf[p + 1]

\* Nothing waits for an answer that will not come.  The list is loading only while a
\* fetch whose answer counts is under way, and every such fetch ends (HttpRequests).
\* The list view waits for an older page only while one will be reported to it, or
\* another conversation is about to replace the list; except after the displayed
\* conversation was selected again meanwhile: then nobody ends the waiting.
WaitsAreAnswered ==
  /\ loading => \E r \in requests : r.id = fetchId
  /\ pending /\ ~resumed => OlderInFlight # {} \/ (loading /\ displayed # active)

\* The list and the send queue agree: no upload that ended is shown as running, a
\* message that was canceled is not shown once the list has loaded, and one that
\* was sent is not shown as being sent.
UploadsHonest ==
  /\ \A m \in Files : core[m] \in {"sent", "failed", "canceled"} => uploads[m] # "uploading"
  /\ \A m \in Files : core[m] = "canceled" /\ ~loading => m \notin Shown
  /\ \A i \in 1..Len(rows) : rows[i].is \in Own /\ core[rows[i].is] = "sent" => ~rows[i].sending
=============================================================================
