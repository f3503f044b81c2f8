---------------------------- MODULE MessageHistory ----------------------------
(***************************************************************************)
(* The cached history of one conversation: MessageHistoryCache and the     *)
(* first page of MessageRepositoryImpl::fetchMessageById().                *)
(*                                                                         *)
(* The cache is two records: the last page the server sent, and the live   *)
(* messages it has not acknowledged.  Messages are received and sent on    *)
(* the GUI thread; the answers of the server are handled on a thread pool, *)
(* in any order.  Every read of a record may fail, and is then an empty    *)
(* list; every write may fail, and then changes nothing.                   *)
(* A page and the live messages are sets here, with the one message that   *)
(* the order matters for: the last one, as a set that is empty for an      *)
(* empty page.  A live message has no sent_at.                             *)
(***************************************************************************)
EXTENDS Integers, FiniteSets

CONSTANTS
  Msgs,      \* messages of the conversation
  Requests,  \* fetches that may be under way at the same time
  Limit      \* messages on a page

ASSUME HistoryAssumption == IsFiniteSet(Msgs) /\ Limit \in Nat \ {0}

VARIABLES
  sentAt,  \* the server's time of each message, 0 before the server has it
  cachedPage, \* root "1" of the file
  pageLast,   \* the last message of that page
  live,    \* root "pending-messages" of the file
  req,     \* where each fetch is
  cache,   \* the messages a fetch found in the cache
  cacheLast,  \* the last of them, {} if that is a live message
  answer,     \* what the server answered
  answerLast, \* the last message of the answer
  results, \* what the future of a fetch holds
  saved,   \* messages that were put into the cache as live messages
  acked,   \* messages on a page that was written
  forgotten, \* live messages that were overwritten after a read had failed
  broken,    \* the file can no longer be opened
  alone    \* no two fetches have been under way at the same time

\* The file, with what ought to be in it.
file == <<cachedPage, pageLast, live, saved, acked, forgotten, broken>>

vars == <<sentAt, file, req, cache, cacheLast, answer, answerLast, results, alone>>

OnServer == {m \in Msgs : sentAt[m] > 0}

Init ==
  /\ sentAt = [m \in Msgs |-> 0] /\ cachedPage = {} /\ pageLast = {} /\ live = {}
  /\ req = [r \in Requests |-> "idle"] /\ cache = [r \in Requests |-> {}]
  /\ cacheLast = [r \in Requests |-> {}] /\ answer = [r \in Requests |-> {}]
  /\ answerLast = [r \in Requests |-> {}] /\ results = [r \in Requests |-> {}]
  /\ saved = {} /\ acked = {} /\ forgotten = {} /\ broken = FALSE /\ alone = TRUE

\* MessageHistoryCache::readSnapshot() of a record: what it holds, or nothing when the
\* file or the record cannot be read.
ReadSnapshot(record) == IF broken THEN {{}} ELSE {record, {}}

\* The last message of a list: whichever the server put last, or toDomain() after it
\* has put the attachments of a batch in order.
Lasts(ms) == IF ms = {} THEN {{}} ELSE {{m} : m \in ms}

\* The first page: the newest messages.
NewestPage == {m \in OnServer : Cardinality({k \in OnServer : sentAt[k] > sentAt[m]}) < Limit}

-----------------------------------------------------------------------------
(* Messages                                                                *)

\* MessageHistoryCache::saveMessage(): the live messages that were read and the new one
\* replace the record.
SaveMessage(m) == \E read \in ReadSnapshot(live) :
  /\ live' = read \cup {m} /\ saved' = saved \cup {m}
  /\ forgotten' = (forgotten \cup (live \ read)) \ {m}

\* A message is received, perhaps again, or was sent; the write may fail.
Persist(m) ==
  /\ \/ ~broken /\ SaveMessage(m)
     \/ UNCHANGED <<live, saved, forgotten>>
  /\ UNCHANGED <<sentAt, cachedPage, pageLast, acked, broken, req, cache, cacheLast, answer, answerLast,
                 results, alone>>

\* The server stores a message, before or after it is received here.
ServerStores(m) ==
  /\ sentAt[m] = 0 /\ sentAt' = [sentAt EXCEPT ![m] = Cardinality(OnServer) + 1]
  /\ UNCHANGED <<file, req, cache, cacheLast, answer, answerLast, results, alone>>

-----------------------------------------------------------------------------
(* Fetching the first page                                                 *)

\* The last message of a cached page followed by the live messages it lacks: one of
\* those, unless a batch that spans both puts one of the page there.
CacheLasts(page, pending) ==
  IF pending \subseteq page THEN {IF page = {} THEN {} ELSE pageLast} ELSE {{}} \cup {{m} : m \in page}

\* What MessageHistoryCache::read() finds is the first result.
Fetch(r) ==
  /\ req[r] \in {"idle", "done"} /\ req' = [req EXCEPT ![r] = "sent"]
  /\ \E page \in ReadSnapshot(cachedPage), pending \in ReadSnapshot(live) :
       /\ cache' = [cache EXCEPT ![r] = page \cup pending]
       /\ \E l \in CacheLasts(page, pending) : cacheLast' = [cacheLast EXCEPT ![r] = l]
       /\ results' = [results EXCEPT ![r] = IF page \cup pending = {} THEN {} ELSE {"cache"}]
  /\ alone' = (alone /\ \A q \in Requests : req[q] \in {"idle", "done"})
  /\ UNCHANGED <<sentAt, file, answer, answerLast>>

\* The server reads the page; its answer travels.
Serve(r) ==
  /\ req[r] = "sent" /\ req' = [req EXCEPT ![r] = "answered"]
  /\ answer' = [answer EXCEPT ![r] = NewestPage]
  /\ \E l \in Lasts(NewestPage) : answerLast' = [answerLast EXCEPT ![r] = l]
  /\ UNCHANGED <<sentAt, file, cache, cacheLast, results, alone>>

\* The promise is finished, and the closure of the fetch ends with what it holds.
Finish(r) ==
  /\ req' = [req EXCEPT ![r] = "done"] /\ cache' = [cache EXCEPT ![r] = {}]
  /\ cacheLast' = [cacheLast EXCEPT ![r] = {}] /\ answer' = [answer EXCEPT ![r] = {}]
  /\ answerLast' = [answerLast EXCEPT ![r] = {}]

\* The request fails for good.
Fail(r) == req[r] = "sent" /\ Finish(r) /\ UNCHANGED <<sentAt, file, results, alone>>

\* The answer cannot be parsed, or is of another page.
Discard(r) == req[r] = "answered" /\ Finish(r) /\ UNCHANGED <<sentAt, file, results, alone>>

\* Mutant: a cached page is always good enough.
ShouldUpdateNever(r) == cache[r] = {}

\* The last message of the answer is newer than the last one cached; a live message,
\* which has no sent_at, is older than every other.
ShouldUpdate(r) ==
  cache[r] = {} \/ \E a \in answerLast[r] : \A m \in cacheLast[r] : sentAt[a] > sentAt[m]

\* Mutant: writing a page drops the live messages.
SavePageAlone(ms, l) ==
  \/ UNCHANGED <<cachedPage, pageLast, live, acked>>
  \/ ~broken /\ cachedPage' = ms /\ pageLast' = l /\ acked' = acked \cup ms /\ live' = {}

\* Mutant: messages that some earlier page held are dropped.
SavePageOnceAcked(ms, l) ==
  \/ UNCHANGED <<cachedPage, pageLast, live, acked>>
  \/ ~broken /\ cachedPage' = ms /\ pageLast' = l /\ acked' = acked \cup ms /\ live' = live \ acked'

\* MessageCache::saveSnapshot() of a record: it is replaced, or the write fails.
Snapshot(old, new) == {old, new}

\* MessageHistoryCache::savePage(): both writes under one lock.  The page may not be
\* written; the live messages may not be read, or not be written, or the program ends
\* in between.
SavePage(ms, l) ==
  \/ UNCHANGED <<cachedPage, pageLast, live, acked>>
  \/ /\ ~broken /\ cachedPage' = ms /\ pageLast' = l /\ acked' = acked \cup ms
     /\ live' \in Snapshot(live, live \ ms)

\* The answer: nothing, nothing new, or a page that is shown and cached.
HandleAnswer(r) ==
  /\ req[r] = "answered" /\ Finish(r)
  /\ IF answer[r] = {}
     THEN /\ results' = [results EXCEPT ![r] = IF cache[r] = {} THEN {"empty"} ELSE @]
          /\ UNCHANGED <<cachedPage, pageLast, live, acked>>
     ELSE IF ShouldUpdate(r)
          THEN results' = [results EXCEPT ![r] = @ \cup {"server"}] /\ SavePage(answer[r], answerLast[r])
          ELSE UNCHANGED <<cachedPage, pageLast, live, acked, results>>
  /\ UNCHANGED <<sentAt, saved, forgotten, broken, alone>>

\* The program ends and is started again.  The file is what is left; if it ended while
\* the file grew, it can no longer be opened.
Restart ==
  /\ req' = [r \in Requests |-> "idle"] /\ cache' = [r \in Requests |-> {}]
  /\ cacheLast' = [r \in Requests |-> {}] /\ answer' = [r \in Requests |-> {}]
  /\ answerLast' = [r \in Requests |-> {}] /\ results' = [r \in Requests |-> {}]
  /\ broken' \in {broken, TRUE}
  /\ UNCHANGED <<sentAt, cachedPage, pageLast, live, saved, acked, forgotten, alone>>

Next ==
  \/ \E m \in Msgs : Persist(m) \/ ServerStores(m)
  \/ \E r \in Requests : Fetch(r) \/ Serve(r) \/ Fail(r) \/ Discard(r) \/ HandleAnswer(r)
  \/ Restart

Spec == Init /\ [][Next]_vars

-----------------------------------------------------------------------------
(* Properties                                                              *)

TypeOK ==
  /\ sentAt \in [Msgs -> 0..Cardinality(Msgs)] /\ cachedPage \subseteq Msgs /\ live \subseteq Msgs
  /\ pageLast \subseteq cachedPage /\ saved \subseteq Msgs /\ acked \subseteq Msgs
  /\ forgotten \subseteq Msgs /\ broken \in BOOLEAN /\ alone \in BOOLEAN
  /\ req \in [Requests -> {"idle", "sent", "answered", "done"}]
  /\ cache \in [Requests -> SUBSET Msgs] /\ cacheLast \in [Requests -> SUBSET Msgs]
  /\ answer \in [Requests -> SUBSET Msgs] /\ answerLast \in [Requests -> SUBSET Msgs]
  /\ \A r \in Requests : answerLast[r] \subseteq answer[r]
  /\ results \in [Requests -> SUBSET {"cache", "server", "empty"}]

\* MessageHistoryCache means to keep a live message until it is acknowledged.  One that is
\* saved while the record cannot be read replaces all of it, and that is the only way out:
\* otherwise a live message stays in the cache until a page that was written holds it, in
\* whatever order answers, failures and restarts come.
UnacknowledgedKept == saved \ acked \subseteq live \cup forgotten

\* A live message is only dropped for a page that holds it at that moment, or by a save
\* that could not read it.
LeavesForPage == [][\A m \in live : m \in live' \cup cachedPage' \cup forgotten']_vars

\* While fetches do not overlap, a live message is in one of the two records, unless
\* enough newer ones have pushed it off the first page or it was overwritten unread.
NeverErased == alone => saved \subseteq cachedPage \cup live \cup forgotten \cup (OnServer \ NewestPage)

\* What MessageHistoryCache promises: a message that arrived live survives the
\* merge of savePage() with the answers of fetches.
CacheSound == TypeOK /\ UnacknowledgedKept /\ NeverErased

\* While fetches do not overlap, an answer that ends with its newest message and is not
\* stored, because that one is not newer than the last one cached, brings nothing that
\* the page lacks, whichever message the cached page ended with.
SkipIsSound ==
  alone => \A r \in Requests :
    /\ req[r] = "answered" /\ answer[r] # {} /\ ~ShouldUpdate(r)
    /\ \A m \in answer[r], a \in answerLast[r] : sentAt[m] <= sentAt[a]
    => answer[r] \subseteq cachedPage
=============================================================================
