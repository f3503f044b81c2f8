---------------------------- MODULE MessageProofs ----------------------------
(***************************************************************************)
(* MessageHistory, for any messages, any page size and any number of       *)
(* fetches at the same time; and MessageList, for any conversations,       *)
(* messages and number of pages, and any number of fetches.                *)
(***************************************************************************)
EXTENDS MessageHistory, MessageList, FiniteSetTheorems, SequenceTheorems,
        WellFoundedInduction, TLAPS

-----------------------------------------------------------------------------
(* The cache                                                               *)

HistoryInv == TypeOK /\ UnacknowledgedKept

LEMMA HistoryInitial == Init => HistoryInv
  <1> SUFFICES ASSUME Init PROVE HistoryInv OBVIOUS
  <1>1. Cardinality(Msgs) \in Nat BY HistoryAssumption, FS_CardinalityType
  <1>2. TypeOK
    <2>1. sentAt \in [Msgs -> 0..Cardinality(Msgs)] BY <1>1 DEF Init
    <2>2. alone \in BOOLEAN /\ broken \in BOOLEAN BY DEF Init
    <2>3. req \in [Requests -> {"idle", "sent", "answered", "done"}] BY DEF Init
    <2>4. cachedPage = {} /\ pageLast = {} /\ live = {} /\ saved = {} /\ acked = {} /\ forgotten = {}
      BY DEF Init
    <2>5. /\ cache \in [Requests -> SUBSET Msgs] /\ cacheLast \in [Requests -> SUBSET Msgs]
          /\ answer \in [Requests -> SUBSET Msgs] /\ answerLast \in [Requests -> SUBSET Msgs]
          /\ \A r \in Requests : answerLast[r] \subseteq answer[r]
      BY DEF Init
    <2>6. results \in [Requests -> SUBSET {"cache", "server", "empty"}] BY DEF Init
    <2>7. QED BY <2>1, <2>2, <2>3, <2>4, <2>5, <2>6 DEF TypeOK
  <1>3. UnacknowledgedKept BY DEF Init, UnacknowledgedKept
  <1>4. QED BY <1>2, <1>3 DEF HistoryInv

\* The next time of the server is still in range.
LEMMA StoreInRange ==
  ASSUME TypeOK, NEW m \in Msgs, sentAt[m] = 0
  PROVE  Cardinality(OnServer) + 1 \in 0..Cardinality(Msgs)
  <1>1. OnServer \in SUBSET Msgs /\ m \notin OnServer BY DEF OnServer
  <1>2. /\ IsFiniteSet(OnServer) /\ Cardinality(OnServer) <= Cardinality(Msgs)
        /\ Cardinality(OnServer) # Cardinality(Msgs)
    BY <1>1, HistoryAssumption, FS_Subset
  <1>3. Cardinality(OnServer) \in Nat /\ Cardinality(Msgs) \in Nat
    BY <1>2, HistoryAssumption, FS_CardinalityType
  <1>4. QED BY <1>2, <1>3

LEMMA PersistInv == ASSUME HistoryInv, NEW m \in Msgs, Persist(m) PROVE HistoryInv'
  <1>1. UNCHANGED <<sentAt, cachedPage, pageLast, acked, broken, req, cache, cacheLast, answer, answerLast,
                    results, alone>>
    BY DEF Persist
  <1>2. /\ live' \subseteq Msgs /\ saved' \subseteq Msgs /\ forgotten' \subseteq Msgs
        /\ UnacknowledgedKept'
    <2>1. CASE SaveMessage(m)
      <3>1. PICK read \in ReadSnapshot(live) :
                 /\ live' = read \cup {m} /\ saved' = saved \cup {m}
                 /\ forgotten' = (forgotten \cup (live \ read)) \ {m}
        BY <2>1 DEF SaveMessage
      <3>2. read \subseteq live BY DEF ReadSnapshot
      <3>3. QED BY <1>1, <3>1, <3>2 DEF HistoryInv, TypeOK, UnacknowledgedKept
    <2>2. CASE UNCHANGED <<live, saved, forgotten>>
      BY <1>1, <2>2 DEF HistoryInv, TypeOK, UnacknowledgedKept
    <2>3. QED BY <2>1, <2>2 DEF Persist
  <1>3. TypeOK' BY <1>1, <1>2 DEF HistoryInv, TypeOK
  <1>4. QED BY <1>2, <1>3 DEF HistoryInv

LEMMA StoreInv == ASSUME HistoryInv, NEW m \in Msgs, ServerStores(m) PROVE HistoryInv'
  <1>1. Cardinality(OnServer) + 1 \in 0..Cardinality(Msgs) BY StoreInRange DEF HistoryInv, ServerStores
  <1>2. TypeOK' BY <1>1 DEF HistoryInv, TypeOK, ServerStores, file
  <1>3. QED BY <1>2 DEF HistoryInv, UnacknowledgedKept, ServerStores, file

\* What a fetch reads is of the file, and its last message of the page.
LEMMA ReadOfFile ==
  ASSUME TypeOK, NEW pg \in ReadSnapshot(cachedPage), NEW lv \in ReadSnapshot(live)
  PROVE  pg \cup lv \in SUBSET Msgs /\ \A l \in CacheLasts(pg, lv) : l \in SUBSET cachedPage
  <1>1. pg \subseteq cachedPage /\ lv \subseteq live BY DEF ReadSnapshot
  <1>2. QED BY <1>1 DEF CacheLasts, TypeOK

LEMMA FetchInv == ASSUME HistoryInv, NEW r \in Requests, Fetch(r) PROVE HistoryInv'
  <1>1. PICK pg \in ReadSnapshot(cachedPage), lv \in ReadSnapshot(live) :
             /\ cache' = [cache EXCEPT ![r] = pg \cup lv]
             /\ \E l \in CacheLasts(pg, lv) : cacheLast' = [cacheLast EXCEPT ![r] = l]
             /\ results' = [results EXCEPT ![r] = IF pg \cup lv = {} THEN {} ELSE {"cache"}]
    BY DEF Fetch
  <1>2. PICK l \in CacheLasts(pg, lv) : cacheLast' = [cacheLast EXCEPT ![r] = l] BY <1>1
  <1>3. pg \cup lv \in SUBSET Msgs /\ l \in SUBSET Msgs
    BY ReadOfFile DEF HistoryInv, TypeOK
  <1>4. cache' \in [Requests -> SUBSET Msgs] /\ cacheLast' \in [Requests -> SUBSET Msgs]
    BY <1>1, <1>2, <1>3 DEF HistoryInv, TypeOK
  <1>5. results' \in [Requests -> SUBSET {"cache", "server", "empty"}] BY <1>1 DEF HistoryInv, TypeOK
  <1>6. req' \in [Requests -> {"idle", "sent", "answered", "done"}] BY DEF Fetch, HistoryInv, TypeOK
  <1>7. UNCHANGED <<sentAt, file, answer, answerLast>> /\ alone' \in BOOLEAN BY DEF Fetch
  <1>8. TypeOK' BY <1>4, <1>5, <1>6, <1>7 DEF HistoryInv, TypeOK, file
  <1>9. QED BY <1>7, <1>8 DEF HistoryInv, UnacknowledgedKept, file

LEMMA ServeInv == ASSUME HistoryInv, NEW r \in Requests, Serve(r) PROVE HistoryInv'
  <1>1. NewestPage \in SUBSET Msgs BY DEF NewestPage, OnServer
  <1>2. PICK l \in Lasts(NewestPage) : answerLast' = [answerLast EXCEPT ![r] = l] BY DEF Serve
  <1>3. l \in SUBSET NewestPage BY <1>1 DEF Lasts
  <1>4. TypeOK'
    <2>1. /\ answer' = [answer EXCEPT ![r] = NewestPage] /\ req' = [req EXCEPT ![r] = "answered"]
          /\ UNCHANGED <<sentAt, file, cache, cacheLast, results, alone>>
      BY DEF Serve
    <2>2. answer' \in [Requests -> SUBSET Msgs] /\ answerLast' \in [Requests -> SUBSET Msgs]
      BY <1>1, <1>2, <1>3, <2>1 DEF HistoryInv, TypeOK
    <2>3. \A q \in Requests : answerLast'[q] \subseteq answer'[q]
      BY <1>2, <1>3, <2>1 DEF HistoryInv, TypeOK
    <2>4. QED BY <2>1, <2>2, <2>3 DEF HistoryInv, TypeOK, file
  <1>5. QED BY <1>4 DEF HistoryInv, UnacknowledgedKept, Serve, file

\* The fetches keep their types when one of them is finished.
LEMMA FinishTyped ==
  ASSUME TypeOK, NEW r \in Requests, Finish(r)
  PROVE  /\ req' \in [Requests -> {"idle", "sent", "answered", "done"}]
         /\ cache' \in [Requests -> SUBSET Msgs] /\ cacheLast' \in [Requests -> SUBSET Msgs]
         /\ answer' \in [Requests -> SUBSET Msgs] /\ answerLast' \in [Requests -> SUBSET Msgs]
         /\ \A q \in Requests : answerLast'[q] \subseteq answer'[q]
         /\ \A q \in Requests : req'[q] = IF q = r THEN "done" ELSE req[q]
         /\ \A q \in Requests : q # r => /\ cache'[q] = cache[q] /\ cacheLast'[q] = cacheLast[q]
                                         /\ answer'[q] = answer[q] /\ answerLast'[q] = answerLast[q]
  BY DEF TypeOK, Finish

LEMMA EndInv == ASSUME HistoryInv, NEW r \in Requests, Fail(r) \/ Discard(r) PROVE HistoryInv'
  <1>1. Finish(r) /\ UNCHANGED <<sentAt, file, results, alone>> BY DEF Fail, Discard
  <1>2. TypeOK' BY <1>1, FinishTyped DEF HistoryInv, TypeOK, file
  <1>3. QED BY <1>1, <1>2 DEF HistoryInv, UnacknowledgedKept, file

\* A page is written, and live messages on it may be dropped.
LEMMA SavePageKeeps ==
  ASSUME HistoryInv, NEW ms \in SUBSET Msgs, NEW l \in SUBSET ms, SavePage(ms, l), UNCHANGED <<saved, forgotten>>
  PROVE  /\ cachedPage' \subseteq Msgs /\ pageLast' \subseteq cachedPage' /\ live' \subseteq Msgs
         /\ acked' \subseteq Msgs /\ UnacknowledgedKept'
         /\ \A m \in live : m \in live' \/ m \in cachedPage'
  BY DEF HistoryInv, TypeOK, UnacknowledgedKept, SavePage, Snapshot

LEMMA HandleInv ==
  ASSUME HistoryInv, NEW r \in Requests, HandleAnswer(r)
  PROVE  HistoryInv'
  <1>1. Finish(r) /\ UNCHANGED <<sentAt, saved, forgotten, broken, alone>> BY DEF HandleAnswer
  <1>2. answer[r] \in SUBSET Msgs /\ answerLast[r] \in SUBSET answer[r] BY DEF HistoryInv, TypeOK
  <1>3. results' \in [Requests -> SUBSET {"cache", "server", "empty"}]
    BY DEF HandleAnswer, HistoryInv, TypeOK
  <1>4. /\ cachedPage' \subseteq Msgs /\ pageLast' \subseteq cachedPage' /\ live' \subseteq Msgs
        /\ acked' \subseteq Msgs /\ UnacknowledgedKept'
    <2>1. CASE SavePage(answer[r], answerLast[r]) BY <1>1, <1>2, <2>1, SavePageKeeps
    <2>2. CASE UNCHANGED <<cachedPage, pageLast, live, acked>>
      BY <1>1, <2>2 DEF HistoryInv, TypeOK, UnacknowledgedKept
    <2>3. QED BY <2>1, <2>2 DEF HandleAnswer
  <1>5. TypeOK' BY <1>1, <1>3, <1>4, FinishTyped DEF HistoryInv, TypeOK
  <1>6. QED BY <1>4, <1>5 DEF HistoryInv

LEMMA HistoryStep == HistoryInv /\ [Next]_vars => HistoryInv'
  <1> SUFFICES ASSUME HistoryInv, [Next]_vars PROVE HistoryInv' OBVIOUS
  <1>1. ASSUME NEW m \in Msgs, Persist(m) \/ ServerStores(m) PROVE HistoryInv' BY <1>1, PersistInv, StoreInv
  <1>2. ASSUME NEW r \in Requests, Fetch(r) \/ Serve(r) \/ Fail(r) \/ Discard(r) \/ HandleAnswer(r)
        PROVE  HistoryInv'
    BY <1>2, FetchInv, ServeInv, EndInv, HandleInv
  <1>3. CASE Restart BY <1>3 DEF Restart, HistoryInv, TypeOK, UnacknowledgedKept
  <1>4. CASE UNCHANGED vars BY <1>4 DEF vars, file, HistoryInv, TypeOK, UnacknowledgedKept
  <1>5. QED BY <1>1, <1>2, <1>3, <1>4 DEF Next

\* Type correctness of the cache and of all fetches.
THEOREM HistoryTypeCorrect == Spec => []TypeOK
  <1>1. HistoryInv => TypeOK BY DEF HistoryInv
  <1>2. QED BY <1>1, HistoryInitial, HistoryStep, PTL DEF Spec

\* A live message that no stored page has held is still among the live messages, or
\* was overwritten by a save that could not read it.
THEOREM UnacknowledgedAlwaysKept == Spec => []UnacknowledgedKept
  <1>1. HistoryInv => UnacknowledgedKept BY DEF HistoryInv
  <1>2. QED BY <1>1, HistoryInitial, HistoryStep, PTL DEF Spec

\* Every step that drops a live message leaves it on the page, or is a save that could
\* not read it.
THEOREM AlwaysLeavesForPage == Spec => LeavesForPage
  <1>1. ASSUME HistoryInv, [Next]_vars
        PROVE  [\A m \in live : m \in live' \cup cachedPage' \cup forgotten']_vars
    <2>1. SUFFICES ASSUME Next PROVE \A m \in live : m \in live' \cup cachedPage' \cup forgotten' BY <1>1
    <2>2. ASSUME NEW r \in Requests, HandleAnswer(r)
          PROVE  \A m \in live : m \in live' \cup cachedPage' \cup forgotten'
      <3>1. CASE SavePage(answer[r], answerLast[r])
        BY <1>1, <2>2, <3>1, SavePageKeeps DEF HistoryInv, TypeOK, HandleAnswer
      <3>2. CASE UNCHANGED <<cachedPage, pageLast, live, acked>> BY <3>2
      <3>3. QED BY <2>2, <3>1, <3>2 DEF HandleAnswer
    <2>3. ASSUME NEW m \in Msgs, Persist(m)
          PROVE  \A k \in live : k \in live' \cup cachedPage' \cup forgotten'
      <3>1. CASE SaveMessage(m) BY <3>1 DEF SaveMessage
      <3>2. CASE UNCHANGED live BY <3>2
      <3>3. QED BY <2>3, <3>1, <3>2 DEF Persist
    <2>4. CASE UNCHANGED live BY <2>4
    <2>5. QED BY <2>1, <2>2, <2>3, <2>4 DEF Next, ServerStores, Fetch, Serve, Fail, Discard, Restart, file
  <1>2. HistoryInv /\ [Next]_vars => [\A m \in live : m \in live' \cup cachedPage' \cup forgotten']_vars
    BY <1>1
  <1>3. QED BY <1>2, HistoryInitial, HistoryStep, PTL DEF Spec, LeavesForPage

-----------------------------------------------------------------------------
(* Fetches that do not overlap                                             *)

\* Messages that newer ones have pushed off the first page.
Off == OnServer \ NewestPage

\* While fetches do not overlap: every message that was on a page still is, or has
\* been pushed off, and the answer that is under way says the same.
AloneInv ==
  /\ HistoryInv
  /\ alone => /\ acked \subseteq OnServer /\ acked \subseteq cachedPage \cup Off
              /\ \A r, q \in Requests : req[r] \in {"sent", "answered"} /\ req[q] \in {"sent", "answered"} => r = q
              /\ \A r \in Requests : req[r] = "answered" =>
                   answer[r] \subseteq OnServer /\ acked \subseteq answer[r] \cup Off

\* What is off the first page stays off.
LEMMA StoreKeepsOff ==
  ASSUME TypeOK, NEW m \in Msgs, ServerStores(m)
  PROVE  OnServer \subseteq OnServer' /\ Off \subseteq Off'
  <1>1. Cardinality(OnServer) + 1 \in 0..Cardinality(Msgs) BY StoreInRange DEF ServerStores
  <1>2. Cardinality(Msgs) \in Nat BY HistoryAssumption, FS_CardinalityType
  <1>3. \A k \in OnServer : sentAt'[k] = sentAt[k] /\ k \in Msgs /\ k # m BY DEF ServerStores, OnServer, TypeOK
  <1>4. OnServer \subseteq OnServer' BY <1>3 DEF OnServer
  <1>5. ASSUME NEW k \in Off PROVE k \in Off'
    <2> DEFINE newer == {j \in OnServer : sentAt[j] > sentAt[k]}
               later == {j \in OnServer' : sentAt'[j] > sentAt'[k]}
    <2>1. k \in OnServer /\ ~(Cardinality(newer) < Limit) BY <1>5 DEF Off, NewestPage
    <2>2. newer \subseteq later BY <1>3, <1>4, <2>1
    <2>3. later \in SUBSET Msgs BY DEF OnServer
    <2>4. IsFiniteSet(later) BY <2>3, HistoryAssumption, FS_Subset
    <2>5. IsFiniteSet(newer) /\ Cardinality(newer) <= Cardinality(later) BY <2>2, <2>4, FS_Subset
    <2>6. Cardinality(newer) \in Nat /\ Cardinality(later) \in Nat BY <2>4, <2>5, FS_CardinalityType
    <2>7. ~(Cardinality(later) < Limit) BY <2>1, <2>5, <2>6, HistoryAssumption
    <2>8. k \notin NewestPage' BY <2>7 DEF NewestPage
    <2>9. QED BY <1>4, <2>1, <2>8 DEF Off
  <1>6. QED BY <1>4, <1>5

\* The server's state decides what is off the page.
LEMMA SameOff ==
  ASSUME UNCHANGED sentAt
  PROVE  OnServer' = OnServer /\ NewestPage' = NewestPage /\ Off' = Off
  <1>1. OnServer' = OnServer BY DEF OnServer
  <1>2. NewestPage' = NewestPage BY <1>1 DEF NewestPage
  <1>3. QED BY <1>1, <1>2 DEF Off

LEMMA Stutter ==
  UNCHANGED vars => UNCHANGED <<sentAt, cachedPage, pageLast, live, saved, acked, forgotten, broken, req, cache,
                                cacheLast, answer, answerLast, results, alone>>
  BY DEF vars, file

\* Every step preserves the invariant.
LEMMA AloneStep == AloneInv /\ [Next]_vars => AloneInv'
  <1> SUFFICES ASSUME AloneInv, [Next]_vars PROVE AloneInv' OBVIOUS
  <1>1. HistoryInv /\ HistoryInv' BY HistoryStep DEF AloneInv
  <1>2. UNCHANGED vars => UNCHANGED <<sentAt, cachedPage, req, answer, acked>> /\ (alone' => alone)
    BY Stutter
  <1> SUFFICES ASSUME alone'
               PROVE  /\ acked' \subseteq OnServer' /\ acked' \subseteq cachedPage' \cup Off'
                      /\ \A r, q \in Requests : req'[r] \in {"sent", "answered"} /\ req'[q] \in {"sent", "answered"} => r = q
                      /\ \A r \in Requests : req'[r] = "answered" =>
                           answer'[r] \subseteq OnServer' /\ acked' \subseteq answer'[r] \cup Off'
    BY <1>1 DEF AloneInv
  <1>3. ASSUME NEW m \in Msgs, Persist(m) PROVE AloneInv'
    <2>1. UNCHANGED <<sentAt, cachedPage, req, answer, acked, alone>> BY <1>3 DEF Persist
    <2>2. QED BY <1>1, <2>1, SameOff DEF AloneInv
  <1>4. ASSUME NEW m \in Msgs, ServerStores(m) PROVE AloneInv'
    <2>1. UNCHANGED <<cachedPage, req, answer, acked, alone>> BY <1>4 DEF ServerStores, file
    <2>2. OnServer \subseteq OnServer' /\ Off \subseteq Off' BY <1>1, <1>4, StoreKeepsOff DEF HistoryInv
    <2>3. QED BY <1>1, <2>1, <2>2 DEF AloneInv
  <1>5. ASSUME NEW r \in Requests, Fetch(r) PROVE AloneInv'
    <2>1. UNCHANGED <<sentAt, cachedPage, acked>> /\ alone BY <1>5 DEF Fetch, file
    <2>2. \A q \in Requests : req[q] \in {"idle", "done"} BY <1>5 DEF Fetch
    <2>3. \A q \in Requests : req'[q] = IF q = r THEN "sent" ELSE req[q] BY <1>1, <1>5 DEF Fetch, HistoryInv, TypeOK
    <2>4. QED BY <1>1, <2>1, <2>2, <2>3, SameOff DEF AloneInv
  <1>6. ASSUME NEW r \in Requests, Serve(r) PROVE AloneInv'
    <2>1. UNCHANGED <<sentAt, cachedPage, acked, alone>> BY <1>6 DEF Serve, file
    <2>2. /\ req[r] = "sent"
          /\ \A q \in Requests : req'[q] = IF q = r THEN "answered" ELSE req[q]
          /\ \A q \in Requests : answer'[q] = IF q = r THEN NewestPage ELSE answer[q]
      BY <1>1, <1>6 DEF Serve, HistoryInv, TypeOK
    <2>3. NewestPage \subseteq OnServer /\ acked \subseteq NewestPage \cup Off BY <2>1 DEF AloneInv, NewestPage, Off
    <2>4. QED BY <1>1, <2>1, <2>2, <2>3, SameOff DEF AloneInv
  <1>7. ASSUME NEW r \in Requests, Fail(r) \/ Discard(r) PROVE AloneInv'
    <2>1. UNCHANGED <<sentAt, cachedPage, acked, alone>> /\ Finish(r) BY <1>7 DEF Fail, Discard, file
    <2>2. \A q \in Requests : /\ req'[q] = IF q = r THEN "done" ELSE req[q]
                              /\ q # r => answer'[q] = answer[q]
      BY <1>1, <2>1, FinishTyped DEF HistoryInv
    <2>3. QED BY <1>1, <2>1, <2>2, SameOff DEF AloneInv
  <1>8. ASSUME NEW r \in Requests, HandleAnswer(r) PROVE AloneInv'
    <2>1. UNCHANGED <<sentAt, alone>> /\ req[r] = "answered" /\ Finish(r) BY <1>8 DEF HandleAnswer
    <2>2. \A q \in Requests : req'[q] = IF q = r THEN "done" ELSE req[q] BY <1>1, <2>1, FinishTyped DEF HistoryInv
    <2>3. \A q \in Requests : req'[q] \notin {"sent", "answered"} BY <2>1, <2>2 DEF AloneInv
    <2>4. CASE SavePage(answer[r], answerLast[r])
      <3>1. acked' \subseteq OnServer /\ acked' \subseteq cachedPage' \cup Off
        BY <2>1, <2>4 DEF SavePage, Snapshot, AloneInv
      <3>2. QED BY <1>1, <2>1, <2>3, <3>1, SameOff DEF AloneInv
    <2>5. CASE UNCHANGED <<cachedPage, pageLast, live, acked>>
      BY <1>1, <2>1, <2>3, <2>5, SameOff DEF AloneInv
    <2>6. QED BY <1>8, <2>4, <2>5 DEF HandleAnswer
  <1>9. CASE Restart
    <2>1. UNCHANGED <<sentAt, cachedPage, acked, alone>> /\ \A q \in Requests : req'[q] = "idle" BY <1>9 DEF Restart
    <2>2. QED BY <1>1, <2>1, SameOff DEF AloneInv
  <1>10. CASE UNCHANGED vars
    <2>1. UNCHANGED <<sentAt, cachedPage, req, answer, acked>> /\ alone BY <1>10, <1>2
    <2>2. QED BY <1>1, <2>1, SameOff DEF AloneInv
  <1>11. QED BY <1>3, <1>4, <1>5, <1>6, <1>7, <1>8, <1>9, <1>10 DEF Next, AloneInv

\* While fetches do not overlap, a live message is only missing from the cache
\* when newer ones have pushed it off the first page, or a save could not read it.
THEOREM NeverErasedAlone == Spec => []NeverErased
  <1>1. Init => AloneInv
    <2> SUFFICES ASSUME Init PROVE AloneInv OBVIOUS
    <2>1. HistoryInv BY HistoryInitial
    <2>2. acked = {} /\ \A r \in Requests : req[r] = "idle" BY DEF Init
    <2>3. QED BY <2>1, <2>2 DEF AloneInv
  <1>2. AloneInv => NeverErased
    BY DEF AloneInv, HistoryInv, UnacknowledgedKept, NeverErased, Off
  <1>3. QED BY <1>1, <1>2, AloneStep, PTL DEF Spec

\* The cache keeps what arrived live, for any messages, requests and page size.
THEOREM CacheAlwaysSound == Spec => []CacheSound
  <1>1. TypeOK /\ UnacknowledgedKept /\ NeverErased => CacheSound BY DEF CacheSound
  <1>2. QED BY <1>1, HistoryTypeCorrect, UnacknowledgedAlwaysKept, NeverErasedAlone, PTL

-----------------------------------------------------------------------------
(* Answers that are not stored                                             *)

\* The first page as it was when the server had n messages.
Upto(n) == {m \in OnServer : sentAt[m] <= n}
Top(n) == {m \in Upto(n) : Cardinality({k \in Upto(n) : sentAt[k] > sentAt[m]}) < Limit}

Stored == Cardinality(OnServer)

\* The server numbers its messages without a gap.
Numbered ==
  /\ \A m \in OnServer : sentAt[m] <= Stored
  /\ \A n \in 1..Stored : \E m \in OnServer : sentAt[m] = n

\* While fetches do not overlap the cached page is the first page of some moment, the
\* answer that is under way is that of a later one, and a fetch compares it with the
\* page that is still cached.
SkipInv ==
  /\ AloneInv /\ Numbered
  /\ alone =>
       /\ \E n \in 0..Stored : cachedPage = Top(n)
       /\ \A r \in Requests : req[r] \in {"sent", "answered"} => cacheLast[r] \subseteq cachedPage
       /\ \A r \in Requests : req[r] = "answered" =>
            /\ \E n, k \in 0..Stored : n <= k /\ cachedPage = Top(n) /\ answer[r] = Top(k)
            /\ answer[r] # {} => answerLast[r] # {}

\* Stored is a number, and the next message is counted.
LEMMA StoredFacts ==
  ASSUME TypeOK
  PROVE  /\ Stored \in Nat
         /\ \A m \in Msgs : ServerStores(m) => Stored' = Stored + 1 /\ OnServer' = OnServer \cup {m}
  <1>1. OnServer \in SUBSET Msgs BY DEF OnServer
  <1>2. IsFiniteSet(OnServer) BY <1>1, HistoryAssumption, FS_Subset
  <1>3. Stored \in Nat BY <1>2, FS_CardinalityType DEF Stored
  <1>4. ASSUME NEW m \in Msgs, ServerStores(m) PROVE Stored' = Stored + 1 /\ OnServer' = OnServer \cup {m}
    <2>1. \A k \in Msgs : sentAt'[k] = IF k = m THEN Stored + 1 ELSE sentAt[k]
      BY <1>4 DEF ServerStores, TypeOK, Stored
    <2>2. m \notin OnServer BY <1>4 DEF ServerStores, OnServer
    <2>3. OnServer' = OnServer \cup {m} BY <1>3, <2>1 DEF OnServer
    <2>4. Cardinality(OnServer \cup {m}) = Cardinality(OnServer) + 1
      BY <1>2, <2>2, FS_AddElement
    <2>5. QED BY <2>3, <2>4 DEF Stored
  <1>5. QED BY <1>3, <1>4

\* The first page is that of the present moment.
LEMMA FirstPageIsTop == ASSUME TypeOK, Numbered PROVE NewestPage = Top(Stored)
  <1>1. Upto(Stored) = OnServer BY DEF Numbered, Upto
  <1>2. QED BY <1>1 DEF NewestPage, Top

\* The newest message of a moment is on its first page.
LEMMA NewestOnTop ==
  ASSUME TypeOK, Numbered, NEW n \in 1..Stored
  PROVE  \E m \in Top(n) : sentAt[m] = n
  <1>1. PICK m \in OnServer : sentAt[m] = n BY DEF Numbered
  <1>2. Stored \in Nat BY StoredFacts
  <1>3. m \in Upto(n) BY <1>1, <1>2 DEF Upto
  <1>4. {k \in Upto(n) : sentAt[k] > sentAt[m]} = {}
    BY <1>1, <1>2 DEF Upto, OnServer, TypeOK
  <1>5. Cardinality({k \in Upto(n) : sentAt[k] > sentAt[m]}) < Limit
    BY <1>4, FS_EmptySet, HistoryAssumption
  <1>6. QED BY <1>1, <1>3, <1>5 DEF Top

\* What the server stores later does not change an earlier moment.
LEMMA TopKept ==
  ASSUME TypeOK, Numbered, NEW m \in Msgs, ServerStores(m)
  PROVE  /\ Numbered' /\ Stored' = Stored + 1 /\ Stored \in Nat
         /\ \A n \in 0..Stored : Top(n)' = Top(n)
  <1>1. Stored \in Nat /\ Stored' = Stored + 1 /\ OnServer' = OnServer \cup {m} BY StoredFacts
  <1>2. \A k \in Msgs : sentAt'[k] = IF k = m THEN Stored + 1 ELSE sentAt[k]
    BY DEF ServerStores, TypeOK, Stored
  <1>3. m \notin OnServer /\ OnServer \subseteq Msgs BY DEF ServerStores, OnServer
  <1>4. Numbered'
    <2>1. \A k \in OnServer' : sentAt'[k] <= Stored' BY <1>1, <1>2, <1>3 DEF Numbered, TypeOK
    <2>2. ASSUME NEW n \in 1..Stored' PROVE \E k \in OnServer' : sentAt'[k] = n
      <3>1. CASE n = Stored + 1 BY <1>1, <1>2, <3>1
      <3>2. CASE n \in 1..Stored
        <4>1. PICK k \in OnServer : sentAt[k] = n BY <3>2 DEF Numbered
        <4>2. QED BY <1>1, <1>2, <1>3, <4>1
      <3>3. QED BY <1>1, <2>2, <3>1, <3>2
    <2>3. QED BY <2>1, <2>2 DEF Numbered
  <1>5. ASSUME NEW n \in 0..Stored PROVE Top(n)' = Top(n)
    <2>1. Upto(n)' = Upto(n) BY <1>1, <1>2, <1>3 DEF Upto, TypeOK
    <2>2. \A k \in Upto(n) : sentAt'[k] = sentAt[k] BY <1>2, <1>3 DEF Upto
    <2>3. \A j \in Upto(n) : {k \in Upto(n)' : sentAt'[k] > sentAt'[j]} = {k \in Upto(n) : sentAt[k] > sentAt[j]}
      BY <2>1, <2>2
    <2>4. QED BY <2>1, <2>3 DEF Top
  <1>6. QED BY <1>1, <1>4, <1>5

LEMMA SameTop ==
  ASSUME UNCHANGED sentAt
  PROVE  Stored' = Stored /\ Numbered' = Numbered /\ \A n : Top(n)' = Top(n)
  <1>1. OnServer' = OnServer BY DEF OnServer
  <1>2. Stored' = Stored BY <1>1 DEF Stored
  <1>3. \A n : Upto(n)' = Upto(n) BY <1>1 DEF Upto
  <1>4. \A n : Top(n)' = Top(n) BY <1>3 DEF Top
  <1>5. QED BY <1>1, <1>2, <1>4 DEF Numbered

LEMMA SkipStep == SkipInv /\ [Next]_vars => SkipInv'
  <1> SUFFICES ASSUME SkipInv, [Next]_vars PROVE SkipInv' OBVIOUS
  <1>1. AloneInv /\ AloneInv' BY AloneStep DEF SkipInv
  <1>2. TypeOK /\ TypeOK' /\ Numbered BY <1>1 DEF AloneInv, HistoryInv, SkipInv
  <1>3. Stored \in Nat BY <1>2, StoredFacts
  <1>4. ASSUME NEW m \in Msgs, ServerStores(m) PROVE SkipInv'
    <2>1. UNCHANGED <<cachedPage, req, cacheLast, answer, answerLast, alone>> BY <1>4 DEF ServerStores, file
    <2>2. Numbered' /\ Stored' = Stored + 1 /\ \A n \in 0..Stored : Top(n)' = Top(n)
      BY <1>2, <1>4, TopKept
    <2>3. 0..Stored \subseteq 0..Stored' BY <1>3, <2>2
    <2>4. QED BY <1>1, <2>1, <2>2, <2>3 DEF SkipInv
  <1>5. ASSUME UNCHANGED sentAt,
               alone' => /\ \E n \in 0..Stored : cachedPage' = Top(n)
                         /\ \A r \in Requests : req'[r] \in {"sent", "answered"} => cacheLast'[r] \subseteq cachedPage'
                         /\ \A r \in Requests : req'[r] = "answered" =>
                              /\ \E n, k \in 0..Stored : n <= k /\ cachedPage' = Top(n) /\ answer'[r] = Top(k)
                              /\ answer'[r] # {} => answerLast'[r] # {}
        PROVE  SkipInv'
    BY <1>1, <1>2, <1>5, SameTop DEF SkipInv
  <1>6. ASSUME NEW m \in Msgs, Persist(m) PROVE SkipInv'
    <2>1. UNCHANGED <<sentAt, cachedPage, req, cacheLast, answer, answerLast, alone>> BY <1>6 DEF Persist
    <2>2. QED BY <1>5, <2>1 DEF SkipInv
  <1>7. ASSUME NEW r \in Requests, Fetch(r), alone' PROVE SkipInv'
    <2>1. UNCHANGED <<sentAt, cachedPage>> /\ alone BY <1>7 DEF Fetch, file
    <2>2. \A q \in Requests : req[q] \in {"idle", "done"} BY <1>7 DEF Fetch
    <2>3. \A q \in Requests : req'[q] = IF q = r THEN "sent" ELSE req[q] BY <1>2, <1>7 DEF Fetch, TypeOK
    <2>4. cacheLast'[r] \subseteq cachedPage
      <3>1. PICK pg \in ReadSnapshot(cachedPage), lv \in ReadSnapshot(live) :
                 \E l \in CacheLasts(pg, lv) : cacheLast' = [cacheLast EXCEPT ![r] = l]
        BY <1>7 DEF Fetch
      <3>2. \A l \in CacheLasts(pg, lv) : l \in SUBSET cachedPage BY <1>2, ReadOfFile
      <3>3. QED BY <1>2, <3>1, <3>2 DEF TypeOK
    <2>5. QED BY <1>2, <1>5, <1>7, <2>1, <2>2, <2>3, <2>4 DEF SkipInv, Fetch, TypeOK
  <1>8. ASSUME NEW r \in Requests, Serve(r) PROVE SkipInv'
    <2>1. UNCHANGED <<sentAt, cachedPage, cacheLast, alone>> BY <1>8 DEF Serve, file
    <2>2. /\ req[r] = "sent"
          /\ \A q \in Requests : req'[q] = IF q = r THEN "answered" ELSE req[q]
          /\ \A q \in Requests : answer'[q] = IF q = r THEN NewestPage ELSE answer[q]
      BY <1>2, <1>8 DEF Serve, TypeOK
    <2>3. NewestPage = Top(Stored) BY <1>2, FirstPageIsTop
    <2>4. ASSUME alone PROVE \E n, k \in 0..Stored : n <= k /\ cachedPage = Top(n) /\ NewestPage = Top(k)
      <3>1. PICK n \in 0..Stored : cachedPage = Top(n) BY <2>4 DEF SkipInv
      <3>2. n <= Stored /\ Stored \in 0..Stored BY <1>3
      <3>3. QED BY <2>3, <3>1, <3>2
    <2>5. \A q \in Requests : q # r => answerLast'[q] = answerLast[q] BY <1>2, <1>8 DEF Serve, TypeOK
    <2>6. NewestPage # {} => answerLast'[r] # {} BY <1>2, <1>8 DEF Serve, TypeOK, Lasts
    <2>7. QED BY <1>5, <2>1, <2>2, <2>4, <2>5, <2>6 DEF SkipInv
  <1>9. ASSUME NEW r \in Requests, Fail(r) \/ Discard(r) PROVE SkipInv'
    <2>1. UNCHANGED <<sentAt, cachedPage, alone>> /\ Finish(r) BY <1>9 DEF Fail, Discard, file
    <2>2. \A q \in Requests : /\ req'[q] = IF q = r THEN "done" ELSE req[q]
                              /\ q # r => cacheLast'[q] = cacheLast[q] /\ answer'[q] = answer[q]
                                        /\ answerLast'[q] = answerLast[q]
      BY <1>2, <2>1, FinishTyped
    <2>3. QED BY <1>5, <2>1, <2>2 DEF SkipInv
  <1>10. ASSUME NEW r \in Requests, HandleAnswer(r), alone' PROVE SkipInv'
    <2>1. UNCHANGED sentAt /\ alone /\ req[r] = "answered" /\ Finish(r) BY <1>10 DEF HandleAnswer
    <2>2. \A q \in Requests : req'[q] = IF q = r THEN "done" ELSE req[q] BY <1>2, <2>1, FinishTyped
    <2>3. \A q \in Requests : req'[q] \notin {"sent", "answered"} BY <1>1, <2>1, <2>2 DEF AloneInv
    <2>4. cachedPage' = cachedPage \/ cachedPage' = answer[r] BY <1>10 DEF HandleAnswer, SavePage
    <2>5. \E n \in 0..Stored : cachedPage' = Top(n) BY <2>1, <2>4 DEF SkipInv
    <2>6. QED BY <1>5, <2>1, <2>3, <2>5
  <1>11. CASE Restart
    <2>1. UNCHANGED <<sentAt, cachedPage, alone>> /\ \A q \in Requests : req'[q] = "idle" BY <1>11 DEF Restart
    <2>2. QED BY <1>5, <2>1 DEF SkipInv
  <1>12. CASE UNCHANGED vars
    <2>1. UNCHANGED <<sentAt, cachedPage, req, cacheLast, answer, answerLast, alone>> BY <1>12, Stutter
    <2>2. QED BY <1>5, <2>1 DEF SkipInv
  <1>13. CASE ~alone' /\ UNCHANGED sentAt BY <1>5, <1>13
  <1>14. ASSUME NEW r \in Requests, Fetch(r) \/ HandleAnswer(r) PROVE UNCHANGED sentAt
    BY <1>14 DEF Fetch, HandleAnswer
  <1>15. QED BY <1>4, <1>6, <1>7, <1>8, <1>9, <1>10, <1>11, <1>12, <1>13, <1>14 DEF Next

\* savePage() is skipped only for an answer that brings nothing, if the answer ends with
\* its newest message: while fetches do not overlap, comparing that one's sent_at with
\* the last one cached is then enough, for any messages, page size and requests.
THEOREM SkipAlwaysSound == Spec => []SkipIsSound
  <1>1. Init => SkipInv
    <2> SUFFICES ASSUME Init PROVE SkipInv OBVIOUS
    <2>1. HistoryInv /\ TypeOK BY HistoryInitial DEF HistoryInv
    <2>2. acked = {} /\ cachedPage = {} /\ \A r \in Requests : req[r] = "idle" BY DEF Init
    <2>3. AloneInv BY <2>1, <2>2 DEF AloneInv
    <2>4. OnServer = {} BY DEF Init, OnServer
    <2>5. Stored = 0 BY <2>4, FS_EmptySet DEF Stored
    <2>6. Numbered BY <2>4, <2>5 DEF Numbered
    <2>7. Top(0) = {} BY <2>4 DEF Top, Upto
    <2>8. QED BY <2>2, <2>3, <2>5, <2>6, <2>7 DEF SkipInv
  <1>2. SkipInv => SkipIsSound
    <2> SUFFICES ASSUME SkipInv, alone, NEW r \in Requests, req[r] = "answered", answer[r] # {},
                        ~ShouldUpdate(r), \A m \in answer[r], a \in answerLast[r] : sentAt[m] <= sentAt[a]
                 PROVE  answer[r] \subseteq cachedPage
      BY DEF SkipIsSound
    <2>1. TypeOK /\ Numbered BY DEF SkipInv, AloneInv, HistoryInv
    <2>2. Stored \in Nat BY <2>1, StoredFacts
    <2>3. PICK n, k \in 0..Stored : n <= k /\ cachedPage = Top(n) /\ answer[r] = Top(k) BY DEF SkipInv
    <2>4. \A a \in answerLast[r] : \E m \in cacheLast[r] : ~(sentAt[a] > sentAt[m]) BY DEF ShouldUpdate
    <2>5. cacheLast[r] \subseteq cachedPage BY DEF SkipInv
    <2>6. CASE n = k BY <2>3, <2>6
    <2>7. CASE n < k
      <3>1. k \in 1..Stored BY <2>2, <2>3, <2>7
      <3>2. PICK b \in Top(k) : sentAt[b] = k BY <2>1, <3>1, NewestOnTop
      <3>3. PICK a \in answerLast[r] : TRUE BY DEF SkipInv
      <3>4. k <= sentAt[a] /\ sentAt[a] \in Nat
        BY <2>1, <2>3, <3>2, <3>3 DEF TypeOK
      <3>5. PICK m \in cachedPage : ~(sentAt[a] > sentAt[m]) BY <2>4, <2>5, <3>3
      <3>6. sentAt[m] <= n /\ sentAt[m] \in Nat BY <2>1, <2>3, <3>5 DEF Top, Upto, OnServer, TypeOK
      <3>7. QED BY <2>3, <2>7, <3>4, <3>5, <3>6
    <2>8. QED BY <2>3, <2>6, <2>7
  <1>3. QED BY <1>1, <1>2, SkipStep, PTL DEF Spec

-----------------------------------------------------------------------------
(* The message list                                                        *)

RowType == [is : Tokens \cup Messages, sending : BOOLEAN]

-----------------------------------------------------------------------------
(* Induction and sequences                                                 *)

LEMMA LeastIn ==
  ASSUME NEW R, IsWellFoundedOn(R, Nat), \A x, y \in Nat : y < x => <<y, x>> \in R,
         NEW T, T \subseteq Nat, T # {}
  PROVE  \E n \in T : \A m \in T : n <= m
  <1>1. PICK n \in T : \A m \in T : ~(<<m, n>> \in R) BY WFMin
  <1>2. ASSUME NEW m \in T PROVE n <= m
    <2>1. m \in Nat /\ n \in Nat OBVIOUS
    <2>2. ~(m < n) BY <1>1, <2>1
    <2>3. QED BY <2>1, <2>2
  <1>3. QED BY <1>2

\* A set of numbers has a least one: what an induction is written with here, as
\* the provers cannot instantiate a theorem about a predicate.
LEMMA Least ==
  ASSUME NEW T, T \subseteq Nat, T # {}
  PROVE  \E n \in T : \A m \in T : n <= m
  <1>1. IsWellFoundedOn(OpToRel(<, Nat), Nat) BY NatLessThanWellFounded
  <1>2. \A x, y \in Nat : y < x => <<y, x>> \in OpToRel(<, Nat) BY DEF OpToRel
  <1>3. QED BY <1>1, <1>2, LeastIn

LEMMA Concatenated ==
  ASSUME NEW S, NEW s \in Seq(S), NEW t \in Seq(S), NEW m, NEW n, Len(s) = m, Len(t) = n
  PROVE  /\ s \o t \in Seq(S) /\ Len(s \o t) = m + n
         /\ \A j \in 1..m + n : (s \o t)[j] = IF j <= m THEN s[j] ELSE t[j - m]
  BY ConcatProperties

LEMMA InsertAtFacts ==
  ASSUME NEW S, NEW s \in Seq(S), NEW i \in 1..Len(s) + 1, NEW e \in S
  PROVE  /\ InsertAt(s, i, e) \in Seq(S) /\ Len(InsertAt(s, i, e)) = Len(s) + 1
         /\ InsertAt(s, i, e)[i] = e
         /\ \A j \in 1..i - 1 : InsertAt(s, i, e)[j] = s[j]
         /\ \A j \in i + 1..Len(s) + 1 : InsertAt(s, i, e)[j] = s[j - 1]
  <1> DEFINE a == SubSeq(s, 1, i - 1)
             b == SubSeq(s, i, Len(s))
             c == <<e>>
  <1>1. Len(s) \in Nat /\ \A j \in 1..Len(s) : s[j] \in S BY LenProperties, ElementOfSeq
  <1>2. a \in Seq(S) /\ Len(a) = i - 1 /\ \A j \in 1..i - 1 : a[j] = s[j]
    <2>1. 1 \in Int /\ i - 1 \in Int /\ \A j \in 1..i - 1 : s[j] \in S BY <1>1
    <2>2. /\ a \in Seq(S) /\ Len(a) = IF 1 <= i - 1 THEN (i - 1) - 1 + 1 ELSE 0
          /\ \A j \in 1..(i - 1) - 1 + 1 : a[j] = s[1 + j - 1]
      BY <2>1, SubSeqProperties
    <2> HIDE DEF a
    <2>3. QED BY <1>1, <2>2
  <1>3. b \in Seq(S) /\ Len(b) = Len(s) - i + 1 /\ \A j \in 1..Len(s) - i + 1 : b[j] = s[i + j - 1]
    <2>1. Len(s) \in Int /\ i \in Int /\ \A j \in i..Len(s) : s[j] \in S BY <1>1
    <2>2. /\ b \in Seq(S) /\ Len(b) = IF i <= Len(s) THEN Len(s) - i + 1 ELSE 0
          /\ \A j \in 1..Len(s) - i + 1 : b[j] = s[i + j - 1]
      BY <2>1, SubSeqProperties
    <2> HIDE DEF b
    <2>3. QED BY <1>1, <2>2
  <1>4. c \in Seq(S) /\ Len(c) = 1 /\ c[1] = e OBVIOUS
  <1>5. InsertAt(s, i, e) = a \o c \o b BY DEF InsertAt
  <1> HIDE DEF a, b, c
  <1> DEFINE ac == a \o c
             r == ac \o b
  <1>6. /\ ac \in Seq(S) /\ Len(ac) = (i - 1) + 1
        /\ \A j \in 1..(i - 1) + 1 : ac[j] = IF j <= i - 1 THEN a[j] ELSE c[j - (i - 1)]
    <2> DEFINE m == i - 1
               n == 1
    <2>1. Len(a) = m /\ Len(c) = n BY <1>2, <1>4
    <2> HIDE DEF m, n
    <2>2. /\ ac \in Seq(S) /\ Len(ac) = m + n
          /\ \A j \in 1..m + n : ac[j] = IF j <= m THEN a[j] ELSE c[j - m]
      BY <1>2, <1>4, <2>1, Concatenated
    <2> HIDE DEF ac
    <2>3. QED BY <2>2 DEF m, n
  <1>7. r = InsertAt(s, i, e) BY <1>5
  <1> HIDE DEF ac
  <1>8. /\ r \in Seq(S) /\ Len(r) = i + (Len(s) - i + 1)
        /\ \A j \in 1..i + (Len(s) - i + 1) : r[j] = IF j <= i THEN ac[j] ELSE b[j - i]
    <2> DEFINE n == Len(s) - i + 1
    <2>0. ac \in Seq(S) /\ b \in Seq(S) BY <1>3, <1>6
    <2>1. Len(ac) = i /\ Len(b) = n BY <1>3, <1>6
    <2> HIDE DEF n
    <2>2. /\ r \in Seq(S) /\ Len(r) = i + n
          /\ \A j \in 1..i + n : r[j] = IF j <= i THEN ac[j] ELSE b[j - i]
      BY <2>0, <2>1, Concatenated
    <2> HIDE DEF r
    <2>3. QED BY <2>2 DEF n
  <1> HIDE DEF r
  <1>9. /\ Len(r) = Len(s) + 1
        /\ \A j \in 1..Len(s) + 1 : r[j] = IF j <= i THEN ac[j] ELSE b[j - i]
    BY <1>1, <1>8
  <1>10. r[i] = e BY <1>1, <1>4, <1>6, <1>9
  <1>11. ASSUME NEW j \in 1..i - 1 PROVE r[j] = s[j]
    <2>1. j \in 1..Len(s) + 1 /\ j <= i BY <1>1
    <2>2. r[j] = ac[j] BY <1>9, <2>1
    <2>3. QED BY <1>1, <1>2, <1>6, <2>2
  <1>12. ASSUME NEW j \in i + 1..Len(s) + 1 PROVE r[j] = s[j - 1]
    <2>1. j - i \in 1..Len(s) - i + 1 /\ i + (j - i) - 1 = j - 1 BY <1>1
    <2>2. b[j - i] = s[i + (j - i) - 1] BY <1>3, <2>1
    <2>3. QED BY <1>1, <1>9, <2>1, <2>2
  <1>13. QED BY <1>7, <1>8, <1>9, <1>10, <1>11, <1>12

LEMMA RemoveAtFacts ==
  ASSUME NEW S, NEW s \in Seq(S), NEW i \in 1..Len(s)
  PROVE  /\ RemoveAt(s, i) \in Seq(S) /\ Len(RemoveAt(s, i)) = Len(s) - 1
         /\ \A j \in 1..i - 1 : RemoveAt(s, i)[j] = s[j]
         /\ \A j \in i..Len(s) - 1 : RemoveAt(s, i)[j] = s[j + 1]
  <1> DEFINE a == SubSeq(s, 1, i - 1)
             b == SubSeq(s, i + 1, Len(s))
  <1>1. Len(s) \in Nat /\ \A j \in 1..Len(s) : s[j] \in S BY LenProperties, ElementOfSeq
  <1>2. a \in Seq(S) /\ Len(a) = i - 1 /\ \A j \in 1..i - 1 : a[j] = s[j]
    <2>1. 1 \in Int /\ i - 1 \in Int /\ \A j \in 1..i - 1 : s[j] \in S BY <1>1
    <2>2. /\ a \in Seq(S) /\ Len(a) = IF 1 <= i - 1 THEN (i - 1) - 1 + 1 ELSE 0
          /\ \A j \in 1..(i - 1) - 1 + 1 : a[j] = s[1 + j - 1]
      BY <2>1, SubSeqProperties
    <2> HIDE DEF a
    <2>3. QED BY <1>1, <2>2
  <1>3. b \in Seq(S) /\ Len(b) = Len(s) - i /\ \A j \in 1..Len(s) - i : b[j] = s[i + j]
    <2>1. Len(s) \in Int /\ i + 1 \in Int /\ \A j \in i + 1..Len(s) : s[j] \in S BY <1>1
    <2>2. /\ b \in Seq(S) /\ Len(b) = IF i + 1 <= Len(s) THEN Len(s) - (i + 1) + 1 ELSE 0
          /\ \A j \in 1..Len(s) - (i + 1) + 1 : b[j] = s[(i + 1) + j - 1]
      BY <2>1, SubSeqProperties
    <2> HIDE DEF b
    <2>3. Len(b) = Len(s) - i BY <1>1, <2>2
    <2>4. ASSUME NEW j \in 1..Len(s) - i PROVE b[j] = s[i + j]
      <3>1. j \in 1..Len(s) - (i + 1) + 1 /\ (i + 1) + j - 1 = i + j BY <1>1
      <3>2. b[j] = s[(i + 1) + j - 1] BY <2>2, <3>1
      <3>3. QED BY <3>1, <3>2
    <2>5. QED BY <2>2, <2>3, <2>4
  <1>4. RemoveAt(s, i) = a \o b BY DEF RemoveAt
  <1> HIDE DEF a, b
  <1> DEFINE r == a \o b
  <1>5. /\ r \in Seq(S) /\ Len(r) = (i - 1) + (Len(s) - i)
        /\ \A j \in 1..(i - 1) + (Len(s) - i) :
             r[j] = IF j <= i - 1 THEN a[j] ELSE b[j - (i - 1)]
    <2>1. a \in Seq(S) /\ b \in Seq(S) BY <1>2, <1>3
    <2>2. /\ a \o b \in Seq(S) /\ Len(a \o b) = Len(a) + Len(b)
          /\ \A j \in 1..Len(a) + Len(b) : (a \o b)[j] = IF j <= Len(a) THEN a[j] ELSE b[j - Len(a)]
      BY <2>1, ConcatProperties
    <2>3. Len(a) = i - 1 /\ Len(b) = Len(s) - i BY <1>2, <1>3
    <2> HIDE DEF r
    <2>4. /\ r \in Seq(S) /\ Len(r) = Len(a) + Len(b)
          /\ \A j \in 1..Len(a) + Len(b) : r[j] = IF j <= Len(a) THEN a[j] ELSE b[j - Len(a)]
      BY <2>2 DEF r
    <2>5. QED BY <2>3, <2>4
  <1>0. r = RemoveAt(s, i) BY <1>4
  <1> HIDE DEF r
  <1>6. /\ Len(r) = Len(s) - 1
        /\ \A j \in 1..Len(s) - 1 : r[j] = IF j <= i - 1 THEN a[j] ELSE b[j - (i - 1)]
    <2>1. (i - 1) + (Len(s) - i) = Len(s) - 1 BY <1>1
    <2>2. QED BY <1>5, <2>1
  <1>7. ASSUME NEW j \in 1..i - 1 PROVE r[j] = s[j]
    <2>1. j \in 1..Len(s) - 1 /\ j <= i - 1 BY <1>1
    <2>2. QED BY <1>2, <1>6, <2>1
  <1>8. ASSUME NEW j \in i..Len(s) - 1 PROVE r[j] = s[j + 1]
    <2>1. j - (i - 1) \in 1..Len(s) - i /\ i + (j - (i - 1)) = j + 1 BY <1>1
    <2>2. b[j - (i - 1)] = s[i + (j - (i - 1))] BY <1>3, <2>1
    <2>3. j \in 1..Len(s) - 1 /\ ~(j <= i - 1) BY <1>1
    <2>4. r[j] = b[j - (i - 1)] BY <1>6, <2>3
    <2>5. QED BY <2>1, <2>2, <2>4
  <1>9. QED BY <1>0, <1>5, <1>6, <1>7, <1>8

-----------------------------------------------------------------------------
(* What the recursive definitions compute                                  *)

\* The function in the definition of Restricted() exists ...
LEMMA RestrictedDefined ==
  ASSUME NEW s, NEW A, Len(s) \in Nat
  PROVE  \E f : f = [k \in 0..Len(s) |->
                       IF k = 0 THEN <<>>
                       ELSE IF s[k] \in A THEN Append(f[k - 1], s[k]) ELSE f[k - 1]]
  <1> DEFINE N == Len(s)
             E(f, k) == IF k = 0 THEN <<>> ELSE IF s[k] \in A THEN Append(f[k - 1], s[k]) ELSE f[k - 1]
             T == {n \in 0..N : ~ \E f : f = [k \in 0..n |-> E(f, k)]}
  <1>1. CASE T = {}
    <2>1. N \in 0..N OBVIOUS
    <2>2. \E f : f = [k \in 0..N |-> E(f, k)]
      <3> HIDE DEF E, N
      <3>1. QED BY <1>1, <2>1
    <2>3. QED BY <2>2, Zenon
  <1>2. CASE T # {}
    <2>1. PICK n \in T : \A m \in T : n <= m
      <3>1. T \subseteq Nat OBVIOUS
      <3> HIDE DEF T
      <3>2. QED BY <1>2, <3>1, Least
    <2>2. \E f : \A k \in 0..n - 1 : f[k] = E(f, k)
      <3>1. CASE n = 0
        <4>1. 0..n - 1 = {} BY <3>1
        <4>2. QED BY <4>1
      <3>2. CASE n # 0
        <4>0. n - 1 \in 0..N /\ ~(n <= n - 1) BY <3>2
        <4>1. n - 1 \notin T
          <5> HIDE DEF T
          <5>1. QED BY <2>1, <4>0
        <4>2. PICK f : f = [k \in 0..n - 1 |-> E(f, k)]
          <5> HIDE DEF E
          <5>1. QED BY <4>0, <4>1
        <4> HIDE DEF E
        <4>3. \A k \in 0..n - 1 : f[k] = E(f, k) BY <4>2
        <4>4. QED BY <4>3
      <3>3. QED BY <3>1, <3>2
    <2>3. PICK f : \A k \in 0..n - 1 : f[k] = E(f, k) BY <2>2
    <2> DEFINE g == [k \in 0..n |-> IF k = n THEN E(f, n) ELSE f[k]]
    <2>4. ASSUME NEW k \in 0..n PROVE g[k] = E(g, k)
      <3>1. E(g, k) = E(f, k)
        <4>1. CASE k = 0 BY <4>1
        <4>2. CASE k # 0
          <5>1. k - 1 \in 0..n /\ k - 1 # n BY <4>2
          <5>2. g[k - 1] = f[k - 1] BY <5>1
          <5> HIDE DEF g
          <5>3. QED BY <5>2
        <4>3. QED BY <4>1, <4>2
      <3> HIDE DEF E
      <3>2. g[k] = E(f, k)
        <4>1. CASE k = n BY <4>1
        <4>2. CASE k # n
          <5>1. k \in 0..n - 1 BY <4>2
          <5>2. QED BY <2>3, <4>2, <5>1
        <4>3. QED BY <4>1, <4>2
      <3>3. QED BY <3>1, <3>2
    <2>5. DOMAIN g = 0..n /\ g = [k \in DOMAIN g |-> g[k]] OBVIOUS
    <2> HIDE DEF E, g
    <2>6. g = [k \in 0..n |-> E(g, k)] BY <2>4, <2>5
    <2>7. QED BY <2>1, <2>6
  <1>3. QED BY <1>1, <1>2

\* ... and keeps elements of s that are in A.
LEMMA RestrictedFacts ==
  ASSUME NEW S, NEW s \in Seq(S), NEW A
  PROVE  Restricted(s, A) \in Seq({s[j] : j \in 1..Len(s)} \cap A)
  <1> DEFINE B == {s[j] : j \in 1..Len(s)} \cap A
             N == Len(s)
             E(f, k) == IF k = 0 THEN <<>> ELSE IF s[k] \in A THEN Append(f[k - 1], s[k]) ELSE f[k - 1]
  <1>0. N \in Nat OBVIOUS
  <1>1. \E f : f = [k \in 0..Len(s) |->
                      IF k = 0 THEN <<>>
                      ELSE IF s[k] \in A THEN Append(f[k - 1], s[k]) ELSE f[k - 1]]
    BY <1>0, RestrictedDefined, Zenon
  <1>2. PICK h : h = [k \in 0..N |-> E(h, k)] /\ Restricted(s, A) = h[N]
    BY <1>1, Zenon DEF Restricted
  <1>3. \A k \in 0..N : h[k] = E(h, k)
    <2> HIDE DEF E
    <2>1. QED BY <1>2
  <1> DEFINE T == {k \in 0..N : h[k] \notin Seq(B)}
  <1>4. T = {}
    <2> SUFFICES ASSUME T # {} PROVE FALSE OBVIOUS
    <2>1. PICK k \in T : \A m \in T : k <= m
      <3>1. T \subseteq Nat BY <1>0
      <3> HIDE DEF T
      <3>2. QED BY <3>1, Least
    <2>2. CASE k = 0
      <3>1. h[k] = <<>> BY <1>3, <2>1, <2>2
      <3>2. <<>> \in Seq(B) BY EmptySeq
      <3>3. QED BY <2>1, <3>1, <3>2
    <2>3. CASE k # 0
      <3>1. k - 1 \in 0..N /\ k \in 0..N /\ k \in 1..Len(s) /\ k - 1 \notin T BY <1>0, <2>1, <2>3
      <3>2. h[k - 1] \in Seq(B) BY <3>1
      <3>3. h[k] = IF s[k] \in A THEN Append(h[k - 1], s[k]) ELSE h[k - 1] BY <1>3, <2>3, <3>1
      <3>4. s[k] \in A => s[k] \in B BY <3>1
      <3> HIDE DEF B
      <3>5. h[k] \in Seq(B) BY <3>2, <3>3, <3>4, AppendProperties
      <3>6. QED BY <2>1, <3>5
    <2>4. QED BY <2>2, <2>3
  <1>5. h[N] \in Seq(B) BY <1>0, <1>4
  <1>6. QED BY <1>2, <1>5

\* One message of a refresh: it is in its row, and the rows before are as they were.
LEMMA PlacedFacts ==
  ASSUME NEW S, NEW rs \in Seq(S), NEW k \in 1..Len(rs) + 1, NEW item \in S
  PROVE  /\ Placed(rs, k, item) \in Seq(S) /\ Len(Placed(rs, k, item)) >= k
         /\ Placed(rs, k, item)[k] = item
         /\ \A j \in 1..k - 1 : Placed(rs, k, item)[j] = rs[j]
  <1> DEFINE found == {i \in k..Len(rs) : rs[i].is = item.is}
  <1>0. Len(rs) \in Nat OBVIOUS
  <1>1. CASE found = {}
    <2>1. Placed(rs, k, item) = InsertAt(rs, k, item) BY <1>1 DEF Placed
    <2> HIDE DEF found
    <2>2. PICK r : r = InsertAt(rs, k, item) OBVIOUS
    <2>3. r \in Seq(S) /\ Len(r) = Len(rs) + 1 /\ r[k] = item /\ \A j \in 1..k - 1 : r[j] = rs[j]
      BY <2>2, InsertAtFacts
    <2>4. Len(r) >= k BY <1>0, <2>3
    <2>5. QED BY <2>1, <2>2, <2>3, <2>4
  <1>2. CASE found # {}
    <2> DEFINE i == CHOOSE n \in found : \A j \in found : n <= j
               rest == RemoveAt(rs, i)
    <2>1. \E n \in found : \A j \in found : n <= j
      <3>1. found \subseteq Nat BY <1>0
      <3> HIDE DEF found
      <3>2. QED BY <1>2, <3>1, Least
    <2>2. i \in found BY <2>1
    <2>3. Placed(rs, k, item) = InsertAt(rest, k, item) BY <1>2, Zenon DEF Placed
    <2>4. i \in 1..Len(rs) /\ k <= i BY <1>0, <2>2
    <2> HIDE DEF i, found
    <2>5. /\ rest \in Seq(S) /\ Len(rest) = Len(rs) - 1 /\ \A j \in 1..i - 1 : rest[j] = rs[j]
      BY <2>4, RemoveAtFacts
    <2> HIDE DEF rest
    <2>6. k \in 1..Len(rest) + 1 BY <1>0, <2>4, <2>5
    <2> DEFINE r == InsertAt(rest, k, item)
    <2>7. /\ r \in Seq(S) /\ Len(r) = Len(rest) + 1 /\ r[k] = item
          /\ \A j \in 1..k - 1 : r[j] = rest[j]
      BY <2>5, <2>6, InsertAtFacts
    <2> HIDE DEF r
    <2>8. ASSUME NEW j \in 1..k - 1 PROVE r[j] = rs[j]
      <3>1. j \in 1..i - 1 BY <1>0, <2>4
      <3>2. QED BY <2>5, <2>7, <3>1
    <2>9. Len(r) >= k BY <1>0, <2>5, <2>6, <2>7
    <2>10. QED BY <2>3, <2>7, <2>8, <2>9 DEF r
  <1>3. QED BY <1>1, <1>2

\* applyFetchedMessages() in place leaves the rows of the answer, whatever was shown:
\* what a reset would leave.
THEOREM RefreshIsReset ==
  ASSUME NEW S, NEW rs \in Seq(S), NEW incoming \in Seq(S)
  PROVE  Reconciled(rs, incoming) = incoming
  <1> DEFINE N == Len(incoming)
             E(f, k) == IF k = 0 THEN rs ELSE Placed(f[k - 1], k, incoming[k])
  <1>0. N \in Nat OBVIOUS
  <1>1. \E f : f = [k \in 0..Len(incoming) |->
                      IF k = 0 THEN rs ELSE Placed(f[k - 1], k, incoming[k])]
    <2> DEFINE U == {n \in 0..N : ~ \E f : f = [k \in 0..n |-> E(f, k)]}
    <2>1. CASE U = {}
      <3>1. N \in 0..N OBVIOUS
      <3>2. \E f : f = [k \in 0..N |-> E(f, k)]
        <4> HIDE DEF E, N
        <4>1. QED BY <2>1, <3>1
      <3>3. QED BY <3>2, Zenon
    <2>2. CASE U # {}
      <3>1. PICK n \in U : \A m \in U : n <= m
        <4>1. U \subseteq Nat OBVIOUS
        <4> HIDE DEF U
        <4>2. QED BY <2>2, <4>1, Least
      <3>2. \E f : \A k \in 0..n - 1 : f[k] = E(f, k)
        <4>1. CASE n = 0
          <5>1. 0..n - 1 = {} BY <4>1
          <5>2. QED BY <5>1
        <4>2. CASE n # 0
          <5>0. n - 1 \in 0..N /\ ~(n <= n - 1) BY <4>2
          <5>1. n - 1 \notin U
            <6> HIDE DEF U
            <6>1. QED BY <3>1, <5>0
          <5>2. PICK f : f = [k \in 0..n - 1 |-> E(f, k)]
            <6> HIDE DEF E
            <6>1. QED BY <5>0, <5>1
          <5> HIDE DEF E
          <5>3. \A k \in 0..n - 1 : f[k] = E(f, k) BY <5>2
          <5>4. QED BY <5>3
        <4>3. QED BY <4>1, <4>2
      <3>3. PICK f : \A k \in 0..n - 1 : f[k] = E(f, k) BY <3>2
      <3> DEFINE g == [k \in 0..n |-> IF k = n THEN E(f, n) ELSE f[k]]
      <3>4. ASSUME NEW k \in 0..n PROVE g[k] = E(g, k)
        <4>1. E(g, k) = E(f, k)
          <5>1. CASE k = 0 BY <5>1
          <5>2. CASE k # 0
            <6>1. k - 1 \in 0..n /\ k - 1 # n BY <5>2
            <6>2. g[k - 1] = f[k - 1] BY <6>1
            <6> HIDE DEF g
            <6>3. QED BY <6>2
          <5>3. QED BY <5>1, <5>2
        <4> HIDE DEF E
        <4>2. g[k] = E(f, k)
          <5>1. CASE k = n BY <5>1
          <5>2. CASE k # n
            <6>1. k \in 0..n - 1 BY <5>2
            <6>2. QED BY <3>3, <5>2, <6>1
          <5>3. QED BY <5>1, <5>2
        <4>3. QED BY <4>1, <4>2
      <3>5. DOMAIN g = 0..n /\ g = [k \in DOMAIN g |-> g[k]] OBVIOUS
      <3> HIDE DEF E, g
      <3>6. g = [k \in 0..n |-> E(g, k)] BY <3>4, <3>5
      <3>7. QED BY <3>1, <3>6
    <2>3. QED BY <2>1, <2>2
  <1>2. PICK h : h = [k \in 0..N |-> E(h, k)] /\ Reconciled(rs, incoming) = SubSeq(h[N], 1, N)
    BY <1>1, Zenon DEF Reconciled
  <1>3. \A k \in 0..N : h[k] = E(h, k)
    <2> HIDE DEF E
    <2>1. QED BY <1>2
  <1> DEFINE P(k) == h[k] \in Seq(S) /\ Len(h[k]) >= k /\ \A j \in 1..k : h[k][j] = incoming[j]
             T == {k \in 0..N : ~P(k)}
  <1>4. T = {}
    <2> SUFFICES ASSUME T # {} PROVE FALSE OBVIOUS
    <2>1. PICK k \in T : \A m \in T : k <= m
      <3>1. T \subseteq Nat BY <1>0
      <3> HIDE DEF T
      <3>2. QED BY <3>1, Least
    <2>2. CASE k = 0
      <3>1. h[k] = rs BY <1>3, <2>1, <2>2
      <3>2. P(k) BY <2>2, <3>1
      <3>3. QED BY <2>1, <3>2
    <2>3. CASE k # 0
      <3>0. k - 1 \in 0..N /\ k \in 0..N /\ k \in 1..N /\ ~(k <= k - 1) BY <1>0, <2>3
      <3>1. k - 1 \notin T
        <4> HIDE DEF T
        <4>1. QED BY <2>1, <3>0
      <3>2. P(k - 1)
        <4> HIDE DEF P
        <4>1. QED BY <3>0, <3>1
      <3> DEFINE b == h[k - 1]
      <3>3. h[k] = Placed(b, k, incoming[k]) BY <1>3, <2>3, <3>0
      <3>4. incoming[k] \in S BY <3>0, ElementOfSeq
      <3>5. b \in Seq(S) /\ k \in 1..Len(b) + 1 BY <1>0, <3>0, <3>2
      <3>6. \A j \in 1..k - 1 : b[j] = incoming[j] BY <3>2
      <3> DEFINE x == incoming[k]
                 r == Placed(b, k, x)
      <3>7. /\ h[k] \in Seq(S) /\ Len(h[k]) >= k /\ h[k][k] = incoming[k]
            /\ \A j \in 1..k - 1 : h[k][j] = b[j]
        <4> HIDE DEF b, E, T, x
        <4>1. x \in S BY <3>4 DEF x
        <4>2. r \in Seq(S) /\ Len(r) >= k /\ r[k] = x /\ \A j \in 1..k - 1 : r[j] = b[j]
          BY <3>5, <4>1, PlacedFacts
        <4>3. h[k] = r BY <3>3 DEF x
        <4>4. QED BY <4>2, <4>3 DEF x
      <3>8. \A j \in 1..k : h[k][j] = incoming[j] BY <1>0, <3>0, <3>6, <3>7
      <3>9. P(k) BY <3>7, <3>8
      <3>10. QED BY <2>1, <3>9
    <2>4. QED BY <2>2, <2>3
  <1>5. P(N) BY <1>0, <1>4
  <1> DEFINE t == h[N]
             cut == SubSeq(t, 1, N)
  <1>6. t \in Seq(S) /\ Len(t) >= N /\ \A j \in 1..N : t[j] = incoming[j] BY <1>5
  <1>7. Reconciled(rs, incoming) = cut BY <1>2
  <1> HIDE DEF t, P, T, E
  <1>8. \A j \in 1..N : t[j] \in S BY <1>6, ElementOfSeq
  <1>9. /\ cut \in Seq(S) /\ Len(cut) = IF 1 <= N THEN N - 1 + 1 ELSE 0
        /\ \A j \in 1..N - 1 + 1 : cut[j] = t[1 + j - 1]
    <2>1. 1 \in Int /\ N \in Int BY <1>0
    <2> HIDE DEF N
    <2>2. QED BY <1>8, <2>1, SubSeqProperties
  <1> HIDE DEF cut
  <1>10. Len(cut) = Len(incoming) /\ \A j \in 1..Len(cut) : cut[j] = incoming[j] BY <1>0, <1>6, <1>9
  <1>11. cut = incoming BY <1>9, <1>10, SeqEqual
  <1>12. QED BY <1>7, <1>11

-----------------------------------------------------------------------------
(* The inductive invariant of the message list                             *)

ResponseType == [page : {0, 1}, total : {0, Pages, LastPage}, asOf : Nat, rows : Seq(RowType)]
RequestType ==
  [id : Nat, conversation : Conversations, page : 1..LastPage, results : Seq(ResponseType),
   made : BOOLEAN, answered : BOOLEAN, asOf : Nat]

\* Messages of c that no fetch has to doubt: a message of the user was sent.
Kept(c) == {m \in Messages : At(m) = c /\ (m \in Own => core[m] = "sent")}
\* The answers a fetch of c may get: nothing, or its first page.
Proper(c) ==
  {x \in ResponseType :
     /\ x.page = 0 => x.rows = <<>>
     /\ x.page = 1 => Len(x.rows) >= 1 /\ x.rows[1].is = <<c, 1>>
     /\ \A i \in 1..Len(x.rows) : ~x.rows[i].sending /\ (i > 1 => x.rows[i].is \in Kept(c))}

RecipientInv == \A m \in Own : core[m] # "none" => recipient[m] \in Conversations
LogInv == \A c \in Conversations : log[c] \in Seq(Kept(c))
RequestOK(r) ==
  /\ r \in RequestType
  /\ r.id \in 0..fetchId
  /\ r.id = fetchId => r.conversation = active
  /\ r.answered => r.made
  /\ r.results \in Seq(Proper(r.conversation))
  /\ r.page > 1 => r.results = <<>>
RequestInv == \A r \in requests : RequestOK(r)

\* An answer for the conversation selected last is still to be handled, or the list
\* shows that conversation and nothing of another one or of a canceled upload.
DueOf(r) == r.id = fetchId => r.page = 1 /\ (r.made => r.results # <<>>)
Due == loading /\ \A r \in requests : DueOf(r)
CleanRow ==
  {x \in RowType : /\ At(x.is) = active
                   /\ x.is \in Files => core[x.is] \notin {"aborting", "canceled"}}
Clean == displayed = active /\ rows \in Seq(CleanRow)
CleanInv == Due \/ Clean

\* A message being sent has one row; the rows of one that was sent say so.
GoodRow ==
  {x \in RowType : x.is \in Own => /\ core[x.is] # "none"
                                   /\ core[x.is] = "sent" => ~x.sending}
Single(rs) ==
  \A i, j \in 1..Len(rs) :
    rs[i].is = rs[j].is /\ rs[i].is \in Own /\ core[rs[i].is] # "sent" => i = j
RowInv == rows \in Seq(GoodRow) /\ Single(rows)

\* The pages of c that rs shows are 1 to p.
Whole(rs, c, p) ==
  /\ \A i \in 1..Len(rs) : rs[i].is \notin Messages => rs[i].is \in {c} \X (1..p)
  /\ \A q \in 1..p : \E i \in 1..Len(rs) : rs[i].is \notin Messages /\ rs[i].is = <<c, q>>
  /\ \A i, j \in 1..Len(rs) :
       rs[i].is \notin Messages /\ rs[j].is \notin Messages /\ i < j => rs[i].is[2] > rs[j].is[2]
WholeInv == ~crossed => Whole(rows, displayed, page)

OlderInv ==
  /\ \A r, s \in OlderInFlight : r = s
  /\ OlderInFlight # {} => pending
  /\ ~crossed => \A r \in OlderInFlight : r.page = page + 1

UploadInv == \A m \in Files : core[m] \notin {"uploading", "aborting"} => uploads[m] # "uploading"

ListInv ==
  /\ ListTypeOK /\ RecipientInv /\ LogInv /\ UploadInv
  /\ RequestInv /\ OlderInv /\ WaitsAreAnswered
  /\ CleanInv /\ RowInv /\ WholeInv

-----------------------------------------------------------------------------
(* Records and sequences                                                   *)

LEMMA SeqWithin ==
  ASSUME NEW A, NEW B, NEW s \in Seq(A), A \subseteq B
  PROVE  s \in Seq(B)
  <1>1. \A i \in 1..Len(s) : s[i] \in B BY ElementOfSeq
  <1>2. QED BY <1>1, LenProperties, SeqDef

LEMMA RowMade ==
  ASSUME NEW x \in Tokens \cup Messages, NEW b \in BOOLEAN
  PROVE  [is |-> x, sending |-> b] \in RowType
  BY DEF RowType

LEMMA ResponseMade ==
  ASSUME NEW p \in {0, 1}, NEW t \in {0, Pages, LastPage}, NEW n \in Nat, NEW ms \in Seq(RowType)
  PROVE  Response(p, t, n, ms) \in ResponseType
  BY DEF Response, ResponseType

LEMMA TokenNoMessage ==
  ASSUME NEW c \in Conversations, NEW p \in 1..LastPage
  PROVE  <<c, p>> \in Tokens /\ <<c, p>> \notin Messages /\ At(<<c, p>>) = c
  <1>1. <<c, p>> \in Tokens BY DEF Tokens
  <1>2. <<c, p>> \notin Messages BY <1>1, ListAssumption DEF Tokens
  <1>3. <<c, p>> \notin Incoming /\ <<c, p>> \notin Own BY <1>2 DEF Messages
  <1>4. QED BY <1>1, <1>2, <1>3 DEF At

\* A first page, as the cache or the server gives it, is a proper answer.
LEMMA FirstPageProper ==
  ASSUME ListTypeOK, LogInv, NEW c \in Conversations, NEW N \in Nat, NEW A
  PROVE  FirstPage(c, N, A) \in Proper(c) /\ FirstPage(c, N, A).page = 1 /\ FirstPage(c, N, A).asOf = N
  <1> DEFINE t == Restricted(log[c], A)
             u == <<<<c, 1>>>>
             ms == u \o t
             rs == [i \in 1..Len(ms) |-> Row(ms[i])]
             B == {log[c][j] : j \in 1..Len(log[c])} \cap A
             X == Kept(c) \cup {<<c, 1>>}
  <1>1. log[c] \in Seq(Kept(c)) BY DEF LogInv
  <1>2. t \in Seq(B) BY <1>1, RestrictedFacts
  <1>3. B \subseteq Kept(c) BY <1>1, ElementOfSeq
  <1>4. 1 \in 1..LastPage BY ListAssumption DEF LastPage
  <1>5. <<c, 1>> \in Tokens BY <1>4, TokenNoMessage
  <1>6. u \in Seq(X) /\ Len(u) = 1 /\ u[1] = <<c, 1>> OBVIOUS
  <1>7. t \in Seq(Kept(c))
    <2> HIDE DEF t, B
    <2>1. QED BY <1>2, <1>3, SeqWithin
  <1>8. Kept(c) \subseteq X OBVIOUS
  <1>9. t \in Seq(X)
    <2> HIDE DEF t, B, X
    <2>1. QED BY <1>7, <1>8, SeqWithin
  <1>10. Len(t) \in Nat BY <1>9, LenProperties
  <1>11. \A j \in 1..Len(t) : t[j] \in Kept(c)
    <2> HIDE DEF t
    <2>1. QED BY <1>7, ElementOfSeq
  <1> DEFINE n == Len(t)
  <1>12. /\ ms \in Seq(X) /\ Len(ms) = 1 + n
         /\ \A j \in 1..1 + n : ms[j] = IF j <= 1 THEN u[j] ELSE t[j - 1]
    <2> DEFINE m == Len(u)
    <2>1. Len(t) = n /\ Len(u) = m OBVIOUS
    <2>2. m = 1 BY <1>6
    <2>3. u \in Seq(X) /\ t \in Seq(X) BY <1>6, <1>9
    <2> HIDE DEF t, u, X, n, m
    <2>4. /\ u \o t \in Seq(X) /\ Len(u \o t) = m + n
          /\ \A j \in 1..m + n : (u \o t)[j] = IF j <= m THEN u[j] ELSE t[j - m]
      BY <2>1, <2>3, Concatenated
    <2>5. QED BY <2>2, <2>4
  <1>13. n \in Nat /\ Len(ms) \in Nat BY <1>10, <1>12
  <1>14. ms[1] = <<c, 1>> /\ \A j \in 2..Len(ms) : ms[j] \in Kept(c)
    <2>0. \A j \in 1..n : t[j] \in Kept(c) BY <1>11
    <2> HIDE DEF ms, t, u, n
    <2>1. QED BY <1>6, <1>12, <1>13, <2>0
  <1> HIDE DEF ms, t, u, n
  <1>15. \A j \in 1..Len(ms) : ms[j] \in Tokens \cup Messages
    BY <1>5, <1>13, <1>14 DEF Kept
  <1>16. \A j \in 1..Len(ms) : Row(ms[j]) \in RowType
    BY <1>15, RowMade DEF Row
  <1>17. rs \in Seq(RowType) /\ Len(rs) = Len(ms) /\ \A j \in 1..Len(ms) : rs[j] = Row(ms[j])
    BY <1>13, <1>16, SeqDef, LenProperties
  <1>18. \A j \in 1..Len(ms) : rs[j].is = ms[j] /\ ~rs[j].sending
    BY <1>17 DEF Row
  <1>19. FirstPage(c, N, A) = Response(1, TotalPages(N), N, rs) BY DEF FirstPage, ms, t, u
  <1> DEFINE fp == Response(1, TotalPages(N), N, rs)
  <1>20. fp.page = 1 /\ fp.asOf = N /\ fp.rows = rs BY DEF Response
  <1> HIDE DEF rs
  <1>21. fp \in ResponseType
    <2>1. TotalPages(N) \in {0, Pages, LastPage} BY DEF TotalPages
    <2>2. QED BY <1>17, <2>1, ResponseMade
  <1> HIDE DEF fp
  <1>22. Len(fp.rows) >= 1 /\ fp.rows[1].is = <<c, 1>>
    BY <1>12, <1>13, <1>14, <1>17, <1>18, <1>20
  <1>23. \A i \in 1..Len(fp.rows) : ~fp.rows[i].sending /\ (i > 1 => fp.rows[i].is \in Kept(c))
    BY <1>13, <1>14, <1>17, <1>18, <1>20
  <1>24. fp \in Proper(c) BY <1>20, <1>21, <1>22, <1>23 DEF Proper
  <1>25. QED BY <1>19, <1>20, <1>24 DEF fp

LEMMA NoResponseProper ==
  ASSUME NEW c \in Conversations
  PROVE  NoResponse \in Proper(c) /\ NoResponse.page = 0
  <1>1. <<>> \in Seq(RowType) /\ Len(<<>>) = 0 BY EmptySeq
  <1>2. NoResponse \in ResponseType
    <2>1. 0 \in {0, 1} /\ 0 \in {0, Pages, LastPage} /\ 0 \in Nat OBVIOUS
    <2>2. QED BY <1>1, <2>1, ResponseMade DEF NoResponse
  <1>3. NoResponse.page = 0 /\ NoResponse.rows = <<>> BY DEF NoResponse, Response
  <1>4. 1..Len(NoResponse.rows) = {} BY <1>1, <1>3
  <1>5. QED BY <1>2, <1>3, <1>4 DEF Proper

-----------------------------------------------------------------------------
(* What a step leaves alone                                                *)

\* A message that was sent stays so, and one that has a recipient keeps it.
CoreStep ==
  \A m \in Own : /\ core[m] = "sent" => core'[m] = "sent"
                 /\ core[m] # "none" => core'[m] # "none" /\ recipient'[m] = recipient[m]

LEMMA CoreSame ==
  ASSUME UNCHANGED <<core, recipient>>
  PROVE  CoreStep
  BY DEF CoreStep

LEMMA KeptStable ==
  ASSUME CoreStep, NEW c
  PROVE  Kept(c) \subseteq Kept(c)'
  <1> SUFFICES ASSUME NEW m \in Kept(c) PROVE m \in Kept(c)'
    OBVIOUS
  <1>1. m \in Messages /\ At(m) = c /\ (m \in Own => core[m] = "sent") BY DEF Kept
  <1>2. CASE m \in Own
    <2>1. core'[m] = "sent" /\ recipient'[m] = recipient[m] BY <1>1, <1>2 DEF CoreStep
    <2>2. At(m)' = c BY <1>1, <2>1 DEF At
    <2>3. QED BY <1>1, <2>1, <2>2 DEF Kept
  <1>3. CASE m \notin Own
    <2>1. At(m)' = c BY <1>1, <1>3 DEF At
    <2>2. QED BY <1>1, <1>3, <2>1 DEF Kept
  <1>4. QED BY <1>2, <1>3

LEMMA ProperStable ==
  ASSUME CoreStep, NEW c
  PROVE  Proper(c) \subseteq Proper(c)'
  <1> SUFFICES ASSUME NEW x \in Proper(c) PROVE x \in Proper(c)'
    OBVIOUS
  <1>1. Kept(c) \subseteq Kept(c)' BY KeptStable
  <1>2. QED BY <1>1 DEF Proper

LEMMA RequestStable ==
  ASSUME CoreStep, NEW r, RequestOK(r),
         r.id \in 0..fetchId', r.id = fetchId' => r.conversation = active'
  PROVE  RequestOK(r)'
  <1> DEFINE c == r.conversation
  <1>1. r.results \in Seq(Proper(c)) BY DEF RequestOK
  <1>2. Proper(c) \subseteq Proper(c)' BY ProperStable
  <1>3. r.results \in Seq(Proper(c)')
    <2> DEFINE A == Proper(c)
               B == Proper(c)'
    <2>1. r.results \in Seq(A) /\ A \subseteq B BY <1>1, <1>2
    <2>2. r.results \in Seq(B)
      <3> HIDE DEF A, B
      <3>1. QED BY <2>1, SeqWithin
    <2>3. QED BY <2>2
  <1>4. r.results \in Seq(Proper(c))' BY <1>3
  <1>5. QED BY <1>4 DEF RequestOK

LEMMA LogStable ==
  ASSUME CoreStep, LogInv, NEW c \in Conversations
  PROVE  log[c] \in Seq(Kept(c)')
  <1> DEFINE A == Kept(c)
             B == Kept(c)'
  <1>1. log[c] \in Seq(A) BY DEF LogInv
  <1>2. A \subseteq B BY KeptStable
  <1>3. log[c] \in Seq(B)
    <2> HIDE DEF A, B
    <2>1. QED BY <1>1, <1>2, SeqWithin
  <1>4. QED BY <1>3

\* Requests that stay as they are.
LEMMA RequestStays ==
  ASSUME CoreStep, UNCHANGED <<fetchId, active>>, RequestInv, NEW r \in requests
  PROVE  RequestOK(r) /\ RequestOK(r)'
  <1>1. RequestOK(r) BY DEF RequestInv
  <1>2. r.id \in 0..fetchId' /\ (r.id = fetchId' => r.conversation = active') BY <1>1 DEF RequestOK
  <1>3. QED BY <1>1, <1>2, RequestStable

\* Steps that are none of a fetch's.
LEMMA FetchesStay ==
  ASSUME CoreStep,
         UNCHANGED <<active, displayed, fetchId, loading, page, requests, pending, resumed, crossed>>,
         RequestInv, OlderInv, WaitsAreAnswered
  PROVE  RequestInv' /\ OlderInv' /\ WaitsAreAnswered' /\ (Due => Due')
  <1>1. RequestInv'
    <2>1. ASSUME NEW r \in requests PROVE RequestOK(r)' BY RequestStays
    <2>2. QED BY <2>1 DEF RequestInv
  <1>2. OlderInFlight' = OlderInFlight BY DEF OlderInFlight
  <1>3. OlderInv' BY <1>2 DEF OlderInv
  <1>4. WaitsAreAnswered' BY <1>2 DEF WaitsAreAnswered
  <1>5. Due => Due' BY DEF Due, DueOf
  <1>6. QED BY <1>1, <1>3, <1>4, <1>5

\* Steps that are a fetch's.
LEMMA SendingStays ==
  ASSUME UNCHANGED <<sending, world>>, ListTypeOK, RecipientInv, LogInv, UploadInv
  PROVE  RecipientInv' /\ LogInv' /\ UploadInv'
  <1> USE DEF sending, world
  <1>1. RecipientInv' BY DEF RecipientInv
  <1>2. UploadInv' BY DEF UploadInv
  <1>3. ASSUME NEW c \in Conversations PROVE (log[c] \in Seq(Kept(c)))'
    <2>1. CoreStep BY CoreSame
    <2>2. log[c] \in Seq(Kept(c)') BY <2>1, LogStable
    <2>3. QED BY <2>2
  <1>4. LogInv' BY <1>3 DEF LogInv
  <1>5. QED BY <1>1, <1>2, <1>4

\* Rows as they were stay good, clean, single and whole.
LEMMA RowsStay ==
  ASSUME UNCHANGED <<rows, core, recipient>>, RowInv
  PROVE  /\ RowInv' /\ (UNCHANGED <<active, displayed>> /\ Clean => Clean')
         /\ (UNCHANGED <<displayed, page, crossed>> /\ WholeInv => WholeInv')
  <1>1. GoodRow' = GoodRow BY DEF GoodRow
  <1>2. Single(rows)' BY DEF RowInv, Single
  <1>3. RowInv' BY <1>1, <1>2 DEF RowInv
  <1>4. ASSUME UNCHANGED <<active, displayed>>, Clean PROVE Clean'
    <2>1. \A x : At(x)' = At(x) BY DEF At
    <2>2. CleanRow' = CleanRow BY <1>4, <2>1 DEF CleanRow
    <2>3. QED BY <1>4, <2>2 DEF Clean
  <1>5. ASSUME UNCHANGED <<displayed, page, crossed>>, WholeInv PROVE WholeInv'
    BY <1>5 DEF WholeInv, Whole
  <1>6. QED BY <1>3, <1>4, <1>5

-----------------------------------------------------------------------------
(* Fetches                                                                 *)

LEMMA ListStarts ==
  ASSUME ListInit
  PROVE  ListInv
  <1> USE DEF ListInit
  <1>0. Len(<<>>) = 0 /\ (\A A : <<>> \in Seq(A)) BY EmptySeq
  <1>1. ListTypeOK
    <2>1. rows \in Seq([is : Tokens \cup Messages, sending : BOOLEAN]) BY <1>0
    <2>2. log \in [Conversations -> Seq(Messages)] BY <1>0
    <2>3. fetchId \in 0..MaxFetches /\ page \in 0..LastPage BY ListAssumption DEF LastPage
    <2>4. asOf \in [1..LastPage -> Nat] /\ count \in [Conversations -> Nat] OBVIOUS
    <2>5. QED BY <2>1, <2>2, <2>3, <2>4 DEF ListTypeOK
  <1>2. RecipientInv /\ UploadInv BY DEF RecipientInv, UploadInv
  <1>3. LogInv BY <1>0 DEF LogInv
  <1>4. OlderInFlight = {} BY DEF OlderInFlight
  <1>5. RequestInv /\ OlderInv /\ WaitsAreAnswered BY <1>4 DEF RequestInv, OlderInv, WaitsAreAnswered
  <1>6. Clean BY <1>0 DEF Clean
  <1>7. 1..Len(rows) = {} BY <1>0
  <1>8. RowInv BY <1>0, <1>7 DEF RowInv, Single
  <1>9. 1..page = {} OBVIOUS
  <1>10. WholeInv BY <1>7, <1>9 DEF WholeInv, Whole
  <1>11. QED BY <1>1, <1>2, <1>3, <1>5, <1>6, <1>8, <1>10 DEF ListInv, CleanInv

LEMMA RequestMade ==
  ASSUME NEW c \in Conversations, NEW p \in 1..LastPage, NEW rs \in Seq(Proper(c)'),
         fetchId' \in Nat, active' = c, p > 1 => rs = <<>>,
         NEW r, r = Request(c, p, rs)
  PROVE  /\ RequestOK(r)' /\ r.id = fetchId' /\ r.page = p
         /\ (r.made => r.results # <<>>)
  <1>1. /\ r.id = fetchId' /\ r.page = p /\ r.conversation = c /\ r.results = rs
        /\ r.made = (rs # <<>>) /\ r.answered = FALSE /\ r.asOf = 0
    BY DEF Request
  <1>2. Proper(c)' \subseteq ResponseType BY DEF Proper
  <1>3. rs \in Seq(ResponseType) BY <1>2, SeqWithin
  <1>4. (rs # <<>>) \in BOOLEAN OBVIOUS
  <1>5. r \in RequestType BY <1>3, <1>4 DEF Request, RequestType
  <1>6. fetchId' \in 0..fetchId' OBVIOUS
  <1>7. r.results \in Seq(Proper(r.conversation))' BY <1>1
  <1>8. RequestOK(r)' BY <1>1, <1>5, <1>6, <1>7 DEF RequestOK
  <1>9. QED BY <1>1, <1>8

LEMMA FetchMessageKeeps ==
  ASSUME ListInv, NEW c \in Conversations, FetchMessage(c)
  PROVE  ListInv'
  <1> USE DEF ListInv
  <1>0. fetchId \in Nat /\ fetchId' = fetchId + 1 /\ fetchId' \in 0..MaxFetches
    BY ListAssumption DEF ListTypeOK, FetchMessage
  <1>1. /\ core' \in [Own -> {"none", "uploading", "aborting", "sending", "sent", "failed", "canceled"}]
        /\ \A m \in Own : core'[m] = core[m] \/ (core[m] = "uploading" /\ core'[m] = "aborting")
    BY DEF FetchMessage, ListTypeOK
  <1>2. CoreStep BY <1>1 DEF CoreStep, FetchMessage
  <1>3. /\ UNCHANGED <<displayed, rows, page, total, asOf, uploads, recipient, heard, log, stored, count, pending, crossed>>
        /\ active' = c /\ loading' = TRUE /\ resumed' = (resumed \/ (pending /\ c = displayed))
    BY DEF FetchMessage, world
  <1>4. resumed' \in BOOLEAN BY <1>3 DEF ListTypeOK
  <1>5. ListTypeOK' BY <1>0, <1>1, <1>3, <1>4 DEF ListTypeOK
  <1>6. RecipientInv'
    <2>1. \A m \in Own : core'[m] # "none" => core[m] # "none" BY <1>1
    <2>2. QED BY <1>3, <2>1 DEF RecipientInv
  <1>7. UploadInv'
    <2>1. \A m \in Own : core'[m] \notin {"uploading", "aborting"} => core[m] \notin {"uploading", "aborting"}
      BY <1>1
    <2>2. QED BY <1>3, <2>1 DEF UploadInv, Own
  <1>8. LogInv'
    <2>1. ASSUME NEW d \in Conversations PROVE (log[d] \in Seq(Kept(d)))'
      BY <1>2, <1>3, LogStable
    <2>2. QED BY <2>1 DEF LogInv
  <1>9. PICK rs : rs \in Seq(Proper(c)) /\ requests' = requests \cup {Request(c, 1, rs)}
    <2>1. CASE requests' = requests \cup {Request(c, 1, <<>>)}
      <3>1. <<>> \in Seq(Proper(c)) BY EmptySeq
      <3>2. QED BY <2>1, <3>1
    <2>2. CASE \E n \in 0..count[c], A \in {Cached(c), ToSet(log[c])} :
                 requests' = requests \cup {Request(c, 1, <<FirstPage(c, n, A)>>)}
      <3>1. PICK n \in 0..count[c], A \in {Cached(c), ToSet(log[c])} :
                 requests' = requests \cup {Request(c, 1, <<FirstPage(c, n, A)>>)}
        BY <2>2
      <3>2. FirstPage(c, n, A) \in Proper(c) BY FirstPageProper
      <3>3. <<FirstPage(c, n, A)>> \in Seq(Proper(c)) BY <3>2
      <3>4. QED BY <3>1, <3>3
    <2>3. QED BY <2>1, <2>2 DEF FetchMessage
  <1>10. rs \in Seq(Proper(c)')
    <2> DEFINE A == Proper(c)
               B == Proper(c)'
    <2>1. rs \in Seq(A) /\ A \subseteq B BY <1>2, <1>9, ProperStable
    <2>2. rs \in Seq(B)
      <3> HIDE DEF A, B
      <3>1. QED BY <2>1, SeqWithin
    <2>3. QED BY <2>2
  <1>101. PICK new : new = Request(c, 1, rs) OBVIOUS
  <1>11. /\ RequestOK(new)' /\ new.id = fetchId' /\ new.page = 1 /\ (new.made => new.results # <<>>)
    <2>1. 1 \in 1..LastPage /\ ~(1 > 1) BY ListAssumption DEF LastPage
    <2>2. fetchId' \in Nat BY <1>0
    <2>3. QED BY <1>3, <1>10, <1>101, <2>1, <2>2, RequestMade
  <1>12. requests' = requests \cup {new} BY <1>9, <1>101
  <1>13. ASSUME NEW r \in requests PROVE r.id # fetchId' /\ RequestOK(r)'
    <2>1. RequestOK(r) BY DEF RequestInv
    <2>2. r.id # fetchId' /\ r.id \in 0..fetchId' BY <1>0, <2>1 DEF RequestOK
    <2>3. QED BY <1>2, <2>1, <2>2, RequestStable
  <1>14. RequestInv' BY <1>11, <1>12, <1>13 DEF RequestInv
  <1>15. OlderInFlight' = {}
    <2>1. ASSUME NEW r \in requests' PROVE ~(r.page > 1 /\ r.id = fetchId') BY <1>11, <1>12, <1>13
    <2>2. QED BY <2>1 DEF OlderInFlight
  <1>16. OlderInv' BY <1>15 DEF OlderInv
  <1>17. Due'
    <2>1. ASSUME NEW r \in requests' PROVE DueOf(r)' BY <1>11, <1>12, <1>13 DEF DueOf
    <2>2. QED BY <1>3, <2>1 DEF Due
  <1>18. WaitsAreAnswered'
    <2>1. new \in requests' BY <1>12
    <2>2. (loading => \E r \in requests : r.id = fetchId)' BY <1>11, <2>1
    <2>3. ASSUME pending', ~resumed' PROVE loading' /\ displayed' # active' BY <1>3, <2>3
    <2>4. QED BY <2>2, <2>3 DEF WaitsAreAnswered
  <1>19. RowInv'
    <2>1. rows \in Seq(GoodRow) /\ Single(rows) BY DEF RowInv
    <2>2. GoodRow \subseteq GoodRow'
      <3>1. \A m \in Own : (core[m] # "none" => core'[m] # "none") /\ (core'[m] = "sent" => core[m] = "sent")
        BY <1>1
      <3>2. QED BY <3>1 DEF GoodRow
    <2>3. rows' \in Seq(GoodRow')
      <3> DEFINE A == GoodRow
                 B == GoodRow'
      <3>1. rows \in Seq(A) /\ A \subseteq B BY <2>1, <2>2
      <3>2. rows \in Seq(B)
        <4> HIDE DEF A, B
        <4>1. QED BY <3>1, SeqWithin
      <3>3. QED BY <1>3, <3>2
    <2>4. Single(rows)'
      <3>1. \A m \in Own : core'[m] # "sent" => core[m] # "sent" BY <1>1
      <3>2. QED BY <1>3, <2>1, <3>1 DEF Single
    <2>5. QED BY <2>3, <2>4 DEF RowInv
  <1>20. WholeInv' BY <1>3 DEF WholeInv, Whole
  <1>21. QED BY <1>5, <1>6, <1>7, <1>8, <1>14, <1>16, <1>17, <1>18, <1>19, <1>20 DEF CleanInv

\* A step of a fetch, but for what it does to the fetches and to the list.
LEMMA FetchStep ==
  ASSUME ListInv, UNCHANGED <<sending, world, active, fetchId>>
  PROVE  /\ CoreStep /\ RecipientInv' /\ LogInv' /\ UploadInv'
         /\ \A r \in requests : RequestOK(r) /\ RequestOK(r)'
  <1>1. CoreStep BY CoreSame DEF sending
  <1>2. RecipientInv' /\ LogInv' /\ UploadInv' BY SendingStays DEF ListInv
  <1>3. \A r \in requests : RequestOK(r) /\ RequestOK(r)' BY <1>1, RequestStays DEF ListInv
  <1>4. QED BY <1>1, <1>2, <1>3

LEMMA OlderRequestMade ==
  ASSUME active \in Conversations, page + 1 \in 1..LastPage, fetchId' \in Nat, active' = active,
         NEW r, r = Request(active, page + 1, <<>>)
  PROVE  RequestOK(r)' /\ r.id = fetchId' /\ r.page = page + 1
  <1> DEFINE c == active
             p == page + 1
             e == <<>>
  <1>1. e \in Seq(Proper(r.conversation)') BY EmptySeq
  <1>2. /\ r.id = fetchId' /\ r.page = p /\ r.conversation = c /\ r.results = e
        /\ r.made = FALSE /\ r.answered = FALSE /\ r.asOf = 0
    BY DEF Request
  <1>3. e \in Seq(ResponseType) BY EmptySeq
  <1>4. r \in RequestType BY <1>3 DEF Request, RequestType
  <1>5. fetchId' \in 0..fetchId' OBVIOUS
  <1>6. r.results \in Seq(Proper(r.conversation))' BY <1>1, <1>2
  <1>7. RequestOK(r)' BY <1>2, <1>4, <1>5, <1>6 DEF RequestOK
  <1>8. QED BY <1>2, <1>7

\* What is not due is clean.
LEMMA FetchNextKeeps ==
  ASSUME ListInv, FetchNextMessage
  PROVE  ListInv'
  <1> USE DEF ListInv
  <1>0. /\ UNCHANGED <<active, displayed, fetchId, rows, page, total, asOf, sending, world, resumed, crossed>>
        /\ displayed # None /\ ~loading /\ ~pending
    BY DEF FetchNextMessage, CanRequestOlder
  <1>1. /\ CoreStep /\ RecipientInv' /\ LogInv' /\ UploadInv'
        /\ \A r \in requests : RequestOK(r) /\ RequestOK(r)'
    BY <1>0, FetchStep
  <1>2. Clean BY <1>0 DEF CleanInv, Due
  <1>3. UNCHANGED <<core, recipient, uploads, heard, log, stored, count>> BY <1>0 DEF sending, world
  <1>4. RowInv' /\ Clean' /\ WholeInv' BY <1>0, <1>2, <1>3, RowsStay
  <1>5. CASE page < 1 \/ page >= total
    <2>1. UNCHANGED <<requests, loading>> /\ pending' = FALSE BY <1>5 DEF FetchNextMessage
    <2>2. UNCHANGED pending BY <1>0, <2>1 DEF ListTypeOK
    <2>3. ListTypeOK' BY <1>0, <1>3, <2>1, <2>2 DEF ListTypeOK
    <2>4. RequestInv' /\ OlderInv' /\ WaitsAreAnswered' BY <1>0, <1>1, <2>1, <2>2, FetchesStay
    <2>5. QED BY <1>1, <1>4, <2>3, <2>4 DEF CleanInv
  <1>6. CASE ~(page < 1 \/ page >= total)
    <2>1. /\ pending' = TRUE /\ loading' = TRUE
          /\ requests' = requests \cup {Request(active, page + 1, <<>>)}
      BY <1>6 DEF FetchNextMessage
    <2>2. active \in Conversations BY <1>0, <1>2 DEF Clean, ListTypeOK
    <2>3. page + 1 \in 1..LastPage /\ page + 1 > 1 BY <1>6, ListAssumption DEF ListTypeOK, LastPage
    <2>4. PICK new : new = Request(active, page + 1, <<>>) OBVIOUS
    <2>5. fetchId' \in Nat BY <1>0 DEF ListTypeOK
    <2>6. RequestOK(new)' /\ new.id = fetchId' /\ new.page = page + 1
      <3>1. active' = active BY <1>0
      <3>2. QED BY <2>2, <2>3, <2>4, <2>5, <3>1, OlderRequestMade
    <2>7. requests' = requests \cup {new} BY <2>1, <2>4
    <2>8. RequestInv' BY <1>1, <2>6, <2>7 DEF RequestInv
    <2>9. OlderInFlight = {} BY <1>0 DEF OlderInv
    <2>10. OlderInFlight' = {new}
      <3>1. \A r \in requests : ~(r.page > 1 /\ r.id = fetchId) BY <2>9 DEF OlderInFlight
      <3>2. OlderInFlight' = {r \in requests' : r.page > 1 /\ r.id = fetchId'} BY DEF OlderInFlight
      <3>3. QED BY <1>0, <2>3, <2>6, <2>7, <3>1, <3>2
    <2>11. OlderInv' BY <1>0, <2>1, <2>6, <2>10 DEF OlderInv
    <2>12. WaitsAreAnswered'
      <3>1. new \in requests' BY <2>7
      <3>2. QED BY <2>6, <2>10, <3>1 DEF WaitsAreAnswered
    <2>13. ListTypeOK' BY <1>0, <1>3, <2>1 DEF ListTypeOK
    <2>14. QED BY <1>1, <1>4, <2>8, <2>11, <2>12, <2>13 DEF CleanInv
  <1>7. QED BY <1>5, <1>6

\* A first page's request, replaced by one with the same identity.
LEMMA FirstReplaced ==
  ASSUME NEW r \in requests, NEW s, r.page = 1, s.page = 1, s.id = r.id,
         requests' = (requests \ {r}) \cup {s}, UNCHANGED fetchId
  PROVE  /\ OlderInFlight' = OlderInFlight
         /\ (\E q \in requests : q.id = fetchId) => (\E q \in requests : q.id = fetchId)'
  <1>1. ~(1 > 1) OBVIOUS
  <1>2. OlderInFlight' = {q \in requests' : q.page > 1 /\ q.id = fetchId} BY DEF OlderInFlight
  <1>3. OlderInFlight' = OlderInFlight BY <1>1, <1>2 DEF OlderInFlight
  <1>4. ASSUME NEW q \in requests, q.id = fetchId PROVE \E p \in requests' : p.id = fetchId'
    <2>1. CASE q = r BY <1>4, <2>1
    <2>2. CASE q # r BY <1>4, <2>2
    <2>3. QED BY <2>1, <2>2
  <1>5. QED BY <1>3, <1>4

\* The responses a first page's request gets.
LEMMA AnswerKeeps ==
  ASSUME ListInv, NEW r \in requests, Answer(r)
  PROVE  ListInv'
  <1> USE DEF ListInv
  <1>0. UNCHANGED <<shown, sending, world, pending, resumed, crossed>> /\ r.page = 1 BY DEF Answer
  <1>1. /\ UNCHANGED <<active, displayed, fetchId, loading, rows, page, total, asOf>>
        /\ UNCHANGED <<core, recipient, uploads, heard, log, stored, count, pending, resumed, crossed>>
    BY <1>0 DEF shown, sending, world
  <1>2. /\ CoreStep /\ RecipientInv' /\ LogInv' /\ UploadInv'
        /\ \A q \in requests : RequestOK(q) /\ RequestOK(q)'
    BY <1>0, <1>1, FetchStep
  <1>3. RowInv' /\ (Clean => Clean') /\ WholeInv' BY <1>1, RowsStay
  <1>4. ListTypeOK' BY <1>1 DEF ListTypeOK
  <1> DEFINE c == r.conversation
  <1>5. r \in RequestType /\ c \in Conversations /\ r.results \in Seq(Proper(c))
    BY <1>2 DEF RequestOK, RequestType
  <1>6. PICK more \in {<<>>, <<FirstPage(c, count[c], stored)>>} :
          requests' = (requests \ {r}) \cup
            {[r EXCEPT !.answered = TRUE, !.made = TRUE,
                       !.results = @ \o IF more = <<>> /\ ~r.made THEN <<NoResponse>> ELSE more]}
    BY DEF Answer
  <1> DEFINE x == IF more = <<>> /\ ~r.made THEN <<NoResponse>> ELSE more
             y == r.results \o x
             s == [r EXCEPT !.answered = TRUE, !.made = TRUE, !.results = y]
  <1>7. x \in Seq(Proper(c))
    <2>1. FirstPage(c, count[c], stored) \in Proper(c)
      <3>1. count[c] \in Nat BY <1>5 DEF ListTypeOK
      <3>2. QED BY <1>5, <3>1, FirstPageProper
    <2>2. NoResponse \in Proper(c) BY <1>5, NoResponseProper
    <2>3. <<NoResponse>> \in Seq(Proper(c)) BY <2>2
    <2>4. <<FirstPage(c, count[c], stored)>> \in Seq(Proper(c)) BY <2>1
    <2>5. <<>> \in Seq(Proper(c)) BY EmptySeq
    <2>6. QED BY <2>3, <2>4, <2>5
  <1>8. requests' = (requests \ {r}) \cup {s} BY <1>6, Zenon
  <1>9. x # <<>> \/ r.made
    <2>1. <<NoResponse>> # <<>> OBVIOUS
    <2>2. QED BY <2>1
  <1> HIDE DEF x
  <1>10. y \in Seq(Proper(c)) BY <1>5, <1>7, ConcatProperties
  <1>11. r.results # <<>> \/ x # <<>> => y # <<>>
    <2> DEFINE a == r.results
    <2>1. a \in Seq(Proper(c)) BY <1>5
    <2> HIDE DEF a
    <2>2. a # <<>> \/ x # <<>> => a \o x # <<>> BY <1>7, <2>1, ConcatEqualIffEmpty, EmptySeq, ConcatProperties
    <2>3. QED BY <2>2 DEF a
  <1> HIDE DEF y
  <1>12. Proper(c) \subseteq ResponseType BY DEF Proper
  <1>13. y \in Seq(ResponseType) BY <1>10, <1>12, SeqWithin
  <1>14. /\ s.id = r.id /\ s.page = r.page /\ s.conversation = c /\ s.results = y
         /\ s.made = TRUE /\ s.answered = TRUE /\ s \in RequestType
    BY <1>5, <1>13 DEF RequestType
  <1> HIDE DEF s
  <1>15. RequestOK(s)
    <2>1. RequestOK(r) BY <1>2
    <2>2. s.results \in Seq(Proper(s.conversation)) BY <1>10, <1>14
    <2>3. ~(s.page > 1) BY <1>0, <1>14
    <2>4. QED BY <1>14, <2>1, <2>2, <2>3 DEF RequestOK
  <1>16. RequestOK(s)'
    <2>1. s.id \in 0..fetchId' /\ (s.id = fetchId' => s.conversation = active') BY <1>1, <1>15 DEF RequestOK
    <2>2. QED BY <1>2, <1>15, <2>1, RequestStable
  <1>17. RequestInv' BY <1>2, <1>8, <1>16 DEF RequestInv
  <1>18. /\ OlderInFlight' = OlderInFlight
         /\ (\E q \in requests : q.id = fetchId) => (\E q \in requests : q.id = fetchId)'
    BY <1>0, <1>1, <1>8, <1>14, FirstReplaced
  <1>19. OlderInv' BY <1>1, <1>18 DEF OlderInv
  <1>20. WaitsAreAnswered' BY <1>1, <1>18 DEF WaitsAreAnswered
  <1>21. ASSUME Due PROVE Due'
    <2>1. DueOf(r) BY <1>21 DEF Due
    <2>2. DueOf(s)' BY <1>0, <1>1, <1>9, <1>11, <1>14, <2>1 DEF DueOf
    <2>3. \A q \in requests : DueOf(q)' BY <1>1, <1>21 DEF Due, DueOf
    <2>4. QED BY <1>1, <1>8, <1>21, <2>2, <2>3 DEF Due
  <1>22. CleanInv' BY <1>3, <1>21 DEF CleanInv
  <1>23. QED BY <1>2, <1>3, <1>4, <1>17, <1>19, <1>20, <1>22

\* An older page was read: the request is the same one but for that.
WasRead(r, n) == [r EXCEPT !.answered = TRUE, !.made = TRUE, !.asOf = n]

LEMMA OlderAnswered ==
  ASSUME NEW r, RequestOK(r), r.page > 1, NEW n \in Nat, NEW s, s = WasRead(r, n)
  PROVE  /\ RequestOK(s) /\ s.id = r.id /\ s.page = r.page /\ s.conversation = r.conversation
         /\ s.results = r.results /\ s.answered /\ s.asOf = n
  <1>1. r \in RequestType BY DEF RequestOK
  <1>2. /\ s \in RequestType /\ s.id = r.id /\ s.page = r.page /\ s.conversation = r.conversation
        /\ s.results = r.results /\ s.answered = TRUE /\ s.made = TRUE /\ s.asOf = n
    BY <1>1 DEF RequestType, WasRead
  <1>3. QED BY <1>2 DEF RequestOK

LEMMA AnswerOlderKeeps ==
  ASSUME ListInv, NEW r \in requests, AnswerOlder(r)
  PROVE  ListInv'
  <1> USE DEF ListInv
  <1>0. UNCHANGED <<shown, sending, world, pending, resumed, crossed>> /\ r.page > 1
    BY DEF AnswerOlder
  <1>1. /\ UNCHANGED <<active, displayed, fetchId, loading, rows, page, total, asOf>>
        /\ UNCHANGED <<core, recipient, uploads, heard, log, stored, count, pending, resumed, crossed>>
    BY <1>0 DEF shown, sending, world
  <1>2. /\ CoreStep /\ RecipientInv' /\ LogInv' /\ UploadInv'
        /\ \A q \in requests : RequestOK(q) /\ RequestOK(q)'
    BY <1>0, <1>1, FetchStep
  <1>3. RowInv' /\ (Clean => Clean') /\ WholeInv' BY <1>1, RowsStay
  <1>4. ListTypeOK' BY <1>1 DEF ListTypeOK
  <1>5. PICK s : s = [r EXCEPT !.answered = TRUE, !.made = TRUE, !.asOf = count[r.conversation]] OBVIOUS
  <1>6. requests' = (requests \ {r}) \cup {s} BY <1>5 DEF AnswerOlder
  <1>7. RequestOK(s) /\ s.id = r.id /\ s.page = r.page
    <2>1. PICK n : n = count[r.conversation] OBVIOUS
    <2>2. n \in Nat BY <1>2, <2>1 DEF RequestOK, RequestType, ListTypeOK
    <2>3. RequestOK(r) BY <1>2
    <2>4. s = WasRead(r, n) BY <1>5, <2>1 DEF WasRead
    <2>5. r.page > 1 BY <1>0
    <2>6. QED BY <2>2, <2>3, <2>4, <2>5, OlderAnswered
  <1>8. RequestOK(s)'
    <2>1. s.id \in 0..fetchId' /\ (s.id = fetchId' => s.conversation = active') BY <1>1, <1>7 DEF RequestOK
    <2>2. QED BY <1>2, <1>7, <2>1, RequestStable
  <1>9. RequestInv' BY <1>2, <1>6, <1>8 DEF RequestInv
  <1>10. OlderInFlight' = {q \in requests' : q.page > 1 /\ q.id = fetchId} BY <1>1 DEF OlderInFlight
  <1>11. CASE r.id # fetchId
    <2>1. OlderInFlight' = OlderInFlight BY <1>6, <1>7, <1>10, <1>11 DEF OlderInFlight
    <2>2. OlderInv' BY <1>1, <2>1 DEF OlderInv
    <2>3. \A q \in requests : q.id = fetchId => q \in requests' BY <1>6, <1>11
    <2>4. WaitsAreAnswered' BY <1>1, <2>1, <2>3 DEF WaitsAreAnswered
    <2>5. ASSUME Due PROVE Due'
      <3>1. DueOf(s)' BY <1>1, <1>7, <1>11 DEF DueOf
      <3>2. \A q \in requests : DueOf(q)' BY <1>1, <2>5 DEF Due, DueOf
      <3>3. QED BY <1>1, <1>6, <2>5, <3>1, <3>2 DEF Due
    <2>6. CleanInv' BY <1>3, <2>5 DEF CleanInv
    <2>7. QED BY <1>2, <1>3, <1>4, <1>9, <2>2, <2>4, <2>6
  <1>12. CASE r.id = fetchId
    <2>1. r \in OlderInFlight BY <1>0, <1>12 DEF OlderInFlight
    <2>2. OlderInFlight' = {s}
      <3>1. \A q \in requests : q.page > 1 /\ q.id = fetchId => q = r
        BY <2>1 DEF OlderInv, OlderInFlight
      <3>2. s.page > 1 /\ s.id = fetchId BY <1>0, <1>7, <1>12
      <3>3. QED BY <1>6, <1>10, <3>1, <3>2
    <2>3. OlderInv' BY <1>1, <1>7, <2>1, <2>2 DEF OlderInv
    <2>4. s \in requests' /\ s.id = fetchId BY <1>6, <1>7, <1>12
    <2>5. WaitsAreAnswered' BY <1>1, <2>2, <2>4 DEF WaitsAreAnswered
    <2>6. ~Due
      <3>1. r.page # 1 BY <1>0
      <3>2. QED BY <1>12, <3>1 DEF Due, DueOf
    <2>7. CleanInv' BY <1>3, <2>6 DEF CleanInv
    <2>8. QED BY <1>2, <1>3, <1>4, <1>9, <2>3, <2>5, <2>7
  <1>13. QED BY <1>11, <1>12

\* The rows of a proper answer are all the list needs.
LEMMA ProperRows ==
  ASSUME NEW c \in Conversations, active = c, NEW x \in Proper(c)
  PROVE  /\ x.rows \in Seq(RowType) /\ x.rows \in Seq(CleanRow) /\ x.rows \in Seq(GoodRow)
         /\ Single(x.rows) /\ Whole(x.rows, c, x.page)
  <1> DEFINE rs == x.rows
  <1>1. x \in ResponseType /\ rs \in Seq(RowType) /\ x.page \in {0, 1} BY DEF Proper, ResponseType
  <1>2. /\ x.page = 0 => rs = <<>>
        /\ x.page = 1 => Len(rs) >= 1 /\ rs[1].is = <<c, 1>>
        /\ \A i \in 1..Len(rs) : ~rs[i].sending /\ (i > 1 => rs[i].is \in Kept(c))
    BY DEF Proper
  <1>3. 1 \in 1..LastPage BY ListAssumption DEF LastPage
  <1>4. <<c, 1>> \in Tokens /\ <<c, 1>> \notin Messages /\ At(<<c, 1>>) = c BY <1>3, TokenNoMessage
  <1> HIDE DEF rs
  <1>5. Len(rs) \in Nat /\ (x.page = 0 => Len(rs) = 0) BY <1>1, <1>2, LenProperties, EmptySeq
  <1>6. ASSUME NEW i \in 1..Len(rs)
        PROVE  /\ rs[i] \in RowType /\ ~rs[i].sending
               /\ \/ i = 1 /\ rs[i].is = <<c, 1>>
                  \/ i > 1 /\ rs[i].is \in Kept(c)
    <2>1. rs[i] \in RowType BY <1>1, ElementOfSeq
    <2>2. i = 1 \/ i > 1 BY <1>5
    <2>3. x.page = 1 BY <1>1, <1>5
    <2>4. QED BY <1>2, <2>1, <2>2, <2>3
  <1>7. ASSUME NEW i \in 1..Len(rs) PROVE rs[i] \in CleanRow
    <2>1. CASE rs[i].is = <<c, 1>>
      <3>1. rs[i].is \notin Files BY <1>4, <2>1 DEF Messages, Own
      <3>2. QED BY <1>4, <1>6, <2>1, <3>1 DEF CleanRow
    <2>2. CASE rs[i].is \in Kept(c)
      <3>1. At(rs[i].is) = c /\ (rs[i].is \in Files => core[rs[i].is] = "sent") BY <2>2 DEF Kept, Own
      <3>2. QED BY <1>6, <3>1 DEF CleanRow
    <2>3. QED BY <1>6, <2>1, <2>2
  <1>8. ASSUME NEW i \in 1..Len(rs) PROVE rs[i].is \in Own => core[rs[i].is] = "sent"
    <2>1. CASE rs[i].is = <<c, 1>> BY <1>4, <2>1 DEF Messages
    <2>2. CASE rs[i].is \in Kept(c) BY <2>2 DEF Kept
    <2>3. QED BY <1>6, <2>1, <2>2
  <1>9. ASSUME NEW i \in 1..Len(rs) PROVE rs[i] \in GoodRow BY <1>6, <1>8 DEF GoodRow
  <1>10. rs \in Seq(CleanRow) BY <1>1, <1>7, LenProperties, SeqDef
  <1>11. rs \in Seq(GoodRow) BY <1>1, <1>9, LenProperties, SeqDef
  <1>12. Single(rs) BY <1>8 DEF Single
  <1>13. Whole(rs, c, x.page)
    <2>1. CASE x.page = 0
      <3>1. 1..Len(rs) = {} /\ 1..x.page = {} BY <1>5, <2>1
      <3>2. QED BY <3>1 DEF Whole
    <2>2. CASE x.page = 1
      <3>1. \A i \in 1..Len(rs) : rs[i].is \notin Messages => i = 1 /\ rs[i].is = <<c, 1>>
        BY <1>6 DEF Kept
      <3>2. <<c, 1>> \in {c} \X (1..x.page) BY <2>2
      <3>3. 1 \in 1..Len(rs) /\ rs[1].is = <<c, 1>> BY <1>2, <1>5, <2>2
      <3>4. \A q \in 1..x.page : q = 1 BY <2>2
      <3>5. \A i, j \in 1..Len(rs) :
              ~(rs[i].is \notin Messages /\ rs[j].is \notin Messages /\ i < j)
        BY <1>5, <3>1
      <3>6. \A i \in 1..Len(rs) : rs[i].is \notin Messages => rs[i].is \in {c} \X (1..x.page)
        BY <3>1, <3>2
      <3>7. \A q \in 1..x.page : \E i \in 1..Len(rs) : rs[i].is \notin Messages /\ rs[i].is = <<c, q>>
        BY <1>4, <3>3, <3>4
      <3>8. QED BY <3>5, <3>6, <3>7 DEF Whole
    <2>3. QED BY <1>1, <2>1, <2>2
  <1>14. QED BY <1>1, <1>10, <1>11, <1>12, <1>13 DEF rs

\* A request with one answer less.
LEMMA Forgotten ==
  ASSUME NEW r, RequestOK(r), r.page = 1, r.results # <<>>, NEW s, s = [r EXCEPT !.results = Tail(@)]
  PROVE  /\ RequestOK(s) /\ s.id = r.id /\ s.page = 1 /\ s.conversation = r.conversation
         /\ Head(r.results) \in Proper(r.conversation)
  <1> DEFINE t == Tail(r.results)
             c == r.conversation
  <1>1. r \in RequestType /\ r.results \in Seq(Proper(c)) BY DEF RequestOK
  <1>2. t \in Seq(Proper(c)) /\ Head(r.results) \in Proper(c) BY <1>1, HeadTailProperties
  <1>3. Proper(c) \subseteq ResponseType BY DEF Proper
  <1>4. s = [r EXCEPT !.results = t] OBVIOUS
  <1> HIDE DEF t
  <1>5. t \in Seq(ResponseType) BY <1>2, <1>3, SeqWithin
  <1>6. /\ s.id = r.id /\ s.page = r.page /\ s.conversation = c /\ s.results = t
        /\ s.made = r.made /\ s.answered = r.answered /\ s \in RequestType
    BY <1>1, <1>4, <1>5 DEF RequestType
  <1>7. s.results \in Seq(Proper(s.conversation)) BY <1>2, <1>6
  <1>8. ~(s.page > 1) BY <1>6
  <1>9. RequestOK(s) BY <1>6, <1>7, <1>8 DEF RequestOK
  <1>10. QED BY <1>2, <1>6, <1>9

\* The answer of the latest fetch: in place or as a reset, the list is that answer.
LEMMA Applied ==
  ASSUME ListInv, NEW x \in Proper(active), active \in Conversations, ApplyFetchedMessages(x)
  PROVE  rows' = x.rows /\ displayed' = active
  <1>1. x.rows \in Seq(RowType) BY DEF Proper, ResponseType
  <1>2. rows \in Seq(RowType) BY DEF ListInv, ListTypeOK, RowType
  <1>3. Reconciled(rows, x.rows) = x.rows BY <1>1, <1>2, RefreshIsReset
  <1>4. QED BY <1>3 DEF ApplyFetchedMessages

LEMMA FirstPageKeeps ==
  ASSUME ListInv, NEW r \in requests, FirstPageReady(r)
  PROVE  ListInv'
  <1> USE DEF ListInv
  <1>0. /\ UNCHANGED <<sending, world>> /\ r.page = 1 /\ r.results # <<>>
        /\ requests' = (requests \ {r}) \cup {[r EXCEPT !.results = Tail(@)]}
    BY DEF FirstPageReady, Forget
  <1>1. UNCHANGED <<active, fetchId>> BY DEF FirstPageReady, ApplyFetchedMessages, shown
  <1>2. /\ CoreStep /\ RecipientInv' /\ LogInv' /\ UploadInv'
        /\ \A q \in requests : RequestOK(q) /\ RequestOK(q)'
    BY <1>0, <1>1, FetchStep
  <1>3. UNCHANGED <<core, recipient, uploads, heard, log, stored, count>> BY <1>0 DEF sending, world
  <1> DEFINE c == r.conversation
             x == Head(r.results)
  <1>4. PICK s : s = [r EXCEPT !.results = Tail(@)] OBVIOUS
  <1>5. RequestOK(s) /\ s.id = r.id /\ s.page = 1 /\ s.conversation = c /\ x \in Proper(c)
    BY <1>0, <1>2, <1>4, Forgotten
  <1>6. requests' = (requests \ {r}) \cup {s} BY <1>0, <1>4
  <1>7. RequestOK(s)'
    <2>1. s.id \in 0..fetchId' /\ (s.id = fetchId' => s.conversation = active') BY <1>1, <1>5 DEF RequestOK
    <2>2. QED BY <1>2, <1>5, <2>1, RequestStable
  <1>8. RequestInv' BY <1>2, <1>6, <1>7 DEF RequestInv
  <1>9. /\ OlderInFlight' = OlderInFlight
        /\ (\E q \in requests : q.id = fetchId) => (\E q \in requests : q.id = fetchId)'
    BY <1>0, <1>1, <1>5, <1>6, FirstReplaced
  <1>10. CASE r.id # fetchId
    <2>1. UNCHANGED <<displayed, loading, rows, page, total, asOf, pending, resumed, crossed>>
      BY <1>10 DEF FirstPageReady, shown
    <2>2. ListTypeOK' BY <1>1, <1>3, <2>1 DEF ListTypeOK
    <2>3. OlderInv' BY <1>9, <2>1 DEF OlderInv
    <2>4. WaitsAreAnswered' BY <1>1, <1>9, <2>1 DEF WaitsAreAnswered
    <2>5. RowInv' /\ (Clean => Clean') /\ WholeInv' BY <1>1, <1>3, <2>1, RowsStay
    <2>6. ASSUME Due PROVE Due'
      <3>1. DueOf(s)' BY <1>1, <1>5, <1>10 DEF DueOf
      <3>2. \A q \in requests : DueOf(q)' BY <1>1, <2>6 DEF Due, DueOf
      <3>3. QED BY <1>6, <2>1, <2>6, <3>1, <3>2 DEF Due
    <2>7. CleanInv' BY <2>5, <2>6 DEF CleanInv
    <2>8. QED BY <1>2, <1>8, <2>2, <2>3, <2>4, <2>5, <2>7
  <1>11. CASE r.id = fetchId
    <2>1. c = active /\ c \in Conversations BY <1>2, <1>11 DEF RequestOK, RequestType
    <2>2. ApplyFetchedMessages(x) BY <1>11 DEF FirstPageReady
    <2>3. x \in Proper(active) /\ active \in Conversations BY <1>5, <2>1
    <2> HIDE DEF x
    <2>4. rows' = x.rows /\ displayed' = active BY <2>2, <2>3, Applied
    <2>5. /\ page' = x.page /\ total' = x.total /\ loading' = FALSE
          /\ crossed' \in BOOLEAN /\ (~crossed' => \A q \in OlderInFlight : q.page = x.page + 1)
          /\ asOf' = [asOf EXCEPT ![1] = x.asOf]
      BY <2>2 DEF ApplyFetchedMessages, Follows
    <2>6. /\ x.rows \in Seq(RowType) /\ x.rows \in Seq(CleanRow) /\ x.rows \in Seq(GoodRow)
          /\ Single(x.rows) /\ Whole(x.rows, c, x.page)
      BY <1>5, <2>1, ProperRows
    <2>7. \/ displayed = active /\ UNCHANGED <<pending, resumed>>
          \/ displayed # active /\ pending' = FALSE /\ resumed' = FALSE
      BY <2>2 DEF ApplyFetchedMessages
    <2>8. ListTypeOK'
      <3>1. x.page \in {0, 1} /\ x.total \in {0, Pages, LastPage} BY <2>3 DEF Proper, ResponseType
      <3>2. x.page \in 0..LastPage BY <3>1, ListAssumption DEF LastPage
      <3>3. pending' \in BOOLEAN /\ resumed' \in BOOLEAN BY <2>7 DEF ListTypeOK
      <3>4. crossed' \in BOOLEAN BY <2>5
      <3>5. x.rows \in Seq([is : Tokens \cup Messages, sending : BOOLEAN]) BY <2>6 DEF RowType
      <3>6. asOf' \in [1..LastPage -> Nat] BY <2>3, <2>5 DEF ListTypeOK, Proper, ResponseType
      <3>7. QED BY <1>1, <1>3, <2>3, <2>4, <2>5, <3>1, <3>2, <3>3, <3>4, <3>5, <3>6 DEF ListTypeOK
    <2>9. OlderInv'
      <3>1. OlderInFlight # {} => pending'
        <4>1. CASE displayed = active BY <2>7, <4>1 DEF OlderInv
        <4>2. CASE displayed # active
          <5>1. Due BY <4>2 DEF CleanInv, Clean
          <5>2. ~(1 > 1) OBVIOUS
          <5>3. QED BY <5>1, <5>2 DEF Due, DueOf, OlderInFlight
        <4>3. QED BY <4>1, <4>2
      <3>2. ~crossed' => \A q \in OlderInFlight : q.page = page' + 1 BY <2>5
      <3>3. QED BY <1>9, <3>1, <3>2 DEF OlderInv
    <2>10. WaitsAreAnswered'
      <3>1. ASSUME pending', ~resumed' PROVE OlderInFlight # {}
        BY <2>7, <3>1 DEF WaitsAreAnswered
      <3>2. QED BY <1>9, <2>5, <3>1 DEF WaitsAreAnswered
    <2>11. Clean'
      <3>1. \A y : At(y)' = At(y) BY <1>3 DEF At
      <3>2. CleanRow' = CleanRow BY <1>1, <1>3, <3>1 DEF CleanRow
      <3>3. QED BY <1>1, <2>4, <2>6, <3>2 DEF Clean
    <2>12. RowInv'
      <3>1. GoodRow' = GoodRow BY <1>3 DEF GoodRow
      <3>2. Single(rows)' BY <1>3, <2>4, <2>6 DEF Single
      <3>3. QED BY <2>4, <2>6, <3>1, <3>2 DEF RowInv
    <2>13. WholeInv' BY <2>1, <2>4, <2>5, <2>6 DEF WholeInv, Whole
    <2>14. QED BY <1>2, <1>8, <2>8, <2>9, <2>10, <2>11, <2>12, <2>13 DEF CleanInv
  <1>12. QED BY <1>10, <1>11

LEMMA FetchFinishedKeeps ==
  ASSUME ListInv, NEW r \in requests, FetchFinished(r)
  PROVE  ListInv'
  <1> USE DEF ListInv
  <1>0. /\ r.page = 1 /\ r.answered /\ r.results = <<>> /\ requests' = requests \ {r}
        /\ loading' = IF r.id = fetchId THEN FALSE ELSE loading
        /\ UNCHANGED <<active, displayed, fetchId, rows, page, total, asOf, sending, world, pending, resumed, crossed>>
    BY DEF FetchFinished
  <1>1. /\ CoreStep /\ RecipientInv' /\ LogInv' /\ UploadInv'
        /\ \A q \in requests : RequestOK(q) /\ RequestOK(q)'
    BY <1>0, FetchStep
  <1>2. UNCHANGED <<core, recipient, uploads, heard, log, stored, count>> BY <1>0 DEF sending, world
  <1>3. RequestInv' BY <1>0, <1>1 DEF RequestInv
  <1>4. RowInv' /\ (Clean => Clean') /\ WholeInv' BY <1>0, <1>2, RowsStay
  <1>5. loading' \in BOOLEAN BY <1>0 DEF ListTypeOK
  <1>6. ListTypeOK' BY <1>0, <1>2, <1>5 DEF ListTypeOK
  <1>7. OlderInFlight' = OlderInFlight
    <2>1. ~(1 > 1) OBVIOUS
    <2>2. OlderInFlight' = {q \in requests' : q.page > 1 /\ q.id = fetchId} BY <1>0 DEF OlderInFlight
    <2>3. QED BY <1>0, <2>1, <2>2 DEF OlderInFlight
  <1>8. OlderInv' BY <1>0, <1>7 DEF OlderInv
  <1>9. CASE r.id = fetchId
    <2>1. r.made BY <1>0, <1>1 DEF RequestOK
    <2>2. ~Due BY <1>0, <1>9, <2>1 DEF Due, DueOf
    <2>3. Clean BY <2>2 DEF CleanInv
    <2>4. displayed = active BY <2>3 DEF Clean
    <2>5. WaitsAreAnswered' BY <1>0, <1>7, <1>9, <2>4 DEF WaitsAreAnswered
    <2>6. QED BY <1>1, <1>3, <1>4, <1>6, <1>8, <2>3, <2>5 DEF CleanInv
  <1>10. CASE r.id # fetchId
    <2>1. loading' = loading BY <1>0, <1>10
    <2>2. WaitsAreAnswered' BY <1>0, <1>7, <1>10, <2>1 DEF WaitsAreAnswered
    <2>3. Due => Due' BY <1>0, <2>1 DEF Due, DueOf
    <2>4. QED BY <1>1, <1>3, <1>4, <1>6, <1>8, <2>2, <2>3 DEF CleanInv
  <1>11. QED BY <1>9, <1>10

\* An older page in front of the list.
LEMMA PrependedShape ==
  ASSUME NEW A, NEW x \in A, NEW rs \in Seq(A)
  PROVE  /\ <<x>> \o rs \in Seq(A) /\ Len(rs) \in Nat /\ Len(<<x>> \o rs) = Len(rs) + 1
         /\ (<<x>> \o rs)[1] = x /\ \A i \in 2..Len(rs) + 1 : (<<x>> \o rs)[i] = rs[i - 1]
  <1> DEFINE u == <<x>>
             m == Len(u)
             n == Len(rs)
             w == u \o rs
  <1>1. u \in Seq(A) /\ rs \in Seq(A) OBVIOUS
  <1>2. m = 1 /\ u[1] = x OBVIOUS
  <1>3. n \in Nat OBVIOUS
  <1>4. Len(rs) = n /\ Len(u) = m OBVIOUS
  <1>5. /\ w \in Seq(A) /\ Len(w) = m + n
        /\ \A j \in 1..m + n : w[j] = IF j <= m THEN u[j] ELSE rs[j - m]
    <2> HIDE DEF u, m, n
    <2>1. QED BY <1>1, <1>4, Concatenated
  <1> HIDE DEF u, m, n, w
  <1>6. Len(w) = n + 1 BY <1>2, <1>3, <1>5
  <1>7. w[1] = x BY <1>2, <1>3, <1>5
  <1>8. \A i \in 2..n + 1 : w[i] = rs[i - 1] BY <1>2, <1>3, <1>5
  <1>9. QED BY <1>3, <1>5, <1>6, <1>7, <1>8 DEF u, n, w

LEMMA Prepended ==
  ASSUME NEW c \in Conversations, NEW p \in 1..LastPage, NEW rs, active = c, rs \in Seq(RowType),
         rs \in Seq(CleanRow), rs \in Seq(GoodRow), Single(rs),
         NEW new, new = <<Row(<<c, p>>)>> \o rs
  PROVE  /\ new \in Seq(RowType) /\ new \in Seq(CleanRow) /\ new \in Seq(GoodRow) /\ Single(new)
         /\ \A old \in Nat : p = old + 1 /\ Whole(rs, c, old) => Whole(new, c, p)
  <1> DEFINE x == Row(<<c, p>>)
             n == Len(rs)
  <1>1. <<c, p>> \in Tokens /\ <<c, p>> \notin Messages /\ At(<<c, p>>) = c BY TokenNoMessage
  <1>2. x.is = <<c, p>> /\ x \in RowType BY <1>1, RowMade DEF Row
  <1>3. x \in CleanRow /\ x \in GoodRow BY <1>1, <1>2 DEF CleanRow, GoodRow, Messages, Own
  <1>4. new = <<x>> \o rs OBVIOUS
  <1> HIDE DEF x
  <1>5. new \in Seq(RowType) BY <1>2, <1>4, PrependedShape
  <1>6. new \in Seq(CleanRow) BY <1>3, <1>4, PrependedShape
  <1>7. new \in Seq(GoodRow) BY <1>3, <1>4, PrependedShape
  <1>8. /\ n \in Nat /\ Len(new) = n + 1 /\ new[1] = x /\ \A i \in 2..n + 1 : new[i] = rs[i - 1]
    BY <1>2, <1>4, PrependedShape
  <1>9. ASSUME NEW i \in 1..Len(new), i # 1 PROVE i - 1 \in 1..Len(rs) /\ new[i] = rs[i - 1]
    BY <1>8, <1>9
  <1>10. x.is \notin Own BY <1>1, <1>2 DEF Messages
  <1>11. Single(new)
    <2> SUFFICES ASSUME NEW i \in 1..Len(new), NEW j \in 1..Len(new), new[i].is = new[j].is,
                        new[i].is \in Own, core[new[i].is] # "sent"
                 PROVE  i = j
      BY DEF Single
    <2>1. i # 1 /\ j # 1 BY <1>8, <1>10
    <2>2. i - 1 \in 1..Len(rs) /\ new[i] = rs[i - 1] BY <1>9, <2>1
    <2>3. j - 1 \in 1..Len(rs) /\ new[j] = rs[j - 1] BY <1>9, <2>1
    <2>4. i - 1 = j - 1 BY <2>2, <2>3 DEF Single
    <2>5. QED BY <1>8, <2>4
  <1>0. p \in Nat /\ \A q \in 1..p : q \in 1..LastPage
    <2>1. LastPage \in Nat BY ListAssumption DEF LastPage
    <2>2. QED BY <2>1
  <1>12. ASSUME NEW old \in Nat, p = old + 1, Whole(rs, c, old) PROVE Whole(new, c, p)
    <2>1. ASSUME NEW i \in 1..Len(new), i # 1, new[i].is \notin Messages
          PROVE  new[i].is \in {c} \X (1..old) /\ new[i].is[2] \in 1..old
      <3>1. i - 1 \in 1..Len(rs) /\ new[i] = rs[i - 1] BY <1>9, <2>1
      <3>2. new[i].is \in {c} \X (1..old) BY <1>12, <2>1, <3>1 DEF Whole
      <3>3. QED BY <3>2
    <2>2. {c} \X (1..old) \subseteq {c} \X (1..p) /\ <<c, p>> \in {c} \X (1..p) BY <1>0, <1>12
    <2>3. \A i \in 1..Len(new) : new[i].is \notin Messages => new[i].is \in {c} \X (1..p)
      BY <1>2, <1>8, <2>1, <2>2
    <2>4. ASSUME NEW q \in 1..p PROVE \E i \in 1..Len(new) : new[i].is \notin Messages /\ new[i].is = <<c, q>>
      <3>1. CASE q = p
        <4>1. 1 \in 1..Len(new) BY <1>8
        <4>2. QED BY <1>1, <1>2, <1>8, <3>1, <4>1
      <3>2. CASE q # p
        <4>1. q \in 1..old BY <1>0, <1>12, <3>2
        <4>2. PICK i \in 1..Len(rs) : rs[i].is \notin Messages /\ rs[i].is = <<c, q>> BY <1>12, <4>1 DEF Whole
        <4>3. i + 1 \in 1..Len(new) /\ new[i + 1] = rs[i] BY <1>8
        <4>4. QED BY <4>2, <4>3
      <3>3. QED BY <3>1, <3>2
    <2>5. ASSUME NEW i \in 1..Len(new), NEW j \in 1..Len(new),
                 new[i].is \notin Messages, new[j].is \notin Messages, i < j
          PROVE  new[i].is[2] > new[j].is[2]
      <3>1. j # 1 BY <1>8, <2>5
      <3>2. new[j].is[2] \in 1..old BY <2>1, <2>5, <3>1
      <3>3. CASE i = 1
        <4>1. new[i].is[2] = p BY <1>2, <1>8, <3>3
        <4>2. QED BY <1>12, <3>2, <4>1
      <3>4. CASE i # 1
        <4>1. i - 1 \in 1..Len(rs) /\ new[i] = rs[i - 1] BY <1>9, <3>4
        <4>2. j - 1 \in 1..Len(rs) /\ new[j] = rs[j - 1] BY <1>9, <3>1
        <4>3. i - 1 < j - 1 BY <1>8, <2>5
        <4>4. rs[i - 1].is[2] > rs[j - 1].is[2] BY <1>12, <2>5, <4>1, <4>2, <4>3 DEF Whole
        <4>5. QED BY <4>1, <4>2, <4>4
      <3>5. QED BY <3>3, <3>4
    <2>6. QED BY <2>3, <2>4, <2>5 DEF Whole
  <1>13. QED BY <1>5, <1>6, <1>7, <1>11, <1>12

LEMMA OlderPageKeeps ==
  ASSUME ListInv, NEW r \in requests, OlderPage(r)
  PROVE  ListInv'
  <1> USE DEF ListInv
  <1> DEFINE c == r.conversation
  <1>0. PICK x \in {NoResponse, OldPage(c, r.page, r.asOf)} : OlderPageReady(r, x) BY DEF OlderPage
  <1>1. /\ r.page > 1 /\ requests' = requests \ {r}
        /\ UNCHANGED <<active, displayed, fetchId, sending, world, crossed>>
    BY <1>0 DEF OlderPageReady
  <1>2. /\ CoreStep /\ RecipientInv' /\ LogInv' /\ UploadInv'
        /\ \A q \in requests : RequestOK(q) /\ RequestOK(q)'
    BY <1>1, FetchStep
  <1>3. UNCHANGED <<core, recipient, uploads, heard, log, stored, count>> BY <1>1 DEF sending, world
  <1>4. RequestInv' BY <1>1, <1>2 DEF RequestInv
  <1>5. OlderInFlight' = OlderInFlight \ {r} BY <1>1 DEF OlderInFlight
  <1>6. CASE r.id # fetchId
    <2>1. UNCHANGED <<loading, rows, page, total, asOf, pending, resumed>> BY <1>0, <1>6 DEF OlderPageReady
    <2>2. OlderInFlight' = OlderInFlight BY <1>5, <1>6 DEF OlderInFlight
    <2>3. ListTypeOK' BY <1>1, <1>3, <2>1 DEF ListTypeOK
    <2>4. OlderInv' BY <1>1, <2>1, <2>2 DEF OlderInv
    <2>5. WaitsAreAnswered' BY <1>1, <1>6, <2>1, <2>2 DEF WaitsAreAnswered
    <2>6. RowInv' /\ (Clean => Clean') /\ WholeInv' BY <1>1, <1>3, <2>1, RowsStay
    <2>7. Due => Due' BY <1>1, <2>1 DEF Due, DueOf
    <2>8. QED BY <1>2, <1>4, <2>3, <2>4, <2>5, <2>6, <2>7 DEF CleanInv
  <1>7. CASE r.id = fetchId
    <2>1. loading' = FALSE /\ pending' = FALSE /\ resumed' = FALSE BY <1>0, <1>7 DEF OlderPageReady
    <2>2. r \in OlderInFlight BY <1>1, <1>7 DEF OlderInFlight
    <2>3. OlderInFlight' = {} BY <1>5, <2>2 DEF OlderInv
    <2>4. OlderInv' BY <2>3 DEF OlderInv
    <2>5. WaitsAreAnswered' BY <2>1 DEF WaitsAreAnswered
    <2>6. Clean
      <3>1. r.page # 1 BY <1>1
      <3>2. ~Due BY <1>7, <3>1 DEF Due, DueOf
      <3>3. QED BY <3>2 DEF CleanInv
    <2>7. c = active /\ c \in Conversations /\ r.page \in 1..LastPage
      BY <1>2, <1>7 DEF RequestOK, RequestType
    <2>8. CASE x.page < 1
      <3>1. UNCHANGED <<rows, page, total, asOf>> BY <1>0, <1>7, <2>8 DEF OlderPageReady
      <3>2. ListTypeOK' BY <1>1, <1>3, <2>1, <3>1 DEF ListTypeOK
      <3>3. RowInv' /\ Clean' /\ WholeInv' BY <1>1, <1>3, <2>6, <3>1, RowsStay
      <3>4. QED BY <1>2, <1>4, <2>4, <2>5, <3>2, <3>3 DEF CleanInv
    <2>9. CASE ~(x.page < 1)
      <3>1. /\ rows' = x.rows \o rows /\ page' = x.page /\ total' = x.total
            /\ asOf' = [asOf EXCEPT ![x.page] = x.asOf]
        BY <1>0, <1>7, <2>9 DEF OlderPageReady
      <3>2. NoResponse.page < 1 BY DEF NoResponse, Response
      <3>3. x = OldPage(c, r.page, r.asOf) BY <1>0, <2>9, <3>2
      <3> DEFINE p == r.page
                 tp == TotalPages(r.asOf)
      <3>4. x.rows = <<Row(<<c, p>>)>> /\ x.page = p /\ x.total = tp /\ x.asOf = r.asOf
        BY <3>3 DEF OldPage, Response
      <3>5. PICK new : new = <<Row(<<c, p>>)>> \o rows OBVIOUS
      <3>6. rows' = new /\ page' = p /\ total' = tp BY <3>1, <3>4, <3>5
      <3>7. /\ rows \in Seq(RowType) /\ rows \in Seq(CleanRow) /\ rows \in Seq(GoodRow)
            /\ Single(rows) /\ displayed = active
        BY <2>6 DEF Clean, RowInv, ListTypeOK, RowType
      <3>8. /\ new \in Seq(RowType) /\ new \in Seq(CleanRow) /\ new \in Seq(GoodRow) /\ Single(new)
            /\ \A old \in Nat : p = old + 1 /\ Whole(rows, c, old) => Whole(new, c, p)
        <4> HIDE DEF c, p
        <4>1. QED BY <2>7, <3>5, <3>7, Prepended DEF p
      <3>9. ListTypeOK'
        <4>1. new \in Seq([is : Tokens \cup Messages, sending : BOOLEAN]) BY <3>8 DEF RowType
        <4>2. p \in 0..LastPage BY <2>7
        <4>3. tp \in {0, Pages, LastPage} BY DEF TotalPages
        <4>4. r.asOf \in Nat BY <1>2 DEF RequestOK, RequestType
        <4>5. asOf' \in [1..LastPage -> Nat] BY <3>1, <3>4, <4>4 DEF ListTypeOK
        <4> HIDE DEF tp
        <4>6. QED BY <1>1, <1>3, <2>1, <3>6, <4>1, <4>2, <4>3, <4>5 DEF ListTypeOK
      <3>10. Clean'
        <4>1. \A y : At(y)' = At(y) BY <1>3 DEF At
        <4>2. CleanRow' = CleanRow BY <1>1, <1>3, <4>1 DEF CleanRow
        <4>3. QED BY <1>1, <3>6, <3>7, <3>8, <4>2 DEF Clean
      <3>11. RowInv'
        <4>1. GoodRow' = GoodRow BY <1>3 DEF GoodRow
        <4>2. Single(rows)' BY <1>3, <3>6, <3>8 DEF Single
        <4>3. QED BY <3>6, <3>8, <4>1, <4>2 DEF RowInv
      <3>12. WholeInv'
        <4> SUFFICES ASSUME ~crossed' PROVE Whole(rows, displayed, page)' BY DEF WholeInv
        <4>1. ~crossed BY <1>1
        <4>2. Whole(rows, c, page) BY <2>7, <3>7, <4>1 DEF WholeInv
        <4>3. p = page + 1 BY <2>2, <4>1 DEF OlderInv
        <4>4. page \in Nat BY DEF ListTypeOK
        <4>5. Whole(new, c, p) BY <3>8, <4>2, <4>3, <4>4
        <4>6. displayed' = c BY <1>1, <2>7, <3>7
        <4> HIDE DEF c, p
        <4>7. QED BY <3>6, <4>5, <4>6 DEF Whole
      <3>13. QED BY <1>2, <1>4, <2>4, <2>5, <3>9, <3>10, <3>11, <3>12 DEF CleanInv
    <2>10. QED BY <2>8, <2>9
  <1>8. QED BY <1>6, <1>7

-----------------------------------------------------------------------------
(* Rows that are added and removed                                         *)

\* Where the element i of a sequence without its k-th was.
Shift(k, i) == IF i < k THEN i ELSE i + 1

LEMMA Removed ==
  ASSUME NEW A, NEW rs \in Seq(A), NEW k \in 1..Len(rs), NEW new, new = RemoveAt(rs, k)
  PROVE  /\ new \in Seq(A) /\ Len(new) \in Nat
         /\ \A i \in 1..Len(new) : /\ Shift(k, i) \in 1..Len(rs) /\ Shift(k, i) # k
                                   /\ new[i] = rs[Shift(k, i)]
         /\ \A i, j \in 1..Len(new) : /\ i < j => Shift(k, i) < Shift(k, j)
                                      /\ Shift(k, i) = Shift(k, j) => i = j
         /\ \A j \in 1..Len(rs) : j # k => \E i \in 1..Len(new) : Shift(k, i) = j
  <1> DEFINE n == Len(rs)
  <1>1. /\ new \in Seq(A) /\ Len(new) = n - 1
        /\ \A j \in 1..k - 1 : new[j] = rs[j]
        /\ \A j \in k..n - 1 : new[j] = rs[j + 1]
    BY RemoveAtFacts
  <1>2. n \in Nat /\ k \in 1..n BY LenProperties
  <1> HIDE DEF n
  <1>3. Len(new) \in Nat BY <1>1, <1>2
  <1>4. ASSUME NEW i \in 1..Len(new)
        PROVE  Shift(k, i) \in 1..n /\ Shift(k, i) # k /\ new[i] = rs[Shift(k, i)]
    BY <1>1, <1>2 DEF Shift
  <1>5. ASSUME NEW i \in 1..Len(new), NEW j \in 1..Len(new)
        PROVE  (i < j => Shift(k, i) < Shift(k, j)) /\ (Shift(k, i) = Shift(k, j) => i = j)
    BY <1>1, <1>2 DEF Shift
  <1>6. ASSUME NEW j \in 1..n, j # k PROVE \E i \in 1..Len(new) : Shift(k, i) = j
    <2>1. CASE j < k
      <3>1. j \in 1..Len(new) /\ Shift(k, j) = j BY <1>1, <1>2, <2>1 DEF Shift
      <3>2. QED BY <3>1
    <2>2. CASE ~(j < k)
      <3>1. j - 1 \in 1..Len(new) /\ Shift(k, j - 1) = j BY <1>1, <1>2, <1>6, <2>2 DEF Shift
      <3>2. QED BY <3>1
    <2>3. QED BY <2>1, <2>2
  <1>7. QED BY <1>1, <1>3, <1>4, <1>5, <1>6 DEF n

LEMMA SingleRemoved ==
  ASSUME NEW rs \in Seq(RowType), NEW k \in 1..Len(rs), NEW new, new = RemoveAt(rs, k), Single(rs)
  PROVE  Single(new)
  <1>1. \A i \in 1..Len(new) : Shift(k, i) \in 1..Len(rs) /\ new[i] = rs[Shift(k, i)] BY Removed
  <1>2. \A i, j \in 1..Len(new) : Shift(k, i) = Shift(k, j) => i = j BY Removed
  <1> SUFFICES ASSUME NEW i \in 1..Len(new), NEW j \in 1..Len(new), new[i].is = new[j].is,
                      new[i].is \in Own, core[new[i].is] # "sent"
               PROVE  i = j
    BY DEF Single
  <1>3. Shift(k, i) = Shift(k, j) BY <1>1 DEF Single
  <1>4. QED BY <1>2, <1>3

LEMMA WholeRemoved ==
  ASSUME NEW rs \in Seq(RowType), NEW k \in 1..Len(rs), NEW new, new = RemoveAt(rs, k),
         rs[k].is \in Messages, NEW c, NEW p, Whole(rs, c, p)
  PROVE  Whole(new, c, p)
  <1>1. \A i \in 1..Len(new) : Shift(k, i) \in 1..Len(rs) /\ new[i] = rs[Shift(k, i)] BY Removed
  <1>2. \A i, j \in 1..Len(new) : i < j => Shift(k, i) < Shift(k, j) BY Removed
  <1>3. \A j \in 1..Len(rs) : j # k => \E i \in 1..Len(new) : Shift(k, i) = j BY Removed
  <1>4. \A i \in 1..Len(new) : new[i].is \notin Messages => new[i].is \in {c} \X (1..p)
    BY <1>1 DEF Whole
  <1>5. ASSUME NEW q \in 1..p PROVE \E i \in 1..Len(new) : new[i].is \notin Messages /\ new[i].is = <<c, q>>
    <2>1. PICK j \in 1..Len(rs) : rs[j].is \notin Messages /\ rs[j].is = <<c, q>> BY DEF Whole
    <2>2. PICK i \in 1..Len(new) : Shift(k, i) = j BY <1>3, <2>1
    <2>3. QED BY <1>1, <2>1, <2>2
  <1>6. ASSUME NEW i \in 1..Len(new), NEW j \in 1..Len(new),
               new[i].is \notin Messages, new[j].is \notin Messages, i < j
        PROVE  new[i].is[2] > new[j].is[2]
    <2>1. Shift(k, i) < Shift(k, j) BY <1>2, <1>6
    <2>2. QED BY <1>1, <1>6, <2>1 DEF Whole
  <1>7. QED BY <1>4, <1>5, <1>6 DEF Whole

LEMMA SingleAppended ==
  ASSUME NEW rs \in Seq(RowType), NEW x \in RowType, Single(rs),
         x.is \in Own => \A i \in 1..Len(rs) : rs[i].is # x.is
  PROVE  Single(Append(rs, x))
  <1> DEFINE new == Append(rs, x)
             n == Len(rs)
  <1>1. n \in Nat /\ Len(new) = n + 1 /\ new[n + 1] = x /\ \A i \in 1..n : new[i] = rs[i]
    BY AppendProperties, LenProperties
  <1> HIDE DEF new
  <1>2. ASSUME NEW i \in 1..Len(new) PROVE i = n + 1 \/ i \in 1..n BY <1>1
  <1> SUFFICES ASSUME NEW i \in 1..Len(new), NEW j \in 1..Len(new), new[i].is = new[j].is,
                      new[i].is \in Own, core[new[i].is] # "sent"
               PROVE  i = j
    BY DEF Single, new
  <1>3. CASE i \in 1..n /\ j \in 1..n BY <1>1, <1>3 DEF Single
  <1>4. CASE i = n + 1 /\ j \in 1..n BY <1>1, <1>4
  <1>5. CASE i \in 1..n /\ j = n + 1 BY <1>1, <1>5
  <1>6. QED BY <1>2, <1>3, <1>4, <1>5

LEMMA WholeAppended ==
  ASSUME NEW rs \in Seq(RowType), NEW x \in RowType, x.is \in Messages,
         NEW c, NEW p, Whole(rs, c, p)
  PROVE  Whole(Append(rs, x), c, p)
  <1> DEFINE new == Append(rs, x)
             n == Len(rs)
  <1>1. n \in Nat /\ Len(new) = n + 1 /\ new[n + 1] = x /\ \A i \in 1..n : new[i] = rs[i]
    BY AppendProperties, LenProperties
  <1> HIDE DEF new
  <1>2. ASSUME NEW i \in 1..Len(new), new[i].is \notin Messages PROVE i \in 1..n /\ new[i] = rs[i]
    <2>1. i # n + 1 BY <1>1, <1>2
    <2>2. QED BY <1>1, <2>1
  <1>3. ASSUME NEW i \in 1..n PROVE i \in 1..Len(new) /\ new[i] = rs[i] BY <1>1
  <1> HIDE DEF n
  <1>4. \A i \in 1..Len(new) : new[i].is \notin Messages => new[i].is \in {c} \X (1..p)
    BY <1>2 DEF Whole, n
  <1>5. ASSUME NEW q \in 1..p PROVE \E i \in 1..Len(new) : new[i].is \notin Messages /\ new[i].is = <<c, q>>
    <2>1. PICK j \in 1..n : rs[j].is \notin Messages /\ rs[j].is = <<c, q>> BY DEF Whole, n
    <2>2. QED BY <1>3, <2>1
  <1>6. ASSUME NEW i \in 1..Len(new), NEW j \in 1..Len(new),
               new[i].is \notin Messages, new[j].is \notin Messages, i < j
        PROVE  new[i].is[2] > new[j].is[2]
    <2>1. i \in 1..n /\ new[i] = rs[i] BY <1>2, <1>6
    <2>2. j \in 1..n /\ new[j] = rs[j] BY <1>2, <1>6
    <2>3. rs[i].is[2] > rs[j].is[2] BY <1>6, <2>1, <2>2 DEF Whole, n
    <2>4. QED BY <2>1, <2>2, <2>3
  <1>7. Whole(new, c, p) BY <1>4, <1>5, <1>6 DEF Whole
  <1>8. QED BY <1>7 DEF new

\* A step that is none of a fetch's keeps the invariant when it keeps what is about the
\* messages and the rows.
LEMMA MessageStep ==
  ASSUME ListInv, CoreStep,
         UNCHANGED <<active, displayed, fetchId, loading, page, total, asOf, requests, pending, resumed, crossed>>,
         ListTypeOK', RecipientInv', LogInv', UploadInv', RowInv', Clean => Clean',
         Whole(rows, displayed, page) => Whole(rows', displayed, page)
  PROVE  ListInv'
  <1> USE DEF ListInv
  <1>1. RequestInv' /\ OlderInv' /\ WaitsAreAnswered' /\ (Due => Due') BY FetchesStay
  <1>2. CleanInv' BY <1>1 DEF CleanInv
  <1>3. WholeInv'
    <2>1. Whole(rows', displayed, page) => Whole(rows', displayed', page') OBVIOUS
    <2>2. QED BY <2>1 DEF WholeInv, Whole
  <1>4. QED BY <1>1, <1>2, <1>3

\* Sent messages stay single.
LEMMA SingleStays ==
  ASSUME CoreStep, NEW rs, Single(rs)
  PROVE  Single(rs)'
  BY DEF Single, CoreStep

LEMMA GoodGrows ==
  ASSUME CoreStep, \A m \in Own : core'[m] = "sent" => core[m] = "sent"
  PROVE  GoodRow \subseteq GoodRow'
  <1> SUFFICES ASSUME NEW x \in GoodRow PROVE x \in GoodRow'
    OBVIOUS
  <1>1. x \in RowType /\ (x.is \in Own => core[x.is] # "none" /\ (core[x.is] = "sent" => ~x.sending))
    BY DEF GoodRow
  <1>2. x.is \in Own => core'[x.is] # "none" /\ (core'[x.is] = "sent" => ~x.sending)
    BY <1>1 DEF CoreStep
  <1>3. QED BY <1>1, <1>2 DEF GoodRow

LEMMA CleanGrows ==
  ASSUME UNCHANGED active, \A m \in Own : recipient'[m] = recipient[m] \/ recipient'[m] = active,
         NEW x \in CleanRow,
         x.is \in Files => core'[x.is] \notin {"aborting", "canceled"} \/ core'[x.is] = core[x.is]
  PROVE  x \in CleanRow'
  <1>1. x \in RowType /\ At(x.is) = active /\ (x.is \in Files => core[x.is] \notin {"aborting", "canceled"})
    BY DEF CleanRow
  <1>2. At(x.is)' = active BY <1>1 DEF At
  <1>3. x.is \in Files => core'[x.is] \notin {"aborting", "canceled"} BY <1>1
  <1>4. QED BY <1>1, <1>2, <1>3 DEF CleanRow

LEMMA RowsCarried ==
  ASSUME CoreStep, RowInv, GoodRow \subseteq GoodRow'
  PROVE  rows \in Seq(GoodRow') /\ rows \in Seq(GoodRow)
  <1> DEFINE A == GoodRow
             B == GoodRow'
  <1>1. rows \in Seq(A) BY DEF RowInv
  <1>2. rows \in Seq(B)
    <2>1. A \subseteq B OBVIOUS
    <2> HIDE DEF A, B
    <2>2. QED BY <1>1, <2>1, SeqWithin
  <1>3. QED BY <1>1, <1>2

\* Rows that stay, one added, one removed.
LEMMA SameKeeps ==
  ASSUME ListInv, CoreStep, GoodRow \subseteq GoodRow', UNCHANGED <<rows, active, displayed>>
  PROVE  RowInv' /\ (CleanRow \subseteq CleanRow' /\ Clean => Clean')
  <1>1. RowInv BY DEF ListInv
  <1>2. rows \in Seq(GoodRow') BY <1>1, RowsCarried
  <1>3. Single(rows)' BY <1>1, SingleStays DEF RowInv, Single
  <1>4. RowInv' BY <1>2, <1>3 DEF RowInv
  <1>5. ASSUME CleanRow \subseteq CleanRow', Clean PROVE Clean'
    <2> DEFINE A == CleanRow
               B == CleanRow'
    <2>1. rows \in Seq(A) BY <1>5 DEF Clean
    <2>2. rows \in Seq(B)
      <3>1. A \subseteq B BY <1>5
      <3> HIDE DEF A, B
      <3>2. QED BY <2>1, <3>1, SeqWithin
    <2>3. QED BY <1>5, <2>2 DEF Clean
  <1>6. QED BY <1>4, <1>5

LEMMA AppendKeeps ==
  ASSUME ListInv, CoreStep, GoodRow \subseteq GoodRow', CleanRow \subseteq CleanRow',
         UNCHANGED <<active, displayed>>,
         NEW x \in RowType, x.is \in Messages, x \in GoodRow', x \in CleanRow',
         x.is \in Own => \A i \in 1..Len(rows) : rows[i].is # x.is, rows' = Append(rows, x)
  PROVE  /\ rows' \in Seq(RowType) /\ RowInv' /\ (Clean => Clean')
         /\ (Whole(rows, displayed, page) => Whole(rows', displayed, page))
  <1>1. rows \in Seq(RowType) /\ RowInv BY DEF ListInv, ListTypeOK, RowType
  <1>2. rows' \in Seq(RowType) BY <1>1, AppendProperties
  <1>3. RowInv'
    <2> DEFINE B == GoodRow'
    <2>1. rows \in Seq(B) /\ x \in B BY <1>1, RowsCarried
    <2>2. rows' \in Seq(B)
      <3> HIDE DEF B
      <3>1. QED BY <2>1, AppendProperties
    <2>3. PICK new : new = Append(rows, x) OBVIOUS
    <2>4. Single(new) BY <1>1, <2>3, SingleAppended DEF RowInv
    <2>5. Single(new)' BY <2>4, SingleStays
    <2>6. Single(rows)' BY <2>3, <2>5 DEF Single
    <2>7. QED BY <2>2, <2>6 DEF RowInv
  <1>4. ASSUME Clean PROVE Clean'
    <2> DEFINE A == CleanRow
               B == CleanRow'
    <2>1. rows \in Seq(A) /\ x \in B /\ A \subseteq B BY <1>4 DEF Clean
    <2>2. rows' \in Seq(B)
      <3> HIDE DEF A, B
      <3>1. rows \in Seq(B) BY <2>1, SeqWithin
      <3>2. QED BY <2>1, <3>1, AppendProperties
    <2>3. QED BY <1>4, <2>2 DEF Clean
  <1>5. ASSUME Whole(rows, displayed, page) PROVE Whole(rows', displayed, page)
    BY <1>1, <1>5, WholeAppended
  <1>6. QED BY <1>2, <1>3, <1>4, <1>5

LEMMA RemoveKeeps ==
  ASSUME ListInv, CoreStep, GoodRow \subseteq GoodRow',
         NEW k \in 1..Len(rows), rows[k].is \in Messages, rows' = RemoveAt(rows, k)
  PROVE  /\ rows' \in Seq(RowType) /\ RowInv'
         /\ (Whole(rows, displayed, page) => Whole(rows', displayed, page))
  <1>1. rows \in Seq(RowType) /\ RowInv BY DEF ListInv, ListTypeOK, RowType
  <1>2. PICK new : new = RemoveAt(rows, k) OBVIOUS
  <1>3. rows' \in Seq(RowType) BY <1>1, Removed
  <1>4. RowInv'
    <2> DEFINE B == GoodRow'
    <2>1. rows \in Seq(B) BY <1>1, RowsCarried
    <2>2. rows' \in Seq(B)
      <3> HIDE DEF B
      <3>1. QED BY <2>1, Removed
    <2>3. Single(new) BY <1>1, <1>2, SingleRemoved DEF RowInv
    <2>4. Single(new)' BY <2>3, SingleStays
    <2>5. Single(rows)' BY <1>2, <2>4 DEF Single
    <2>6. QED BY <2>2, <2>5 DEF RowInv
  <1>5. ASSUME Whole(rows, displayed, page) PROVE Whole(rows', displayed, page)
    BY <1>1, <1>5, WholeRemoved
  <1>6. QED BY <1>3, <1>4, <1>5

\* The log after a message of c was heard, sent or stored.
LEMMA KnownKeeps ==
  ASSUME ListTypeOK, LogInv, CoreStep, NEW c \in Conversations, NEW m \in Messages, m \in Kept(c)',
         Known(c, m)
  PROVE  log' \in [Conversations -> Seq(Messages)] /\ LogInv'
  <1>0. log \in [Conversations -> Seq(Messages)] BY DEF ListTypeOK
  <1>1. CASE log' = log
    <2>1. \A d \in Conversations : log[d] \in Seq(Kept(d)') BY LogStable
    <2>2. QED BY <1>0, <1>1, <2>1 DEF LogInv
  <1>2. CASE log' = [log EXCEPT ![c] = Append(@, m)]
    <2>1. Append(log[c], m) \in Seq(Messages) BY <1>0, AppendProperties
    <2>2. log' \in [Conversations -> Seq(Messages)] BY <1>0, <1>2, <2>1
    <2>3. ASSUME NEW d \in Conversations PROVE log'[d] \in Seq(Kept(d)')
      <3> DEFINE B == Kept(d)'
      <3>1. log[d] \in Seq(B) BY LogStable
      <3>2. CASE d = c
        <4>1. m \in B /\ log'[d] = Append(log[d], m) BY <1>0, <1>2, <3>2
        <4> HIDE DEF B
        <4>2. log'[d] \in Seq(B) BY <3>1, <4>1, AppendProperties
        <4>3. QED BY <4>2 DEF B
      <3>3. CASE d # c
        <4>1. log'[d] = log[d] BY <1>0, <1>2, <3>3
        <4>2. QED BY <3>1, <4>1
      <3>4. QED BY <3>2, <3>3
    <2>4. QED BY <2>2, <2>3 DEF LogInv
  <1>3. QED BY <1>1, <1>2 DEF Known

\* The log after a step that adds nothing to it.
LEMMA LogStays ==
  ASSUME ListTypeOK, LogInv, CoreStep, UNCHANGED log
  PROVE  log' \in [Conversations -> Seq(Messages)] /\ LogInv'
  <1>1. \A d \in Conversations : log[d] \in Seq(Kept(d)') BY LogStable
  <1>2. QED BY <1>1 DEF LogInv, ListTypeOK

-----------------------------------------------------------------------------
(* Messages and uploads                                                    *)

LEMMA MessageReceivedKeeps ==
  ASSUME ListInv, NEW m \in Incoming, MessageReceived(m)
  PROVE  ListInv'
  <1> USE DEF ListInv
  <1> DEFINE c == Conversation[m]
  <1>0. /\ heard' = heard \cup {m} /\ Known(c, m)
        /\ UNCHANGED <<active, displayed, fetchId, loading, page, total, asOf, sending, stored, count,
                       requests, pending, resumed, crossed>>
    BY DEF MessageReceived
  <1>1. UNCHANGED <<core, recipient, uploads>> BY <1>0 DEF sending
  <1>2. CoreStep BY <1>1, CoreSame
  <1>3. m \in Messages /\ m \notin Own /\ c \in Conversations BY ListAssumption DEF Messages
  <1>4. m \in Kept(c)' BY <1>3 DEF Kept, At
  <1>5. log' \in [Conversations -> Seq(Messages)] /\ LogInv' BY <1>0, <1>2, <1>3, <1>4, KnownKeeps
  <1>6. RecipientInv' /\ UploadInv' BY <1>1 DEF RecipientInv, UploadInv
  <1>7. GoodRow \subseteq GoodRow' BY <1>1, <1>2, GoodGrows
  <1>8. CleanRow \subseteq CleanRow' BY <1>0, <1>1, CleanGrows
  <1>9. /\ rows' \in Seq(RowType) /\ RowInv' /\ (Clean => Clean')
        /\ (Whole(rows, displayed, page) => Whole(rows', displayed, page))
    <2>1. CASE c = active
      <3> DEFINE x == Row(m)
      <3>1. rows' = Append(rows, x) BY <2>1 DEF MessageReceived, InsertMessage
      <3>2. x.is = m /\ x \in RowType BY <1>3, RowMade DEF Row
      <3> HIDE DEF x
      <3>3. x \in GoodRow' BY <1>3, <3>2 DEF GoodRow
      <3>4. At(m)' = active' BY <1>0, <2>1 DEF At
      <3>5. x \in CleanRow' BY <1>3, <3>2, <3>4 DEF CleanRow, Own
      <3>6. x.is \in Messages /\ x.is \notin Own BY <1>3, <3>2
      <3>7. UNCHANGED <<active, displayed>> BY <1>0
      <3>8. QED BY <1>2, <1>7, <1>8, <3>1, <3>2, <3>3, <3>5, <3>6, <3>7, AppendKeeps
    <2>2. CASE c # active
      <3>1. UNCHANGED <<rows, active, displayed>> BY <1>0, <2>2 DEF MessageReceived
      <3>2. RowInv' /\ (Clean => Clean') BY <1>2, <1>7, <1>8, <3>1, SameKeeps
      <3>3. QED BY <3>1, <3>2 DEF ListTypeOK, RowType
    <2>3. QED BY <2>1, <2>2
  <1>10. ListTypeOK'
    <2>1. rows' \in Seq([is : Tokens \cup Messages, sending : BOOLEAN]) BY <1>9 DEF RowType
    <2>2. QED BY <1>0, <1>1, <1>5, <2>1 DEF ListTypeOK
  <1>11. QED BY <1>0, <1>2, <1>5, <1>6, <1>9, <1>10, MessageStep

LEMMA StoreKeeps ==
  ASSUME ListInv, NEW m \in Messages, Store(m)
  PROVE  ListInv'
  <1> USE DEF ListInv
  <1>00. PICK c : c = IF m \in Incoming THEN Conversation[m] ELSE recipient[m] OBVIOUS
  <1>0. /\ stored' = stored \cup {m} /\ Known(c, m) /\ (m \in Own => core[m] = "sent")
        /\ count' = [count EXCEPT ![c] = @ + 1]
        /\ UNCHANGED <<shown, sending, heard, requests, pending, resumed, crossed>>
    BY <1>00 DEF Store, ConversationOf
  <1>1. /\ UNCHANGED <<core, recipient, uploads>>
        /\ UNCHANGED <<active, displayed, fetchId, loading, rows, page, total, asOf>>
    BY <1>0 DEF sending, shown
  <1>2. CoreStep BY <1>1, CoreSame
  <1>3. c \in Conversations /\ m \in Kept(c)'
    <2>1. CASE m \in Incoming
      <3>1. c \in Conversations /\ m \notin Own /\ c = Conversation[m] BY <1>00, <2>1, ListAssumption
      <3>2. QED BY <2>1, <3>1 DEF Kept, At
    <2>2. CASE m \notin Incoming
      <3>1. m \in Own BY <2>2 DEF Messages
      <3>2. c = recipient[m] /\ core[m] = "sent" /\ recipient[m] \in Conversations
        BY <1>0, <1>00, <2>2, <3>1 DEF RecipientInv
      <3>3. At(m)' = c BY <1>1, <2>2, <3>1, <3>2 DEF At
      <3>4. QED BY <1>1, <3>2, <3>3 DEF Kept
    <2>3. QED BY <2>1, <2>2
  <1>4. log' \in [Conversations -> Seq(Messages)] /\ LogInv' BY <1>0, <1>2, <1>3, KnownKeeps
  <1>5. RecipientInv' /\ UploadInv' BY <1>1 DEF RecipientInv, UploadInv
  <1>6. ListTypeOK'
    <2>1. count' \in [Conversations -> Nat]
      <3>1. count \in [Conversations -> Nat] BY DEF ListTypeOK
      <3>2. count[c] + 1 \in Nat BY <1>3, <3>1
      <3>3. QED BY <1>0, <3>1, <3>2
    <2>2. QED BY <1>0, <1>1, <1>4, <2>1 DEF ListTypeOK
  <1>7. RowInv' /\ (Clean => Clean') BY <1>1, RowsStay
  <1>8. Whole(rows, displayed, page) => Whole(rows', displayed, page) BY <1>1
  <1>9. UNCHANGED <<active, displayed, fetchId, loading, page, total, asOf, requests, pending, resumed, crossed>>
    BY <1>0, <1>1
  <1>10. QED BY <1>2, <1>4, <1>5, <1>6, <1>7, <1>8, <1>9, MessageStep

LEMMA SendKeeps ==
  ASSUME ListInv, NEW m \in Own, Send(m)
  PROVE  ListInv'
  <1> USE DEF ListInv
  <1> DEFINE how == IF m \in Files THEN "uploading" ELSE "sending"
             x == [is |-> m, sending |-> TRUE]
  <1>0. /\ core[m] = "none" /\ active # None
        /\ core' = [core EXCEPT ![m] = how] /\ recipient' = [recipient EXCEPT ![m] = active]
        /\ rows' = Append(rows, x)
        /\ uploads' = IF m \in Files THEN [uploads EXCEPT ![m] = "uploading"] ELSE uploads
        /\ UNCHANGED <<active, displayed, fetchId, loading, page, total, asOf, world,
                       requests, pending, resumed, crossed>>
    BY DEF Send, InsertMessage
  <1>1. UNCHANGED <<heard, log, stored, count>> BY <1>0 DEF world
  <1>2. how \in {"uploading", "sending"} /\ (m \in Files => how = "uploading") OBVIOUS
  <1> HIDE DEF how
  <1>3. /\ core'[m] = how /\ recipient'[m] = active
        /\ \A k \in Own : k # m => core'[k] = core[k] /\ recipient'[k] = recipient[k]
    BY <1>0 DEF ListTypeOK
  <1>4. CoreStep BY <1>0, <1>3 DEF CoreStep
  <1>5. active \in Conversations BY <1>0 DEF ListTypeOK
  <1>6. RecipientInv'
    <2>1. ASSUME NEW k \in Own, core'[k] # "none" PROVE recipient'[k] \in Conversations
      BY <1>3, <1>5, <2>1 DEF RecipientInv
    <2>2. QED BY <2>1 DEF RecipientInv
  <1>7. log' \in [Conversations -> Seq(Messages)] /\ LogInv' BY <1>1, <1>4, LogStays
  <1>8. uploads' \in [Files -> {"absent", "uploading", "idle", "canceled"}] BY <1>0 DEF ListTypeOK
  <1>9. UploadInv'
    <2> SUFFICES ASSUME NEW k \in Files, core'[k] \notin {"uploading", "aborting"}
                 PROVE  uploads'[k] # "uploading"
      BY DEF UploadInv
    <2>1. k # m BY <1>2, <1>3
    <2>2. k \in Own BY DEF Own
    <2>3. core'[k] = core[k] BY <1>3, <2>1, <2>2
    <2>4. uploads'[k] = uploads[k] BY <1>0, <2>1 DEF ListTypeOK
    <2>5. QED BY <2>3, <2>4 DEF UploadInv
  <1>10. /\ core' \in [Own -> {"none", "uploading", "aborting", "sending", "sent", "failed", "canceled"}]
         /\ recipient' \in [Own -> Conversations \cup {None}]
    BY <1>0, <1>2, <1>5 DEF ListTypeOK
  <1>11. m \in Messages BY DEF Messages
  <1>12. x.is = m /\ x.sending = TRUE /\ x \in RowType BY <1>11, RowMade
  <1> HIDE DEF x
  <1>13. GoodRow \subseteq GoodRow'
    <2>1. \A k \in Own : core'[k] = "sent" => core[k] = "sent" BY <1>2, <1>3
    <2>2. QED BY <1>4, <2>1, GoodGrows
  <1>14. CleanRow \subseteq CleanRow'
    <2>1. \A k \in Own : recipient'[k] = recipient[k] \/ recipient'[k] = active BY <1>3
    <2>2. \A k \in Files : core'[k] \notin {"aborting", "canceled"} \/ core'[k] = core[k] BY <1>2, <1>3 DEF Own
    <2>3. QED BY <1>0, <2>1, <2>2, CleanGrows
  <1>15. x \in GoodRow' BY <1>2, <1>3, <1>12 DEF GoodRow
  <1>16. x \in CleanRow'
    <2>1. m \notin Incoming BY ListAssumption
    <2>2. At(m)' = active' BY <1>0, <1>3, <2>1 DEF At
    <2>3. QED BY <1>2, <1>3, <1>12, <2>2 DEF CleanRow
  <1>17. \A i \in 1..Len(rows) : rows[i].is # x.is
    <2>1. rows \in Seq(GoodRow) BY DEF RowInv
    <2>2. \A i \in 1..Len(rows) : rows[i] \in GoodRow BY <2>1, ElementOfSeq
    <2>3. QED BY <1>0, <1>12, <2>2 DEF GoodRow
  <1>18. /\ rows' \in Seq(RowType) /\ RowInv' /\ (Clean => Clean')
         /\ (Whole(rows, displayed, page) => Whole(rows', displayed, page))
    <2>1. UNCHANGED <<active, displayed>> /\ rows' = Append(rows, x) /\ x.is \in Messages BY <1>0, <1>11, <1>12
    <2>2. QED BY <1>4, <1>12, <1>13, <1>14, <1>15, <1>16, <1>17, <2>1, AppendKeeps
  <1>19. ListTypeOK'
    <2>1. rows' \in Seq([is : Tokens \cup Messages, sending : BOOLEAN]) BY <1>18 DEF RowType
    <2>2. QED BY <1>0, <1>1, <1>7, <1>8, <1>10, <2>1 DEF ListTypeOK
  <1>20. QED BY <1>0, <1>4, <1>6, <1>7, <1>9, <1>18, <1>19, MessageStep

LEMMA DeleteKeeps ==
  ASSUME ListInv, NEW i \in 1..Len(rows), DeleteMessage(i)
  PROVE  ListInv'
  <1> USE DEF ListInv
  <1>0. /\ rows[i].is \in Messages /\ rows' = RemoveAt(rows, i)
        /\ UNCHANGED <<active, displayed, fetchId, loading, page, total, asOf, sending, world,
                       requests, pending, resumed, crossed>>
    BY DEF DeleteMessage
  <1>1. UNCHANGED <<core, recipient, uploads, heard, log, stored, count>> BY <1>0 DEF sending, world
  <1>2. CoreStep BY <1>1, CoreSame
  <1>3. RecipientInv' /\ LogInv' /\ UploadInv' BY <1>0, SendingStays
  <1>4. GoodRow \subseteq GoodRow' BY <1>1, <1>2, GoodGrows
  <1>5. /\ rows' \in Seq(RowType) /\ RowInv'
        /\ (Whole(rows, displayed, page) => Whole(rows', displayed, page))
    BY <1>0, <1>2, <1>4, RemoveKeeps
  <1>6. ASSUME Clean PROVE Clean'
    <2>1. \A x : At(x)' = At(x) BY <1>1 DEF At
    <2>2. CleanRow' = CleanRow BY <1>0, <1>1, <2>1 DEF CleanRow
    <2>3. rows \in Seq(CleanRow) BY <1>6 DEF Clean
    <2>4. RemoveAt(rows, i) \in Seq(CleanRow) BY <2>3, Removed
    <2>5. QED BY <1>0, <1>6, <2>2, <2>4 DEF Clean
  <1>7. ListTypeOK'
    <2>1. rows' \in Seq([is : Tokens \cup Messages, sending : BOOLEAN]) BY <1>5 DEF RowType
    <2>2. QED BY <1>0, <1>1, <2>1 DEF ListTypeOK
  <1>8. QED BY <1>0, <1>2, <1>3, <1>5, <1>6, <1>7, MessageStep

\* A change of one message in the queue.
LEMMA CoreChange ==
  ASSUME ListInv, NEW m \in Own, NEW how \in {"sending", "sent", "failed", "canceled"},
         core' = [core EXCEPT ![m] = how], UNCHANGED recipient, core[m] \notin {"none", "sent"}
  PROVE  /\ CoreStep /\ RecipientInv'
         /\ core' \in [Own -> {"none", "uploading", "aborting", "sending", "sent", "failed", "canceled"}]
         /\ core'[m] = how /\ \A k \in Own : k # m => core'[k] = core[k]
  <1>1. core \in [Own -> {"none", "uploading", "aborting", "sending", "sent", "failed", "canceled"}]
    BY DEF ListInv, ListTypeOK
  <1>2. /\ core'[m] = how /\ \A k \in Own : k # m => core'[k] = core[k]
        /\ core' \in [Own -> {"none", "uploading", "aborting", "sending", "sent", "failed", "canceled"}]
    BY <1>1
  <1>3. CoreStep BY <1>2 DEF CoreStep
  <1>4. RecipientInv' BY <1>2 DEF RecipientInv, ListInv
  <1>5. QED BY <1>2, <1>3, <1>4

\* updateMessageSeningStatus() changes no more than a flag, and that of the only row of
\* a message that is being sent.
LEMMA FlagChanged ==
  ASSUME ListInv, NEW m \in Own, core[m] = "sending", Sending(m, FALSE)
  PROVE  /\ rows' \in Seq(RowType) /\ Len(rows') = Len(rows)
         /\ \A i \in 1..Len(rows) :
              /\ rows'[i].is = rows[i].is
              /\ IF rows[i].is = m THEN ~rows'[i].sending ELSE rows'[i] = rows[i]
  <1> DEFINE at == {i \in 1..Len(rows) : rows[i].is = m}
  <1>0. rows \in Seq(RowType) /\ Len(rows) \in Nat /\ Single(rows)
    BY LenProperties DEF ListInv, ListTypeOK, RowType, RowInv
  <1>1. CASE at = {}
    <2>1. rows' = rows BY <1>1 DEF Sending
    <2>2. QED BY <1>0, <1>1, <2>1
  <1>2. CASE at # {}
    <2> DEFINE k == CHOOSE i \in at : \A j \in at : i <= j
    <2>1. rows' = [rows EXCEPT ![k].sending = FALSE] BY <1>2, Zenon DEF Sending
    <2>2. k \in at
      <3>1. at \subseteq Nat BY <1>0
      <3> HIDE DEF at
      <3>2. \E i \in at : \A j \in at : i <= j BY <1>2, <3>1, Least
      <3>3. QED BY <3>2
    <2>3. k \in 1..Len(rows) /\ rows[k].is = m BY <2>2
    <2> HIDE DEF k, at
    <2>4. rows[k] \in RowType BY <1>0, <2>3, ElementOfSeq
    <2> DEFINE x == [rows[k] EXCEPT !.sending = FALSE]
    <2>5. x \in RowType /\ x.is = m /\ x.sending = FALSE BY <2>3, <2>4 DEF RowType
    <2>6. rows' = [rows EXCEPT ![k] = x] BY <2>1
    <2> HIDE DEF x
    <2>7. rows' \in Seq(RowType) /\ Len(rows') = Len(rows) BY <1>0, <2>3, <2>5, <2>6, ExceptSeq
    <2>8. ASSUME NEW i \in 1..Len(rows)
          PROVE  rows'[i] = IF i = k THEN x ELSE rows[i]
      BY <1>0, <2>3, <2>5, <2>6, ExceptSeq
    <2>9. ASSUME NEW i \in 1..Len(rows), rows[i].is = m PROVE i = k
      BY <1>0, <2>3, <2>9 DEF Single
    <2>10. QED BY <2>3, <2>5, <2>7, <2>8, <2>9
  <1>3. QED BY <1>1, <1>2

LEMMA SendFinishedKeeps ==
  ASSUME ListInv, NEW m \in Own, NEW how \in {"sent", "failed"}, SendFinished(m, how)
  PROVE  ListInv'
  <1> USE DEF ListInv
  <1>0. /\ core[m] = "sending" /\ core' = [core EXCEPT ![m] = how] /\ Sending(m, FALSE)
        /\ UNCHANGED <<active, displayed, fetchId, loading, page, total, asOf, uploads,
                       recipient, heard, stored, count, requests, pending, resumed, crossed>>
    BY DEF SendFinished
  <1>1. how \in {"sending", "sent", "failed", "canceled"} /\ core[m] \notin {"none", "sent"} BY <1>0
  <1>2. /\ CoreStep /\ RecipientInv'
        /\ core' \in [Own -> {"none", "uploading", "aborting", "sending", "sent", "failed", "canceled"}]
        /\ core'[m] = how /\ \A k \in Own : k # m => core'[k] = core[k]
    BY <1>0, <1>1, CoreChange
  <1>3. log' \in [Conversations -> Seq(Messages)] /\ LogInv'
    <2>1. CASE how = "sent"
      <3>1. PICK c : c = recipient[m] OBVIOUS
      <3>2. c \in Conversations BY <1>1, <3>1 DEF RecipientInv
      <3>3. m \notin Incoming /\ m \in Messages BY ListAssumption DEF Messages
      <3>4. At(m)' = c BY <1>0, <3>1, <3>3 DEF At
      <3>5. m \in Kept(c)' BY <1>2, <2>1, <3>3, <3>4 DEF Kept
      <3>6. Known(c, m) BY <2>1, <3>1 DEF SendFinished
      <3>7. QED BY <1>2, <3>2, <3>3, <3>5, <3>6, KnownKeeps
    <2>2. CASE how # "sent"
      <3>1. UNCHANGED log BY <2>2 DEF SendFinished
      <3>2. QED BY <1>2, <3>1, LogStays
    <2>3. QED BY <2>1, <2>2
  <1>4. UploadInv'
    <2>1. ASSUME NEW k \in Files, core'[k] \notin {"uploading", "aborting"} PROVE uploads'[k] # "uploading"
      <3>1. core[k] \notin {"uploading", "aborting"} BY <1>0, <1>2, <2>1 DEF Own
      <3>2. QED BY <1>0, <3>1 DEF UploadInv
    <2>2. QED BY <2>1 DEF UploadInv
  <1>5. /\ rows' \in Seq(RowType) /\ Len(rows') = Len(rows)
        /\ \A i \in 1..Len(rows) :
             /\ rows'[i].is = rows[i].is
             /\ IF rows[i].is = m THEN ~rows'[i].sending ELSE rows'[i] = rows[i]
    BY <1>0, FlagChanged
  <1>6. RowInv'
    <2>1. rows \in Seq(GoodRow) /\ Single(rows) BY DEF RowInv
    <2>2. ASSUME NEW i \in 1..Len(rows') PROVE rows'[i] \in GoodRow'
      <3>1. rows'[i] \in RowType BY <1>5, ElementOfSeq
      <3>2. i \in 1..Len(rows) /\ rows'[i].is = rows[i].is BY <1>5
      <3>3. rows[i] \in GoodRow BY <2>1, <3>2, ElementOfSeq
      <3>4. CASE rows[i].is = m
        <4>1. ~rows'[i].sending /\ core'[m] # "none" BY <1>2, <1>5, <3>2, <3>4
        <4>2. QED BY <3>1, <3>2, <3>4, <4>1 DEF GoodRow
      <3>5. CASE rows[i].is # m
        <4>1. rows'[i] = rows[i] BY <1>5, <3>2, <3>5
        <4>2. QED BY <1>2, <3>3, <3>5, <4>1 DEF GoodRow
      <3>6. QED BY <3>4, <3>5
    <2>3. rows' \in Seq(GoodRow') BY <1>5, <2>2, LenProperties, SeqDef
    <2>4. Single(rows)' BY <1>2, <1>5, <2>1 DEF Single, CoreStep
    <2>5. QED BY <2>3, <2>4 DEF RowInv
  <1>7. ASSUME Clean PROVE Clean'
    <2>1. rows \in Seq(CleanRow) /\ displayed = active BY <1>7 DEF Clean
    <2>2. ASSUME NEW i \in 1..Len(rows') PROVE rows'[i] \in CleanRow'
      <3>1. rows'[i] \in RowType BY <1>5, ElementOfSeq
      <3>2. i \in 1..Len(rows) /\ rows'[i].is = rows[i].is BY <1>5
      <3>3. rows[i] \in CleanRow BY <2>1, <3>2, ElementOfSeq
      <3>4. core'[m] \notin {"aborting", "canceled"} BY <1>2
      <3>5. rows[i].is \in Files => core'[rows[i].is] \notin {"aborting", "canceled"}
        BY <1>2, <3>3, <3>4 DEF CleanRow, Own
      <3>6. At(rows[i].is)' = active'
        <4>1. \A y : At(y)' = At(y) BY <1>0 DEF At
        <4>2. PICK y : y = rows[i].is OBVIOUS
        <4>3. At(y) = active BY <3>3, <4>2 DEF CleanRow
        <4>4. QED BY <1>0, <3>2, <4>1, <4>2, <4>3
      <3>7. QED BY <3>1, <3>2, <3>5, <3>6 DEF CleanRow
    <2>3. rows' \in Seq(CleanRow') BY <1>5, <2>2, LenProperties, SeqDef
    <2>4. QED BY <1>0, <2>1, <2>3 DEF Clean
  <1>8. Whole(rows, displayed, page) => Whole(rows', displayed, page) BY <1>5 DEF Whole
  <1>9. ListTypeOK'
    <2>1. rows' \in Seq([is : Tokens \cup Messages, sending : BOOLEAN]) BY <1>5 DEF RowType
    <2>2. QED BY <1>0, <1>2, <1>3, <2>1 DEF ListTypeOK
  <1>10. QED BY <1>0, <1>2, <1>3, <1>4, <1>6, <1>7, <1>8, <1>9, MessageStep

LEMMA UploadProgressKeeps ==
  ASSUME ListInv, NEW m \in Files, UploadProgress(m)
  PROVE  ListInv'
  <1> USE DEF ListInv
  <1>0. UNCHANGED <<shown, core, recipient, world, requests, pending, resumed, crossed>>
    BY DEF UploadProgress
  <1>1. /\ uploads' \in [Files -> {"absent", "uploading", "idle", "canceled"}]
        /\ \A k \in Files : uploads'[k] = "uploading" => uploads[k] = "uploading"
    <2>1. uploads \in [Files -> {"absent", "uploading", "idle", "canceled"}] BY DEF ListTypeOK
    <2>2. PICK done \in BOOLEAN :
            IF done \/ uploads[m] = "uploading" THEN SetUploadProgress(m, ~done) ELSE UNCHANGED uploads
      BY DEF UploadProgress
    <2>3. CASE done
      <3>1. SetUploadProgress(m, FALSE)
        <4>1. ~done = FALSE BY <2>3
        <4>2. SetUploadProgress(m, ~done) BY <2>2, <2>3
        <4>3. QED BY <4>1, <4>2
      <3>2. QED BY <2>1, <3>1 DEF SetUploadProgress
    <2>4. CASE ~done /\ uploads[m] = "uploading"
      <3>1. SetUploadProgress(m, TRUE)
        <4>1. ~done = TRUE BY <2>4
        <4>2. SetUploadProgress(m, ~done) BY <2>2, <2>4
        <4>3. QED BY <4>1, <4>2
      <3>2. QED BY <2>1, <2>4, <3>1 DEF SetUploadProgress
    <2>5. CASE ~done /\ uploads[m] # "uploading" BY <2>1, <2>2, <2>5
    <2>6. QED BY <2>3, <2>4, <2>5
  <1>2. /\ UNCHANGED <<active, displayed, fetchId, loading, rows, page, total, asOf, heard, log, stored, count>>
        /\ UNCHANGED <<world, core, recipient>>
    BY <1>0 DEF shown, world
  <1>3. CoreStep BY <1>2, CoreSame
  <1>4. RecipientInv' BY <1>2 DEF RecipientInv
  <1>5. log' \in [Conversations -> Seq(Messages)] /\ LogInv' BY <1>2, <1>3, LogStays
  <1>6. UploadInv' BY <1>1, <1>2 DEF UploadInv
  <1>7. RowInv' /\ (Clean => Clean') BY <1>2, RowsStay
  <1>8. ListTypeOK' BY <1>0, <1>1, <1>2 DEF ListTypeOK
  <1>9. Whole(rows, displayed, page) => Whole(rows', displayed, page) BY <1>2
  <1>10. UNCHANGED <<active, displayed, fetchId, loading, page, total, asOf, requests, pending, resumed, crossed>>
    BY <1>0, <1>2
  <1>11. QED BY <1>3, <1>4, <1>5, <1>6, <1>7, <1>8, <1>9, <1>10, MessageStep

LEMMA UploadEndsKeeps ==
  ASSUME ListInv, NEW m \in Files, NEW how \in {"sending", "failed"}, UploadEnds(m, how)
  PROVE  ListInv'
  <1> USE DEF ListInv
  <1>0. /\ core[m] \in {"uploading", "aborting"} /\ core' = [core EXCEPT ![m] = how]
        /\ SetUploadProgress(m, FALSE)
        /\ UNCHANGED <<shown, recipient, world, requests, pending, resumed, crossed>>
    BY DEF UploadEnds
  <1>1. UNCHANGED <<active, displayed, fetchId, loading, rows, page, total, asOf, heard, log, stored, count>>
    BY <1>0 DEF shown, world
  <1>2. /\ m \in Own /\ how \in {"sending", "sent", "failed", "canceled"}
        /\ core[m] \notin {"none", "sent"}
    BY <1>0 DEF Own
  <1>3. /\ CoreStep /\ RecipientInv'
        /\ core' \in [Own -> {"none", "uploading", "aborting", "sending", "sent", "failed", "canceled"}]
        /\ core'[m] = how /\ \A k \in Own : k # m => core'[k] = core[k]
    BY <1>0, <1>2, CoreChange
  <1>4. log' \in [Conversations -> Seq(Messages)] /\ LogInv' BY <1>1, <1>3, LogStays
  <1>5. /\ uploads' \in [Files -> {"absent", "uploading", "idle", "canceled"}]
        /\ uploads'[m] # "uploading" /\ \A k \in Files : k # m => uploads'[k] = uploads[k]
    BY <1>0 DEF SetUploadProgress, ListTypeOK
  <1>6. UploadInv' BY <1>3, <1>5 DEF UploadInv, Own
  <1>7. GoodRow \subseteq GoodRow'
    <2>1. \A k \in Own : core'[k] = "sent" => core[k] = "sent" BY <1>3
    <2>2. QED BY <1>3, <2>1, GoodGrows
  <1>8. CleanRow \subseteq CleanRow'
    <2>1. \A k \in Files : core'[k] \notin {"aborting", "canceled"} \/ core'[k] = core[k] BY <1>3 DEF Own
    <2>2. QED BY <1>0, <1>1, <2>1, CleanGrows
  <1>9. RowInv' /\ (Clean => Clean') BY <1>1, <1>3, <1>7, <1>8, SameKeeps
  <1>10. ListTypeOK' BY <1>0, <1>1, <1>3, <1>5 DEF ListTypeOK
  <1>11. Whole(rows, displayed, page) => Whole(rows', displayed, page) BY <1>1
  <1>12. UNCHANGED <<active, displayed, fetchId, loading, page, total, asOf, requests, pending, resumed, crossed>>
    BY <1>0, <1>1
  <1>13. QED BY <1>3, <1>4, <1>6, <1>9, <1>10, <1>11, <1>12, MessageStep

\* An upload is canceled and its row goes, or there was none in a list that is clean.
LEMMA CancelKeeps ==
  ASSUME ListInv, NEW m \in Files, core[m] \in {"uploading", "aborting"},
         core' = [core EXCEPT ![m] = "canceled"],
         UNCHANGED <<active, displayed, fetchId, loading, page, total, asOf, recipient,
                     world, requests, pending, resumed, crossed>>,
         uploads' \in [Files -> {"absent", "uploading", "idle", "canceled"}],
         uploads'[m] # "uploading", \A k \in Files : k # m => uploads'[k] = uploads[k],
         \/ UNCHANGED rows /\ (Clean => \A i \in 1..Len(rows) : rows[i].is # m)
         \/ \E k \in 1..Len(rows) : rows[k].is = m /\ rows' = RemoveAt(rows, k)
  PROVE  ListInv'
  <1> USE DEF ListInv
  <1>1. UNCHANGED <<heard, log, stored, count>> BY DEF world
  <1>2. m \in Own /\ m \in Messages /\ core[m] \notin {"none", "sent"} BY DEF Own, Messages
  <1>3. /\ CoreStep /\ RecipientInv'
        /\ core' \in [Own -> {"none", "uploading", "aborting", "sending", "sent", "failed", "canceled"}]
        /\ core'[m] = "canceled" /\ \A k \in Own : k # m => core'[k] = core[k]
    BY <1>2, CoreChange
  <1>4. log' \in [Conversations -> Seq(Messages)] /\ LogInv' BY <1>1, <1>3, LogStays
  <1>5. UploadInv' BY <1>3 DEF UploadInv, Own
  <1>6. GoodRow \subseteq GoodRow'
    <2>1. \A k \in Own : core'[k] = "sent" => core[k] = "sent" BY <1>3
    <2>2. QED BY <1>3, <2>1, GoodGrows
  <1>7. ASSUME NEW x \in CleanRow, x.is # m PROVE x \in CleanRow'
    <2>1. x.is \in Files => core'[x.is] = core[x.is] BY <1>3, <1>7 DEF Own
    <2>2. QED BY <2>1, CleanGrows
  <1>8. /\ rows' \in Seq(RowType) /\ RowInv' /\ (Clean => Clean')
        /\ (Whole(rows, displayed, page) => Whole(rows', displayed, page))
    <2>1. CASE UNCHANGED rows /\ (Clean => \A i \in 1..Len(rows) : rows[i].is # m)
      <3>1. rows' \in Seq(RowType) BY <2>1 DEF ListTypeOK, RowType
      <3>2. RowInv' BY <1>3, <1>6, <2>1, SameKeeps
      <3>3. ASSUME Clean PROVE Clean'
        <4>1. rows \in Seq(CleanRow) /\ displayed = active BY <3>3 DEF Clean
        <4>2. ASSUME NEW i \in 1..Len(rows) PROVE rows[i] \in CleanRow'
          <5>1. rows[i] \in CleanRow BY <4>1, ElementOfSeq
          <5>2. QED BY <1>7, <2>1, <3>3, <5>1
        <4>3. rows \in Seq(CleanRow') BY <4>1, <4>2, LenProperties, SeqDef
        <4>4. QED BY <2>1, <4>1, <4>3 DEF Clean
      <3>4. QED BY <2>1, <3>1, <3>2, <3>3
    <2>2. CASE \E k \in 1..Len(rows) : rows[k].is = m /\ rows' = RemoveAt(rows, k)
      <3>1. PICK k \in 1..Len(rows) : rows[k].is = m /\ rows' = RemoveAt(rows, k) BY <2>2
      <3>2. /\ rows' \in Seq(RowType) /\ RowInv'
            /\ (Whole(rows, displayed, page) => Whole(rows', displayed, page))
        BY <1>2, <1>3, <1>6, <3>1, RemoveKeeps
      <3>3. ASSUME Clean PROVE Clean'
        <4>1. rows \in Seq(CleanRow) /\ displayed = active BY <3>3 DEF Clean
        <4>2. PICK new : new = RemoveAt(rows, k) OBVIOUS
        <4>3. /\ new \in Seq(CleanRow) /\ Len(new) \in Nat
              /\ \A i \in 1..Len(new) : /\ Shift(k, i) \in 1..Len(rows) /\ Shift(k, i) # k
                                        /\ new[i] = rows[Shift(k, i)]
          BY <4>1, <4>2, Removed
        <4>4. ASSUME NEW i \in 1..Len(new) PROVE new[i] \in CleanRow'
          <5>1. new[i] \in CleanRow BY <4>3, ElementOfSeq
          <5>2. PICK j \in 1..Len(rows) : j # k /\ new[i] = rows[j] BY <4>3
          <5>3. rows[j].is # m BY <1>2, <3>1, <5>2 DEF RowInv, Single
          <5>4. QED BY <1>7, <5>1, <5>2, <5>3
        <4>5. new \in Seq(CleanRow')
          <5> DEFINE B == CleanRow'
          <5>1. new \in Seq(CleanRow) /\ \A i \in 1..Len(new) : new[i] \in B BY <4>3, <4>4
          <5>2. new \in Seq(B)
            <6> HIDE DEF B
            <6>1. QED BY <5>1, LenProperties, SeqDef
          <5>3. QED BY <5>2
        <4>6. QED BY <3>1, <4>1, <4>2, <4>5 DEF Clean
      <3>4. QED BY <3>2, <3>3
    <2>3. QED BY <2>1, <2>2
  <1>9. ListTypeOK'
    <2>1. rows' \in Seq([is : Tokens \cup Messages, sending : BOOLEAN]) BY <1>8 DEF RowType
    <2>2. QED BY <1>1, <1>3, <1>4, <2>1 DEF ListTypeOK
  <1>10. QED BY <1>3, <1>4, <1>5, <1>8, <1>9, MessageStep

\* removeCanceledUpload() of a running upload.
LEMMA CanceledRemoved ==
  ASSUME ListInv, NEW m \in Files, RemoveCanceledUpload(m)
  PROVE  /\ uploads' \in [Files -> {"absent", "uploading", "idle", "canceled"}]
         /\ uploads'[m] # "uploading" /\ \A k \in Files : k # m => uploads'[k] = uploads[k]
         /\ \/ UNCHANGED rows /\ (   uploads[m] \in {"absent", "canceled"}
                                  \/ \A i \in 1..Len(rows) : rows[i].is # m)
            \/ \E k \in 1..Len(rows) : rows[k].is = m /\ rows' = RemoveAt(rows, k)
  <1>0. uploads \in [Files -> {"absent", "uploading", "idle", "canceled"}] /\ Len(rows) \in Nat
    BY LenProperties DEF ListInv, ListTypeOK
  <1>1. CASE uploads[m] \in {"absent", "canceled"}
    <2>1. UNCHANGED <<uploads, rows>> BY <1>1 DEF RemoveCanceledUpload
    <2>2. QED BY <1>0, <1>1, <2>1
  <1>2. CASE uploads[m] \notin {"absent", "canceled"}
    <2> DEFINE at == {i \in 1..Len(rows) : rows[i].is = m}
               k == CHOOSE i \in at : \A j \in at : i <= j
    <2>1. /\ uploads' = [uploads EXCEPT ![m] = "canceled"]
          /\ rows' = IF at = {} THEN rows ELSE RemoveAt(rows, k)
      BY <1>2, Zenon DEF RemoveCanceledUpload
    <2>2. /\ uploads' \in [Files -> {"absent", "uploading", "idle", "canceled"}]
          /\ uploads'[m] # "uploading" /\ \A j \in Files : j # m => uploads'[j] = uploads[j]
      BY <1>0, <2>1
    <2>3. CASE at = {}
      <3>1. rows' = rows BY <2>1, <2>3
      <3>2. \A i \in 1..Len(rows) : rows[i].is # m BY <2>3
      <3>3. QED BY <2>2, <3>1, <3>2
    <2>4. CASE at # {}
      <3>1. k \in at
        <4>1. at \subseteq Nat BY <1>0
        <4> HIDE DEF at
        <4>2. \E i \in at : \A j \in at : i <= j BY <2>4, <4>1, Least
        <4>3. QED BY <4>2
      <3>2. k \in 1..Len(rows) /\ rows[k].is = m BY <3>1
      <3>3. rows' = RemoveAt(rows, k) BY <2>1, <2>4
      <3> HIDE DEF k
      <3>4. QED BY <2>2, <3>2, <3>3
    <2>5. QED BY <2>3, <2>4
  <1>3. QED BY <1>1, <1>2

LEMMA CancelFileUploadKeeps ==
  ASSUME ListInv, NEW m \in Files, CancelFileUpload(m)
  PROVE  ListInv'
  <1>1. /\ uploads[m] = "uploading" /\ core[m] \in {"uploading", "aborting"}
        /\ \E i \in 1..Len(rows) : rows[i].is = m
        /\ core' = [core EXCEPT ![m] = "canceled"] /\ RemoveCanceledUpload(m)
        /\ UNCHANGED <<active, displayed, fetchId, loading, page, total, asOf, recipient,
                       world, requests, pending, resumed, crossed>>
    BY DEF CancelFileUpload
  <1>2. /\ uploads' \in [Files -> {"absent", "uploading", "idle", "canceled"}]
        /\ uploads'[m] # "uploading" /\ \A k \in Files : k # m => uploads'[k] = uploads[k]
        /\ \E k \in 1..Len(rows) : rows[k].is = m /\ rows' = RemoveAt(rows, k)
    BY <1>1, CanceledRemoved
  <1>3. QED BY <1>1, <1>2, CancelKeeps

LEMMA BatchUploadCanceledKeeps ==
  ASSUME ListInv, NEW m \in Files, BatchUploadCanceled(m)
  PROVE  ListInv'
  <1>1. /\ core[m] = "aborting" /\ core' = [core EXCEPT ![m] = "canceled"]
        /\ SetUploadProgress(m, FALSE)
        /\ UNCHANGED <<active, displayed, fetchId, loading, rows, page, total, asOf, recipient,
                       world, requests, pending, resumed, crossed>>
    BY DEF BatchUploadCanceled, shown
  <1>2. ASSUME Clean PROVE \A i \in 1..Len(rows) : rows[i].is # m
    <2>1. rows \in Seq(CleanRow) BY <1>2 DEF Clean
    <2>2. \A i \in 1..Len(rows) : rows[i] \in CleanRow BY <2>1, ElementOfSeq
    <2>3. QED BY <1>1, <2>2 DEF CleanRow
  <1>3. core[m] \in {"uploading", "aborting"} BY <1>1
  <1>4. /\ uploads' \in [Files -> {"absent", "uploading", "idle", "canceled"}]
        /\ uploads'[m] # "uploading" /\ \A k \in Files : k # m => uploads'[k] = uploads[k]
    BY <1>1 DEF SetUploadProgress, ListInv, ListTypeOK
  <1>5. QED BY <1>1, <1>2, <1>3, <1>4, CancelKeeps

-----------------------------------------------------------------------------
(* Every step                                                              *)

LEMMA ListStep ==
  ASSUME ListInv, [ListNext]_listVars
  PROVE  ListInv'
  <1>1. CASE Answers BY <1>1, AnswerKeeps, AnswerOlderKeeps DEF Answers
  <1>2. CASE Handle BY <1>2, FirstPageKeeps, FetchFinishedKeeps, OlderPageKeeps DEF Handle
  <1>3. CASE User
    BY <1>3, FetchMessageKeeps, FetchNextKeeps, SendKeeps, CancelFileUploadKeeps, DeleteKeeps DEF User
  <1>4. CASE Others BY <1>4, MessageReceivedKeeps, StoreKeeps DEF Others
  <1>5. CASE Queue
    BY <1>5, SendFinishedKeeps, UploadProgressKeeps, BatchUploadCanceledKeeps, UploadEndsKeeps DEF Queue
  <1>6. CASE UNCHANGED listVars
    <2>1. /\ UNCHANGED <<active, displayed, fetchId, loading, rows, page, total, asOf>>
          /\ UNCHANGED <<uploads, core, recipient, heard, log, stored, count, sending, world>>
          /\ UNCHANGED <<requests, pending, resumed, crossed>>
      BY <1>6 DEF listVars, shown, sending, world
    <2>2. CoreStep BY <2>1, CoreSame
    <2>3. RecipientInv' /\ LogInv' /\ UploadInv' BY <2>1, SendingStays DEF ListInv
    <2>4. RowInv' /\ (Clean => Clean') BY <2>1, RowsStay DEF ListInv
    <2>5. ListTypeOK' BY <2>1 DEF ListInv, ListTypeOK
    <2>6. Whole(rows, displayed, page) => Whole(rows', displayed, page) BY <2>1
    <2>7. QED BY <2>1, <2>2, <2>3, <2>4, <2>5, <2>6, MessageStep
  <1>7. QED BY <1>1, <1>2, <1>3, <1>4, <1>5, <1>6 DEF ListNext

-----------------------------------------------------------------------------
(* When the pages were read                                                *)

ReadUpTo(n) == {x \in ResponseType : x.asOf <= n}

\* What the answers of a request tell was stored by now.
ReadOK(r) ==
  /\ r.asOf <= count[r.conversation]
  /\ r.results \in Seq(ReadUpTo(count[r.conversation]))

\* No page shown was read before the one in front of it, nor is one that is fetched.
ReadShown ==
  /\ \A p \in 1..page : displayed \in Conversations /\ asOf[p] <= count[displayed]
  /\ \A p \in 1..page - 1 : asOf[p] <= asOf[p + 1]
  /\ \A r \in OlderInFlight : r.answered => asOf[page] <= r.asOf
ReadInv == (\A r \in requests : ReadOK(r)) /\ (~crossed => ReadShown)

LEMMA ReadOKStays ==
  ASSUME NEW r \in RequestType, ReadOK(r), count \in [Conversations -> Nat],
         count' \in [Conversations -> Nat], \A c \in Conversations : count[c] <= count'[c]
  PROVE  ReadOK(r)'
  <1> DEFINE m == count[r.conversation]
             n == count'[r.conversation]
             A == ReadUpTo(m)
             B == ReadUpTo(n)
  <1>1. m \in Nat /\ n \in Nat /\ m <= n /\ r.asOf \in Nat BY DEF RequestType
  <1>2. r.asOf <= m /\ r.results \in Seq(A) BY DEF ReadOK
  <1>3. A \subseteq B
    <2> HIDE DEF m, n
    <2>1. QED BY <1>1 DEF ReadUpTo, ResponseType
  <1>4. r.results \in Seq(B)
    <2> HIDE DEF A, B
    <2>1. QED BY <1>2, <1>3, SeqWithin
  <1>5. r.asOf <= n
    <2> HIDE DEF m, n
    <2>1. QED BY <1>1, <1>2
  <1>6. QED BY <1>4, <1>5 DEF ReadOK, ReadUpTo

\* Steps that end requests or none, and fetch no page.
LEMMA ReadStays ==
  ASSUME ListTypeOK, ListTypeOK', RequestInv, ReadInv, requests' \subseteq requests,
         UNCHANGED <<fetchId, displayed, page, asOf, crossed>>,
         \A c \in Conversations : count[c] <= count'[c]
  PROVE  ReadInv'
  <1>1. /\ count \in [Conversations -> Nat] /\ count' \in [Conversations -> Nat]
        /\ asOf \in [1..LastPage -> Nat] /\ page \in 0..LastPage /\ LastPage \in Nat
    BY ListAssumption DEF ListTypeOK, LastPage
  <1>2. ASSUME NEW r \in requests' PROVE ReadOK(r)'
    BY <1>1, <1>2, ReadOKStays DEF ReadInv, RequestInv, RequestOK
  <1>3. ASSUME ReadShown PROVE ReadShown'
    <2>1. ASSUME NEW p \in 1..page PROVE displayed \in Conversations /\ asOf[p] <= count'[displayed]
      <3>1. displayed \in Conversations /\ asOf[p] <= count[displayed] BY <1>3 DEF ReadShown
      <3>2. asOf[p] \in Nat /\ count[displayed] \in Nat /\ count'[displayed] \in Nat BY <1>1, <3>1
      <3>3. count[displayed] <= count'[displayed] BY <3>1
      <3>4. QED BY <3>1, <3>2, <3>3
    <2>2. OlderInFlight' \subseteq OlderInFlight BY DEF OlderInFlight
    <2>3. QED BY <1>3, <2>1, <2>2 DEF ReadShown
  <1>4. QED BY <1>2, <1>3 DEF ReadInv

\* Steps that leave the list alone, and replace a request or add one.
LEMMA ReadReplaced ==
  ASSUME ListTypeOK, RequestInv, ReadInv, NEW r, NEW s, ReadOK(s),
         requests' \subseteq (requests \ {r}) \cup {s},
         UNCHANGED <<displayed, page, asOf, crossed, count>>,
         OlderInFlight' \subseteq OlderInFlight \cup {s},
         ~crossed /\ s \in OlderInFlight' /\ s.answered => asOf[page] <= s.asOf
  PROVE  ReadInv'
  <1>1. \A q \in requests' : ReadOK(q) BY DEF ReadInv
  <1>2. \A q \in requests' : ReadOK(q)' BY <1>1 DEF ReadOK, ReadUpTo
  <1>3. ASSUME ~crossed PROVE ReadShown' BY <1>3 DEF ReadInv, ReadShown
  <1>4. QED BY <1>2, <1>3 DEF ReadInv

\* One more answer for a request, read by now.
LEMMA OneRead ==
  ASSUME NEW n \in Nat, NEW x \in ResponseType, x.asOf <= n
  PROVE  <<x>> \in Seq(ReadUpTo(n))
  BY DEF ReadUpTo

LEMMA NoneRead == NoResponse \in ResponseType /\ NoResponse.asOf = 0
  <1>1. <<>> \in Seq(RowType) BY EmptySeq
  <1>2. 0 \in {0, 1} /\ 0 \in {0, Pages, LastPage} /\ 0 \in Nat OBVIOUS
  <1>3. QED BY <1>1, <1>2, ResponseMade DEF NoResponse, Response

LEMMA FetchMessageReads ==
  ASSUME ListInv, ReadInv, NEW c \in Conversations, FetchMessage(c)
  PROVE  ReadInv'
  <1> USE DEF ListInv
  <1>1. /\ UNCHANGED <<displayed, page, asOf, crossed, count>> /\ fetchId \in Nat /\ fetchId' = fetchId + 1
    BY DEF FetchMessage, world, ListTypeOK
  <1>2. count[c] \in Nat BY DEF ListTypeOK
  <1>3. PICK rs : /\ rs \in Seq(ReadUpTo(count[c]))
                  /\ requests' = requests \cup {Request(c, 1, rs)}
    <2>1. CASE requests' = requests \cup {Request(c, 1, <<>>)}
      <3>1. <<>> \in Seq(ReadUpTo(count[c])) BY EmptySeq
      <3>2. QED BY <2>1, <3>1
    <2>2. CASE \E n \in 0..count[c], S \in {Cached(c), ToSet(log[c])} :
                 requests' = requests \cup {Request(c, 1, <<FirstPage(c, n, S)>>)}
      <3>1. PICK n \in 0..count[c], S \in {Cached(c), ToSet(log[c])} :
              requests' = requests \cup {Request(c, 1, <<FirstPage(c, n, S)>>)}
        BY <2>2
      <3>2. n \in Nat /\ n <= count[c] BY <1>2
      <3>3. PICK x : x = FirstPage(c, n, S) OBVIOUS
      <3>4. x \in ResponseType /\ x.asOf <= count[c] BY <3>2, <3>3, FirstPageProper DEF Proper
      <3>5. <<x>> \in Seq(ReadUpTo(count[c])) BY <1>2, <3>4, OneRead
      <3>6. QED BY <3>1, <3>3, <3>5
    <2>3. QED BY <2>1, <2>2 DEF FetchMessage
  <1>4. PICK s : s = Request(c, 1, rs) OBVIOUS
  <1>5. s.asOf = 0 /\ s.conversation = c /\ s.results = rs /\ s.page = 1 BY <1>4 DEF Request
  <1>6. ReadOK(s) BY <1>2, <1>3, <1>5 DEF ReadOK
  <1>7. requests' \subseteq (requests \ {s}) \cup {s} BY <1>3, <1>4
  <1>8. OlderInFlight' = {}
    <2>1. ASSUME NEW q \in requests' PROVE ~(q.page > 1 /\ q.id = fetchId')
      <3>1. CASE q = s BY <1>5, <3>1
      <3>2. CASE q \in requests
        <4>1. q.id \in 0..fetchId BY <3>2 DEF RequestInv, RequestOK
        <4>2. q.id # fetchId' BY <1>1, <4>1
        <4>3. QED BY <4>2
      <3>3. QED BY <1>7, <3>1, <3>2
    <2>2. QED BY <2>1 DEF OlderInFlight
  <1>9. QED BY <1>1, <1>6, <1>7, <1>8, ReadReplaced

LEMMA FetchNextReads ==
  ASSUME ListInv, ReadInv, FetchNextMessage, ListTypeOK'
  PROVE  ReadInv'
  <1> USE DEF ListInv
  <1>1. UNCHANGED <<fetchId, displayed, page, asOf, crossed, count>> /\ displayed # None /\ ~loading
    BY DEF FetchNextMessage, CanRequestOlder, world
  <1>2. CASE page < 1 \/ page >= total
    <2>1. requests' = requests BY <1>2 DEF FetchNextMessage
    <2>2. \A c \in Conversations : count[c] <= count'[c] BY <1>1 DEF ListTypeOK
    <2>3. QED BY <1>1, <2>1, <2>2, ReadStays
  <1>3. CASE ~(page < 1 \/ page >= total)
    <2>1. requests' = requests \cup {Request(active, page + 1, <<>>)} BY <1>3 DEF FetchNextMessage
    <2>2. PICK s : s = Request(active, page + 1, <<>>) OBVIOUS
    <2>3. s.asOf = 0 /\ s.conversation = active /\ s.results = <<>> /\ s.answered = FALSE
      BY <2>2 DEF Request
    <2>4. active \in Conversations BY <1>1 DEF CleanInv, Due, Clean, ListTypeOK
    <2>5. count[active] \in Nat BY <2>4 DEF ListTypeOK
    <2>6. <<>> \in Seq(ReadUpTo(count[active])) BY EmptySeq
    <2>7. ReadOK(s) BY <2>3, <2>5, <2>6 DEF ReadOK
    <2>8. requests' \subseteq (requests \ {s}) \cup {s} BY <2>1, <2>2
    <2>9. OlderInFlight' \subseteq OlderInFlight \cup {s} BY <1>1, <2>8 DEF OlderInFlight
    <2>10. QED BY <1>1, <2>3, <2>7, <2>8, <2>9, ReadReplaced
  <1>4. QED BY <1>2, <1>3

LEMMA AnswerReads ==
  ASSUME ListInv, ReadInv, NEW r \in requests, Answer(r)
  PROVE  ReadInv'
  <1> USE DEF ListInv
  <1> DEFINE c == r.conversation
  <1>1. r.page = 1 /\ UNCHANGED <<fetchId, displayed, page, asOf, crossed, count>>
    BY DEF Answer, shown, world
  <1>2. r \in RequestType /\ c \in Conversations /\ count[c] \in Nat /\ ReadOK(r)
    BY DEF RequestInv, RequestOK, RequestType, ReadInv, ListTypeOK
  <1> DEFINE N == count[c]
             A == ReadUpTo(N)
  <1>3. PICK more \in {<<>>, <<FirstPage(c, count[c], stored)>>} :
          requests' = (requests \ {r}) \cup
            {[r EXCEPT !.answered = TRUE, !.made = TRUE,
                       !.results = @ \o IF more = <<>> /\ ~r.made THEN <<NoResponse>> ELSE more]}
    BY DEF Answer
  <1> DEFINE x == IF more = <<>> /\ ~r.made THEN <<NoResponse>> ELSE more
             y == r.results \o x
             s == [r EXCEPT !.answered = TRUE, !.made = TRUE, !.results = y]
  <1>4. x \in Seq(A)
    <2>1. FirstPage(c, count[c], stored) \in ResponseType /\ FirstPage(c, count[c], stored).asOf <= N
      BY <1>2, FirstPageProper DEF Proper
    <2>2. PICK fp : fp = FirstPage(c, count[c], stored) OBVIOUS
    <2>3. <<fp>> \in Seq(ReadUpTo(N)) BY <1>2, <2>1, <2>2, OneRead
    <2>4. NoResponse \in ResponseType /\ NoResponse.asOf <= N BY <1>2, NoneRead
    <2>5. <<NoResponse>> \in Seq(ReadUpTo(N)) BY <1>2, <2>4, OneRead
    <2>6. <<>> \in Seq(A) BY EmptySeq
    <2>7. QED BY <2>2, <2>3, <2>5, <2>6
  <1>5. requests' = (requests \ {r}) \cup {s} BY <1>3, Zenon
  <1> HIDE DEF x
  <1>6. r.results \in Seq(A) /\ r.asOf <= N BY <1>2 DEF ReadOK
  <1>7. y \in Seq(A)
    <2> HIDE DEF A
    <2>1. QED BY <1>4, <1>6, ConcatProperties
  <1> HIDE DEF y
  <1>8. s.results = y /\ s.conversation = c /\ s.page = 1 /\ s.id = r.id /\ s.asOf = r.asOf
    BY <1>1, <1>2 DEF RequestType
  <1> HIDE DEF s
  <1>9. ReadOK(s) BY <1>6, <1>7, <1>8 DEF ReadOK
  <1>10. OlderInFlight' = OlderInFlight /\ s \notin OlderInFlight'
    <2>1. OlderInFlight' = OlderInFlight BY <1>1, <1>5, <1>8, FirstReplaced
    <2>2. QED BY <1>8, <2>1 DEF OlderInFlight
  <1>11. QED BY <1>1, <1>5, <1>9, <1>10, ReadReplaced

LEMMA AnswerOlderReads ==
  ASSUME ListInv, ReadInv, NEW r \in requests, AnswerOlder(r)
  PROVE  ReadInv'
  <1> USE DEF ListInv
  <1> DEFINE c == r.conversation
  <1>1. r.page > 1 /\ UNCHANGED <<fetchId, displayed, page, asOf, crossed, count>>
    BY DEF AnswerOlder, shown, world
  <1>2. RequestOK(r) /\ c \in Conversations /\ count[c] \in Nat /\ ReadOK(r) /\ r.results = <<>>
    BY <1>1 DEF RequestInv, RequestOK, RequestType, ReadInv, ListTypeOK
  <1>3. PICK n : n = count[c] OBVIOUS
  <1>4. PICK s : s = WasRead(r, n) OBVIOUS
  <1>5. requests' = (requests \ {r}) \cup {s} BY <1>3, <1>4 DEF AnswerOlder, WasRead
  <1>6. s.id = r.id /\ s.page = r.page /\ s.conversation = c /\ s.results = <<>> /\ s.asOf = n
    BY <1>1, <1>2, <1>3, <1>4, OlderAnswered
  <1>7. <<>> \in Seq(ReadUpTo(n)) BY EmptySeq
  <1>8. ReadOK(s) BY <1>2, <1>3, <1>6, <1>7 DEF ReadOK
  <1>9. OlderInFlight' \subseteq OlderInFlight \cup {s} BY <1>1, <1>5 DEF OlderInFlight
  <1>10. ASSUME ~crossed, s \in OlderInFlight' PROVE asOf[page] <= s.asOf
    <2>1. r \in OlderInFlight BY <1>1, <1>6, <1>10 DEF OlderInFlight
    <2>2. r.page = page + 1 /\ page \in Nat BY <1>10, <2>1 DEF OlderInv, ListTypeOK
    <2>3. page \in 1..page BY <1>1, <2>2
    <2>4. asOf[page] <= count[displayed] BY <1>10, <2>3 DEF ReadInv, ReadShown
    <2>5. displayed = c
      <3>1. r.id = fetchId /\ r.page # 1 BY <1>1, <2>1 DEF OlderInFlight
      <3>2. ~Due BY <3>1 DEF Due, DueOf
      <3>3. QED BY <1>2, <3>1, <3>2 DEF CleanInv, Clean, RequestOK
    <2>6. QED BY <1>3, <1>6, <2>4, <2>5
  <1>11. QED BY <1>1, <1>5, <1>8, <1>9, <1>10, ReadReplaced

LEMMA FirstPageReads ==
  ASSUME ListInv, ReadInv, NEW r \in requests, FirstPageReady(r)
  PROVE  ReadInv'
  <1> USE DEF ListInv
  <1> DEFINE c == r.conversation
             x == Head(r.results)
  <1>1. /\ r.page = 1 /\ r.results # <<>> /\ UNCHANGED <<fetchId, active, count>>
        /\ requests' = (requests \ {r}) \cup {[r EXCEPT !.results = Tail(@)]}
    BY DEF FirstPageReady, Forget, ApplyFetchedMessages, shown, world
  <1>2. RequestOK(r) /\ c \in Conversations /\ count[c] \in Nat /\ ReadOK(r)
    BY DEF RequestInv, RequestOK, RequestType, ReadInv, ListTypeOK
  <1>3. PICK s : s = [r EXCEPT !.results = Tail(@)] OBVIOUS
  <1>4. s.id = r.id /\ s.page = 1 /\ s.conversation = c /\ x \in Proper(c) BY <1>1, <1>2, <1>3, Forgotten
  <1>5. requests' = (requests \ {r}) \cup {s} BY <1>1, <1>3
  <1>6. PICK N : N = count[c] OBVIOUS
  <1> DEFINE A == ReadUpTo(N)
             t == Tail(r.results)
  <1>7. r.results \in Seq(A) /\ r.asOf <= N BY <1>2, <1>6 DEF ReadOK
  <1>8. t \in Seq(A) /\ x \in A
    <2> HIDE DEF A
    <2>1. QED BY <1>1, <1>7, HeadTailProperties
  <1> HIDE DEF t
  <1>9. s.results = t /\ s.asOf = r.asOf BY <1>2, <1>3 DEF t, RequestOK, RequestType
  <1>10. ReadOK(s) BY <1>4, <1>6, <1>7, <1>8, <1>9 DEF ReadOK
  <1>11. OlderInFlight' = OlderInFlight BY <1>1, <1>4, <1>5, FirstReplaced
  <1>12. s \notin OlderInFlight BY <1>4 DEF OlderInFlight
  <1>13. CASE r.id # fetchId
    <2>1. UNCHANGED <<displayed, page, asOf, crossed>> BY <1>13 DEF FirstPageReady, shown
    <2>2. QED BY <1>1, <1>5, <1>10, <1>11, <1>12, <2>1, ReadReplaced
  <1>14. CASE r.id = fetchId
    <2>1. c = active BY <1>2, <1>14 DEF RequestOK
    <2>2. ApplyFetchedMessages(x) BY <1>14 DEF FirstPageReady
    <2> HIDE DEF x
    <2>3. displayed' = active BY <1>2, <1>4, <2>1, <2>2, Applied
    <2>4. /\ page' = x.page /\ asOf' = [asOf EXCEPT ![1] = x.asOf]
          /\ crossed' = \E q \in OlderInFlight : ~Follows(q, x)
      BY <2>2 DEF ApplyFetchedMessages
    <2>5. x.page \in {0, 1} /\ x.asOf \in Nat /\ x.asOf <= count[active]
      BY <1>4, <1>6, <1>8, <2>1 DEF ReadUpTo, Proper, ResponseType
    <2>6. asOf'[1] = x.asOf
      <3>1. 1 \in 1..LastPage BY ListAssumption DEF LastPage
      <3>2. asOf \in [1..LastPage -> Nat] BY DEF ListTypeOK
      <3>3. QED BY <2>4, <3>1, <3>2
    <2>7. \A q \in requests' : ReadOK(q)
      <3>1. \A q \in requests : ReadOK(q) BY DEF ReadInv
      <3>2. QED BY <1>5, <1>10, <3>1
    <2>8. \A q \in requests' : ReadOK(q)' BY <1>1, <2>7 DEF ReadOK, ReadUpTo
    <2>9. ASSUME ~crossed' PROVE ReadShown'
      <3>1. \A p \in 1..page' : p = 1 BY <2>4, <2>5
      <3>2. \A p \in 1..page' : displayed' \in Conversations /\ asOf'[p] <= count'[displayed']
        BY <1>1, <1>2, <2>1, <2>3, <2>5, <2>6, <3>1
      <3>3. 1..page' - 1 = {} BY <2>4, <2>5
      <3>4. ASSUME NEW q \in OlderInFlight, q.answered PROVE asOf'[page'] <= q.asOf
        <4>1. Follows(q, x) BY <2>4, <2>9
        <4>2. q.page = x.page + 1 /\ x.asOf <= q.asOf BY <3>4, <4>1 DEF Follows
        <4>3. q.page > 1 BY DEF OlderInFlight
        <4>4. page' = 1 BY <2>4, <2>5, <4>2, <4>3
        <4>5. QED BY <2>6, <4>2, <4>4
      <3>5. QED BY <1>11, <3>2, <3>3, <3>4 DEF ReadShown
    <2>10. QED BY <2>8, <2>9 DEF ReadInv
  <1>15. QED BY <1>13, <1>14

LEMMA OlderPageReads ==
  ASSUME ListInv, ReadInv, NEW r \in requests, OlderPage(r), ListTypeOK'
  PROVE  ReadInv'
  <1> USE DEF ListInv
  <1> DEFINE c == r.conversation
             p == r.page
  <1>0. PICK x \in {NoResponse, OldPage(c, r.page, r.asOf)} : OlderPageReady(r, x) BY DEF OlderPage
  <1>1. /\ p > 1 /\ r.answered /\ requests' = requests \ {r}
        /\ UNCHANGED <<active, displayed, fetchId, crossed, count>>
    BY <1>0 DEF OlderPageReady, world
  <1>2. RequestOK(r) /\ c \in Conversations /\ count[c] \in Nat /\ ReadOK(r) /\ p \in 1..LastPage
    BY DEF RequestInv, RequestOK, RequestType, ReadInv, ListTypeOK
  <1>3. \A d \in Conversations : count[d] <= count'[d] BY <1>1 DEF ListTypeOK
  <1>4. CASE UNCHANGED <<page, asOf>> BY <1>1, <1>3, <1>4, ReadStays
  <1>5. CASE r.id = fetchId /\ ~(x.page < 1)
    <2>1. page' = x.page /\ asOf' = [asOf EXCEPT ![x.page] = x.asOf]
      BY <1>0, <1>5 DEF OlderPageReady
    <2>2. NoResponse.page < 1 BY DEF NoResponse, Response
    <2>3. x = OldPage(c, p, r.asOf) BY <1>0, <1>5, <2>2
    <2>4. x.page = p /\ x.asOf = r.asOf BY <2>3 DEF OldPage, Response
    <2>5. page' = p /\ asOf' = [asOf EXCEPT ![p] = r.asOf] /\ asOf \in [1..LastPage -> Nat]
      BY <2>1, <2>4 DEF ListTypeOK
    <2>6. r \in OlderInFlight BY <1>1, <1>5 DEF OlderInFlight
    <2>7. OlderInFlight' = {} BY <1>1, <2>6 DEF OlderInv, OlderInFlight
    <2>8. displayed = c
      <3>1. p # 1 BY <1>1
      <3>2. ~Due BY <1>5, <3>1 DEF Due, DueOf
      <3>3. QED BY <1>2, <1>5, <3>2 DEF CleanInv, Clean, RequestOK
    <2>9. \A q \in requests' : ReadOK(q)' BY <1>1 DEF ReadInv, ReadOK, ReadUpTo
    <2>10. ASSUME ~crossed' PROVE ReadShown'
      <3>1. ~crossed /\ ReadShown BY <1>1, <2>10 DEF ReadInv
      <3>2. p = page + 1 BY <2>6, <3>1 DEF OlderInv
      <3>3. page \in Nat BY DEF ListTypeOK
      <3>4. asOf'[p] = r.asOf /\ \A q \in 1..page : asOf'[q] = asOf[q] /\ asOf[q] \in Nat
        <4>1. p \in 1..LastPage /\ \A q \in 1..page : q \in 1..LastPage /\ q # p
          BY <1>2, <3>2, <3>3, ListAssumption DEF LastPage
        <4> HIDE DEF p
        <4>2. QED BY <2>5, <4>1
      <3>5. r.asOf <= count[c] BY <1>2 DEF ReadOK
      <3>6. \A q \in 1..p : asOf'[q] <= count[c]
        <4>1. \A q \in 1..page : asOf[q] <= count[c] BY <2>8, <3>1 DEF ReadShown
        <4> HIDE DEF c, p
        <4>2. \A q \in 1..p : q = p \/ q \in 1..page BY <3>2, <3>3
        <4>3. asOf'[p] <= count[c] BY <3>4, <3>5
        <4>4. QED BY <3>4, <4>1, <4>2, <4>3
      <3>7. ASSUME NEW q \in 1..p - 1 PROVE asOf'[q] <= asOf'[q + 1]
        <4>1. q \in 1..page /\ asOf'[q] = asOf[q] BY <3>2, <3>3, <3>4
        <4>2. CASE q = page
          <5>1. asOf[page] <= r.asOf BY <1>1, <2>6, <3>1 DEF ReadShown
          <5>2. q + 1 = p BY <3>2, <4>2
          <5>3. QED BY <3>4, <4>1, <4>2, <5>1, <5>2
        <4>3. CASE q # page
          <5>1. q \in 1..page - 1 /\ q + 1 \in 1..page BY <3>3, <4>1, <4>3
          <5>2. asOf[q] <= asOf[q + 1] BY <3>1, <5>1 DEF ReadShown
          <5>3. QED BY <3>4, <4>1, <5>1, <5>2
        <4>4. QED BY <4>2, <4>3
      <3>8. displayed' = c /\ count' = count /\ page' = p BY <1>1, <2>5, <2>8
      <3> HIDE DEF c, p
      <3>9. QED BY <1>2, <2>7, <3>6, <3>7, <3>8 DEF ReadShown
    <2>11. QED BY <2>9, <2>10 DEF ReadInv
  <1>6. QED BY <1>0, <1>4, <1>5 DEF OlderPageReady

LEMMA ReadStarts ==
  ASSUME ListInit
  PROVE  ReadInv
  <1>1. requests = {} /\ page = 0 BY DEF ListInit
  <1>2. OlderInFlight = {} BY <1>1 DEF OlderInFlight
  <1>3. 1..page = {} /\ 1..page - 1 = {} BY <1>1
  <1>4. QED BY <1>1, <1>2, <1>3 DEF ReadInv, ReadShown

LEMMA ReadStep ==
  ASSUME ListInv, ReadInv, [ListNext]_listVars, ListTypeOK'
  PROVE  ReadInv'
  <1>1. ASSUME UNCHANGED <<fetchId, displayed, page, asOf, crossed>>, requests' \subseteq requests,
               UNCHANGED count
        PROVE  ReadInv'
    <2>1. \A c \in Conversations : count[c] <= count'[c] BY <1>1 DEF ListInv, ListTypeOK
    <2>2. QED BY <1>1, <2>1, ReadStays DEF ListInv
  <1>2. CASE Answers BY <1>2, AnswerReads, AnswerOlderReads DEF Answers
  <1>3. CASE Handle
    <2>1. ASSUME NEW r \in requests, FetchFinished(r) PROVE ReadInv'
      <3>1. /\ UNCHANGED <<fetchId, displayed, page, asOf, crossed>> /\ UNCHANGED count
            /\ requests' = requests \ {r}
        BY <2>1 DEF FetchFinished, world
      <3>2. QED BY <1>1, <3>1
    <2>2. QED BY <1>3, <2>1, FirstPageReads, OlderPageReads DEF Handle
  <1>4. CASE User
    <2>1. CASE (\E m \in Own : Send(m)) \/ (\E m \in Files : CancelFileUpload(m))
               \/ (\E i \in 1..Len(rows) : DeleteMessage(i))
      <3>1. /\ UNCHANGED <<fetchId, displayed, page, asOf, crossed>> /\ UNCHANGED count
            /\ UNCHANGED requests
        BY <2>1 DEF Send, CancelFileUpload, DeleteMessage, world
      <3>2. QED BY <1>1, <3>1
    <2>2. QED BY <1>4, <2>1, FetchMessageReads, FetchNextReads DEF User
  <1>5. CASE Others
    <2>1. ASSUME NEW m \in Incoming, MessageReceived(m) PROVE ReadInv'
      <3>1. /\ UNCHANGED <<fetchId, displayed, page, asOf, crossed>> /\ UNCHANGED count
            /\ UNCHANGED requests
        BY <2>1 DEF MessageReceived
      <3>2. QED BY <1>1, <3>1
    <2>2. ASSUME NEW m \in Messages, Store(m) PROVE ReadInv'
      <3>1. /\ UNCHANGED <<fetchId, displayed, page, asOf, crossed>> /\ UNCHANGED requests
            /\ count' = [count EXCEPT ![ConversationOf(m)] = @ + 1]
        BY <2>2 DEF Store, shown
      <3>2. \A c \in Conversations : count[c] <= count'[c]
        <4>1. count \in [Conversations -> Nat] BY DEF ListInv, ListTypeOK
        <4>2. QED BY <3>1, <4>1
      <3>3. QED BY <3>1, <3>2, ReadStays DEF ListInv
    <2>3. QED BY <1>5, <2>1, <2>2 DEF Others
  <1>6. CASE Queue
    <2>1. /\ UNCHANGED <<fetchId, displayed, page, asOf, crossed>> /\ UNCHANGED count
          /\ UNCHANGED requests
      BY <1>6 DEF Queue, SendFinished, UploadProgress, BatchUploadCanceled, UploadEnds, shown, world
    <2>2. QED BY <1>1, <2>1
  <1>7. CASE UNCHANGED listVars
    <2>1. /\ UNCHANGED <<fetchId, displayed, page, asOf, crossed>> /\ UNCHANGED count
          /\ UNCHANGED requests
      BY <1>7 DEF listVars, shown, world
    <2>2. QED BY <1>1, <2>1
  <1>8. QED BY <1>2, <1>3, <1>4, <1>5, <1>6, <1>7 DEF ListNext

-----------------------------------------------------------------------------
(* The theorems                                                            *)

\* The invariant that the other theorems about the message list rest on: whatever is
\* selected, answered, received, sent or canceled in between.
THEOREM ListInductive == ListSpec => []ListInv
  BY ListStarts, ListStep, PTL DEF ListSpec

LEMMA ShownRows ==
  ASSUME Clean
  PROVE  /\ \A m \in Shown : At(m) = active
         /\ \A m \in Files \cap Shown : core[m] \notin {"aborting", "canceled"}
  <1>1. \A i \in 1..Len(rows) : rows[i] \in CleanRow BY ElementOfSeq DEF Clean
  <1>2. QED BY <1>1 DEF Shown, CleanRow

\* MessagingViewModel: once the list has stopped loading it shows the conversation that
\* was selected last, and no message of another one.
THEOREM AlwaysShowsTheSelected == ListSpec => []ShowsTheSelected
  <1>1. ASSUME ListInv PROVE ShowsTheSelected
    <2>1. ListTypeOK BY <1>1 DEF ListInv
    <2>2. ASSUME ~loading PROVE displayed = active /\ \A m \in Shown : At(m) = active
      <3>1. Clean BY <1>1, <2>2 DEF ListInv, CleanInv, Due
      <3>2. QED BY <3>1, ShownRows DEF Clean
    <2>3. QED BY <2>1, <2>2 DEF ShowsTheSelected
  <1>2. QED BY <1>1, ListInductive, PTL

\* The pages of the list were read in the order they are shown, each after the one it
\* follows.
THEOREM ReadInductive == ListSpec => []ReadInv
  <1>1. ListInv => ListTypeOK BY DEF ListInv
  <1>2. ListInv /\ ReadInv /\ ListTypeOK' /\ [ListNext]_listVars => ReadInv' BY ReadStep
  <1>3. ListInit => ReadInv BY ReadStarts
  <1>4. QED BY <1>1, <1>2, <1>3, ListInductive, PTL DEF ListSpec

\* fetchNextMessage(): the older messages shown are the answers for the pages 1 to
\* m_message.page, in order, none read before the one it follows, whatever the server
\* stores meanwhile, as long as no first page cuts the list under a page that does not
\* follow it: no message between them is skipped.
THEOREM PagesAlwaysWhole == ListSpec => []PagesWhole
  <1>1. ASSUME ListInv, ReadInv PROVE PagesWhole
    <2> SUFFICES ASSUME ~crossed
                 PROVE  LET Old == {i \in 1..Len(rows) : rows[i].is \notin Messages}
                        IN  /\ {rows[i].is : i \in Old} = {displayed} \X (1..page)
                            /\ \A i, j \in Old : i < j => rows[i].is[2] > rows[j].is[2]
                            /\ \A p \in 1..page - 1 : asOf[p] <= asOf[p + 1]
      BY DEF PagesWhole
    <2> DEFINE Old == {i \in 1..Len(rows) : rows[i].is \notin Messages}
    <2>1. Whole(rows, displayed, page) BY <1>1 DEF ListInv, WholeInv
    <2>2. \A i \in Old : rows[i].is \in {displayed} \X (1..page) BY <2>1 DEF Whole
    <2>3. ASSUME NEW t \in {displayed} \X (1..page) PROVE \E i \in Old : rows[i].is = t
      <3>1. PICK q \in 1..page : t = <<displayed, q>> OBVIOUS
      <3>2. QED BY <2>1, <3>1 DEF Whole
    <2>4. \A i, j \in Old : i < j => rows[i].is[2] > rows[j].is[2] BY <2>1 DEF Whole
    <2>5. \A p \in 1..page - 1 : asOf[p] <= asOf[p + 1] BY <1>1 DEF ReadInv, ReadShown
    <2> HIDE DEF Old
    <2>6. {rows[i].is : i \in Old} = {displayed} \X (1..page) BY <2>2, <2>3
    <2>7. QED BY <2>4, <2>5, <2>6 DEF Old
  <1>2. QED BY <1>1, ListInductive, ReadInductive, PTL

\* Nothing waits for an answer that will not come.
THEOREM WaitsAlwaysAnswered == ListSpec => []WaitsAreAnswered
  <1>1. ListInv => WaitsAreAnswered BY DEF ListInv
  <1>2. QED BY <1>1, ListInductive, PTL

\* The list and the send queue agree about uploads and about what was sent.
THEOREM UploadsAlwaysHonest == ListSpec => []UploadsHonest
  <1>1. ASSUME ListInv PROVE UploadsHonest
    <2>1. \A m \in Files : core[m] \in {"sent", "failed", "canceled"} => uploads[m] # "uploading"
      BY <1>1 DEF ListInv, UploadInv
    <2>2. ASSUME NEW m \in Files, core[m] = "canceled", ~loading PROVE m \notin Shown
      <3>1. Clean BY <1>1, <2>2 DEF ListInv, CleanInv, Due
      <3>2. QED BY <2>2, <3>1, ShownRows
    <2>3. ASSUME NEW i \in 1..Len(rows), rows[i].is \in Own, core[rows[i].is] = "sent"
          PROVE  ~rows[i].sending
      <3>1. rows[i] \in GoodRow BY <1>1, ElementOfSeq DEF ListInv, RowInv
      <3>2. QED BY <2>3, <3>1 DEF GoodRow
    <2>4. QED BY <2>1, <2>2, <2>3 DEF UploadsHonest
  <1>2. QED BY <1>1, ListInductive, PTL
=============================================================================
