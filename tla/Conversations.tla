---------------------------- MODULE Conversations ----------------------------
(***************************************************************************)
(* The conversation list: ConversationsVM, the future it watches,          *)
(* ConversationsRepositoryImpl, which answers first from the cache and     *)
(* then from the server and keeps what failed for a retry signal, and      *)
(* NetworkMonitor with the banner of Main.qml, which gives that signal.    *)
(* The attempts are requests of NetworkClient (HttpRequests).              *)
(*                                                                         *)
(* A continuation and the results of a future reach their object through   *)
(* the event loop, one at a time: each is a step.                          *)
(***************************************************************************)
EXTENDS HttpRequests, Sequences, SequencesExt

CONSTANTS
  Unreadable,   \* a JSON object that is not a conversation list
  Empty,        \* the empty list
  Countdown,    \* m_initial_delay, in ticks
  MaximumRetry  \* NetworkMonitor's m_maximum_retry

Lists == (Bodies \ {Unreadable}) \cup {Empty}

ASSUME ConversationsAssumption ==
  /\ Unreadable \in Bodies /\ Empty # Unreadable /\ Missing \notin Lists \cup Reqs
  /\ Countdown \in Nat \ {0, 1} /\ MaximumRetry \in Nat

VARIABLES
  op,      \* the promise of each fetch: its state and results
  queue,   \* m_queue: the fetches that wait for a retry signal
  watched, \* the fetch m_watcher follows, and how many of its results it has seen
  rows,    \* m_conversations
  loading, \* m_isLoading
  cache,   \* the conversations CacheStorage has of the user
  monitor, \* NetworkMonitor's countdown
  banner,  \* networkStatus of Main.qml
  forced   \* "Try Now" was pressed and its retry signal is still to come

list == <<op, queue, watched, rows, loading, cache>>
net == <<monitor, banner, forced>>
conversationsVars == <<req, op, queue, watched, rows, loading, cache, monitor, banner, forced>>

NoFetch == [st |-> "idle", canceled |-> FALSE, results |-> <<>>, answer |-> Missing]

\* A canceled future: its results reach nobody.
Canceled == [NoFetch EXCEPT !.st = "running", !.canceled = TRUE]

ConversationsInit ==
  /\ HttpInit
  /\ op = [f \in Reqs |-> NoFetch] /\ queue = <<>>
  /\ watched = [fetch |-> Missing, seen |-> 0] /\ rows = Empty /\ loading = FALSE
  /\ cache \in Lists \cup {Missing}
  /\ monitor = [active |-> FALSE, count |-> 0, delay |-> Countdown, left |-> MaximumRetry]
  /\ banner = "hidden" /\ forced = FALSE

-----------------------------------------------------------------------------
\* ConversationsRepositoryImpl.

Free(f) == op[f].st = "idle" /\ req[f].st = "idle"

\* finish() of a canceled promise, which is then gone.
Finish(f) == op' = [op EXCEPT ![f] = NoFetch]

\* finish(), with an empty list if there is no result yet.
FinishEmpty(f) ==
  op' = [op EXCEPT ![f].st = "finished",
                   ![f].results = IF @ = <<>> THEN <<Empty>> ELSE @]

Running(f) == f # Missing /\ op[f].st = "running"

\* CacheStorage: a record that is missing or cannot be read is no result, and a
\* list that cannot be written leaves the record as it was.
ReadCache == {cache, Missing}
SaveCache(conversations) == cache' \in {conversations, cache}

\* A new fetch: what the cache has is its first result.
NewFetch(cached) ==
  [st |-> "running", canceled |-> FALSE, answer |-> Missing,
   results |-> IF cached = Missing THEN <<>> ELSE <<cached>>]

\* A fetch that is watched no more; one that has ended is gone.
Superseded(g) == IF Running(g) THEN Canceled ELSE NoFetch

\* fetchConversations() of the view model and of the repository: the future
\* watched until now is canceled.
FetchConversations ==
  \E f \in Reqs : \E cached \in ReadCache : \E q \in {Started("GET"), Invalid} :
    /\ Free(f)
    /\ op' = [g \in Reqs |-> IF g = f THEN NewFetch(cached)
                             ELSE IF g = watched.fetch THEN Superseded(g) ELSE op[g]]
    /\ watched' = [fetch |-> f, seen |-> 0]
    /\ loading' = TRUE
    /\ req' = [req EXCEPT ![f] = q]
    /\ UNCHANGED <<queue, rows, cache, monitor, banner, forced>>

\* A plausible slip: an answer is used although its future was canceled.
AnsweredAnyway(f) ==
  /\ req[f].st = "done" /\ op[f].st = "running" /\ req[f].ok /\ req[f].body # Unreadable
  /\ req' = [req EXCEPT ![f] = Idle]
  /\ op' = [op EXCEPT ![f].st = "finished", ![f].answer = req[f].body,
                      ![f].results = Append(@, req[f].body)]
  /\ cache' = req[f].body
  /\ UNCHANGED <<queue, watched, rows, loading, monitor, banner, forced>>

\* The continuation of an attempt.
Answered(f) ==
  /\ req[f].st = "done" /\ op[f].st = "running"
  /\ req' = [req EXCEPT ![f] = Idle]
  /\ LET answer == req[f].body IN
     \/ /\ op[f].canceled
        /\ Finish(f) /\ UNCHANGED <<queue, cache>>
     \/ /\ ~op[f].canceled /\ ~req[f].ok /\ req[f].error = "UnknownNetworkError"
        /\ queue' = Append(queue, f) /\ UNCHANGED <<op, cache>>
     \/ /\ ~op[f].canceled /\ \/ ~req[f].ok /\ req[f].error # "UnknownNetworkError"
                              \/ req[f].ok /\ answer = Unreadable
        /\ FinishEmpty(f) /\ UNCHANGED <<queue, cache>>
     \/ /\ ~op[f].canceled /\ req[f].ok /\ answer # Unreadable
        /\ IF op[f].results # <<>> /\ op[f].results[1] = answer
             THEN /\ op' = [op EXCEPT ![f].st = "finished", ![f].answer = answer]
                  /\ UNCHANGED cache
             ELSE /\ op' = [op EXCEPT ![f].st = "finished", ![f].answer = answer,
                                      ![f].results = Append(@, answer)]
                  /\ SaveCache(answer)
        /\ UNCHANGED queue
  /\ UNCHANGED <<watched, rows, loading, monitor, banner, forced>>

\* A plausible slip: the tasks run from m_queue, which keeps them.
RetryKeepsQueue ==
  LET waiting == ToSet(queue)
  IN  /\ queue' = queue
      /\ op' = [f \in Reqs |-> IF f \in waiting /\ op[f].canceled THEN NoFetch ELSE op[f]]
      /\ req' = [r \in Reqs |-> IF r \in waiting /\ ~op[r].canceled THEN Started("GET") ELSE req[r]]

\* retryPending(): the queue is taken and each fetch attempts again; one that
\* was canceled finishes instead.
RetryPending ==
  LET waiting == ToSet(queue)
  IN  /\ queue' = <<>>
      /\ op' = [f \in Reqs |-> IF f \in waiting /\ op[f].canceled THEN NoFetch ELSE op[f]]
      /\ req' = [r \in Reqs |-> IF r \in waiting /\ ~op[r].canceled THEN Started("GET") ELSE req[r]]

\* The POST requests of the other repositories, each with a client of its own.
OtherSend(r) == op[r].st = "idle" /\ Send(r, "POST")
OtherAnswered(r) ==
  /\ req[r].st = "done" /\ op[r].st = "idle"
  /\ req' = [req EXCEPT ![r] = Idle]

NoRetry == UNCHANGED <<queue, op, req>>

-----------------------------------------------------------------------------
\* ConversationsVM: the events of m_watcher.  A fetch on the screen finishes
\* with at least one result, so onFinished() finds m_isLoading false.

ResultReady ==
  /\ watched.fetch # Missing
  /\ LET f == watched.fetch IN
     /\ watched.seen < Len(op[f].results)
     /\ rows' = op[f].results[watched.seen + 1]
     /\ watched' = [watched EXCEPT !.seen = @ + 1]
     /\ loading' = FALSE
  /\ UNCHANGED <<req, op, queue, cache, monitor, banner, forced>>

-----------------------------------------------------------------------------
\* NetworkMonitor and the banner.

\* The count is of no use while the timer does not run.
StopRetryCountDown(mon) == [mon EXCEPT !.active = FALSE, !.delay = Countdown, !.count = 0]
StartRetryCountDown(mon) == [mon EXCEPT !.active = TRUE, !.count = mon.delay]

\* A plausible slip: the doubled delay is kept.
RetryKeepsDelay ==
  /\ banner # "hidden"
  /\ monitor' = [monitor EXCEPT !.active = TRUE, !.count = Countdown]
  /\ forced' = TRUE
  /\ UNCHANGED <<req, op, queue, watched, rows, loading, cache, banner>>

\* retry(): "Try Now" on the banner.
Retry ==
  /\ banner # "hidden"
  /\ monitor' = [monitor EXCEPT !.active = TRUE, !.count = Countdown, !.delay = Countdown]
  /\ forced' = TRUE
  /\ UNCHANGED <<req, op, queue, watched, rows, loading, cache, banner>>

\* The timer: isRetry is signalled one tick after a countdown began, and a
\* countdown that ended begins again with twice the delay while retries are left.
Tick ==
  /\ monitor.active
  /\ LET count == IF monitor.count > 0 THEN monitor.count - 1 ELSE 0
         again == count = 0 /\ monitor.left > 0
         next  == IF again
                    THEN [monitor EXCEPT !.left = @ - 1, !.delay = 2 * @, !.count = 2 * monitor.delay]
                    ELSE [monitor EXCEPT !.count = count]
     IN  /\ monitor' = [next EXCEPT !.active = ~(next.count = 0 /\ next.left = 0)]
         /\ IF count = monitor.delay - 1 THEN RetryPending /\ forced' = FALSE
                                         ELSE NoRetry /\ UNCHANGED forced
  /\ UNCHANGED <<watched, rows, loading, cache, banner>>

\* updateStatus(), with what networkConnected() and networkDisconnected() reach.
\* A reachability of Local or Site does nothing, so either may be reported again.
Reachable ==
  /\ RetryPending
  /\ banner' = IF banner = "hidden" THEN "hidden" ELSE "hiding"
  /\ monitor' = StopRetryCountDown(monitor)
  /\ forced' = FALSE
  /\ UNCHANGED <<watched, rows, loading, cache>>

Unreachable ==
  /\ banner' = "shown"
  /\ monitor' = IF banner = "hidden" THEN StartRetryCountDown(monitor) ELSE monitor
  /\ UNCHANGED <<req, op, queue, watched, rows, loading, cache, forced>>

\* The end of the hide animation.
BannerHidden ==
  /\ banner = "hiding" /\ banner' = "hidden"
  /\ monitor' = StopRetryCountDown(monitor)
  /\ forced' = FALSE
  /\ UNCHANGED <<req, op, queue, watched, rows, loading, cache>>

-----------------------------------------------------------------------------

ConversationsNext ==
  \/ HttpNext /\ UNCHANGED <<op, queue, watched, rows, loading, cache, monitor, banner, forced>>
  \/ \E r \in Reqs :
       (OtherSend(r) \/ OtherAnswered(r)) /\ UNCHANGED <<op, queue, watched, rows, loading, cache, monitor, banner, forced>>
  \/ FetchConversations
  \/ \E f \in Reqs : Answered(f)
  \/ ResultReady
  \/ Retry \/ Tick \/ Reachable \/ Unreachable \/ BannerHidden

ConversationsSpec ==
  /\ ConversationsInit /\ [][ConversationsNext]_conversationsVars
  /\ HttpFairness
  /\ WF_conversationsVars(Tick)

-----------------------------------------------------------------------------

\* The types, and the bounds of the countdown.
ConversationsTypeOK ==
  /\ HttpTypeOK
  /\ op \in [Reqs -> [st : {"idle", "running", "finished"}, canceled : BOOLEAN,
                         results : Seq(Lists), answer : Lists \cup {Missing}]]
  /\ \A f \in Reqs : Len(op[f].results) <= 2
  /\ queue \in Seq(Reqs)
  /\ watched \in [fetch : Reqs \cup {Missing}, seen : 0 .. 2]
  /\ rows \in Lists /\ loading \in BOOLEAN /\ cache \in Lists \cup {Missing}
  /\ banner \in {"hidden", "shown", "hiding"}
  /\ monitor \in [active : BOOLEAN, count : Nat, delay : Nat, left : 0 .. MaximumRetry]
  /\ monitor.active => monitor.count <= monitor.delay
  /\ forced \in BOOLEAN

\* "Retry the same operation so its original caller receives the result"
\* (conversations_repository_impl.cpp): a fetch that is not finished has
\* exactly one continuation, a request of its own or one place in m_queue,
\* and a finished one has none.
NotForgotten ==
  \A f \in Reqs :
    LET places == Cardinality({i \in 1 .. Len(queue) : queue[i] = f})
        asking == IF req[f].st = "idle" \/ ~Running(f) THEN 0 ELSE 1
    IN  places + asking = IF Running(f) THEN 1 ELSE 0

\* Whatever was cached, retried and superseded: once the fetch on the screen
\* has finished with an answer of the server and its events are handled, the
\* rows are that answer.
RowsAreAnswer ==
  watched.fetch # Missing =>
    LET o == op[watched.fetch]
    IN  o.st = "finished" /\ o.answer # Missing /\ watched.seen = Len(o.results) => rows = o.answer

\* A fetch is neither lost nor doubled, and what it brought is what is shown:
\* the requests of HttpRequests, m_queue of the repository and the rows of the
\* list agree through every retry, timeout and cancellation.
ListSound == ConversationsTypeOK /\ OnceToServer /\ NotForgotten /\ RowsAreAnswer

\* The cache is written only by the fetch on the screen: the late answer of
\* a fetch that was superseded does not replace the newer list.
SupersededNeverSaved ==
  [][cache' # cache => /\ watched.fetch # Missing /\ op[watched.fetch].st = "running"
                       /\ cache' = op'[watched.fetch].answer]_conversationsVars

\* "call to force try" (network_monitor.hpp): "Try Now" leads to a retry
\* signal, unless the banner it is on goes away.
ForceTry == []<>~forced
=============================================================================
