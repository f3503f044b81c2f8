--------------------------- MODULE SendQueueProofs ---------------------------
(***************************************************************************)
(* SendQueue, for every set of messages and requests and any number of     *)
(* lost connections: the queue always wakes up, m_uploadTasks is exact,    *)
(* results are truthful, and the queue implements Outbox.                  *)
(***************************************************************************)
EXTENDS SendQueue, TLAPS

Pending == {todo[i].job : i \in {k \in 1..Len(todo) : todo[k].kind = "enqueue"}}
Fresh == UNION {Members(JobsOf[r]) : r \in Requests \ asked}
Sending == {"uploadPosted", "uploading", "uploaded", "sendPosted"}

\* Something is processed exactly when there is a current entry, and only an
\* upload is in an upload phase.
PhaseInv ==
  /\ current = NoJob <=> phase = "idle"
  /\ phase \in {"uploadPosted", "uploading", "uploaded"} => current \in Uploads

\* The continuation that the current entry waits for is posted at most once, and
\* only in the phase in which it is expected; a watcher hears of the
\* cancellation of a canceled future only.
Chain(e) == e.kind \in {"uploaded", "sent", "finished"}
Expected(e) == IF e.kind = "finished" THEN "finishing" ELSE e.kind
Quiet(ev) == \A i \in 1..Len(ev) : ~Chain(ev[i])
CanceledOK(ev, rv) == \A i \in 1..Len(ev) : ev[i].kind = "canceled" => ev[i].job \in rv \cap Uploads
EventsOK(ev, ph, rv) ==
  /\ ev \in Seq(Events)
  /\ \A i \in 1..Len(ev) : Chain(ev[i]) => ph = Expected(ev[i])
  /\ \A i, k \in 1..Len(ev) : Chain(ev[i]) /\ Chain(ev[k]) => i = k
  /\ CanceledOK(ev, rv)
EventInv == EventsOK(events, phase, revoked)

\* A message is in one place: not asked for, to be enqueued, queued or current;
\* and it is not sent before it is the current one.
OrderInv ==
  /\ \A i, k \in 1..Len(queue) : queue[i] = queue[k] => i = k
  /\ \A i, k \in 1..Len(todo) :
       /\ todo[i].kind = todo[k].kind
       /\ todo[i].job = todo[k].job => i = k
  /\ current \notin Members(queue)
  /\ Pending \cap (Members(queue) \cup {current}) = {}
  /\ Fresh \cap (Pending \cup Members(queue) \cup {current}) = {}
  /\ (Fresh \cup Pending \cup Members(queue)) \cap Members(wire) = {}
  /\ phase \in Sending => current \notin Members(wire)

\* Cancellation: only uploads are canceled or committed, a canceled upload has a
\* canceled future, and an upload is committed before it is sent.
CancelInv ==
  /\ \A j \in Jobs : child[j] # "open" => j \in Uploads
  /\ \A j \in Jobs : child[j] = "canceled" => j \in revoked
  /\ \A j \in Members(wire) \cap Uploads : child[j] = "committed"
  /\ phase = "sendPosted" /\ current \in Uploads => child[current] = "committed"
  /\ revoked \cap (Fresh \cup Pending) = {}
  /\ cancelable \in asked \cup {NoRequest}
  /\ \A i \in 1..Len(todo) : todo[i].kind = "cancel" => todo[i].job \notin Fresh

\* Results: none before the job is finished, and only truthful ones.
ResultInv ==
  /\ \A j \in Fresh \cup Pending \cup Members(queue) \cup ({current} \ {NoJob}) : result[j] = "none"
  /\ \A j \in revoked : result[j] \in {"none", "canceled"}
  /\ \A j \in Jobs : result[j] = "ok" => j \in Members(wire)
  /\ phase \in {"sent", "finishing"} /\ outcome = "ok" => current \in Members(wire)
  /\ phase = "onWire" => current \in Members(wire)

IInv ==
  /\ TypeOK /\ PhaseInv /\ EventInv /\ OrderInv /\ CancelInv /\ ResultInv
  /\ TasksExact /\ NoLostWakeup

-----------------------------------------------------------------------------
(* Sequences                                                               *)

LEMMA TailFacts ==
  ASSUME NEW S, NEW s \in Seq(S), s # <<>>
  PROVE  /\ Tail(s) \in Seq(S) /\ Len(Tail(s)) = Len(s) - 1 /\ s[1] \in S /\ Len(s) > 0
         /\ \A i \in 1..Len(Tail(s)) : Tail(s)[i] = s[i + 1] /\ i + 1 \in 1..Len(s)
         /\ Members(Tail(s)) \subseteq Members(s)
         /\ Members(s) = {s[1]} \cup Members(Tail(s))
  <1>1. /\ Tail(s) \in Seq(S) /\ Len(Tail(s)) = Len(s) - 1 /\ s[1] \in S /\ Len(s) > 0
        /\ \A i \in 1..Len(Tail(s)) : Tail(s)[i] = s[i + 1] /\ i + 1 \in 1..Len(s)
    OBVIOUS
  <1>2. Members(Tail(s)) \subseteq Members(s) BY <1>1 DEF Members
  <1>3. Members(s) \subseteq {s[1]} \cup Members(Tail(s))
    <2>1. SUFFICES ASSUME NEW i \in 1..Len(s), i # 1 PROVE s[i] \in Members(Tail(s)) BY DEF Members
    <2>2. i - 1 \in 1..Len(Tail(s)) /\ Tail(s)[i - 1] = s[i] BY <1>1, <2>1
    <2>3. QED BY <2>2 DEF Members
  <1>4. s[1] \in Members(s) BY <1>1 DEF Members
  <1>5. QED BY <1>1, <1>2, <1>3, <1>4

LEMMA AppendFacts ==
  ASSUME NEW S, NEW s \in Seq(S), NEW e \in S
  PROVE  /\ Append(s, e) \in Seq(S) /\ Len(Append(s, e)) = Len(s) + 1 /\ Len(s) \in Nat
         /\ \A i \in 1..Len(s) : Append(s, e)[i] = s[i]
         /\ Append(s, e)[Len(s) + 1] = e
         /\ Members(Append(s, e)) = Members(s) \cup {e}
  <1>1. /\ Append(s, e) \in Seq(S) /\ Len(Append(s, e)) = Len(s) + 1 /\ Len(s) \in Nat
        /\ \A i \in 1..Len(s) : Append(s, e)[i] = s[i]
        /\ Append(s, e)[Len(s) + 1] = e
    OBVIOUS
  <1>2. Members(Append(s, e)) \subseteq Members(s) \cup {e}
    <2>1. SUFFICES ASSUME NEW i \in 1..(Len(s) + 1) PROVE Append(s, e)[i] \in Members(s) \cup {e}
      BY <1>1 DEF Members
    <2>2. CASE i = Len(s) + 1 BY <1>1, <2>2
    <2>3. CASE i \in 1..Len(s) BY <1>1, <2>3 DEF Members
    <2>4. QED BY <1>1, <2>1, <2>2, <2>3
  <1>3. Members(s) \subseteq Members(Append(s, e))
    <2>1. SUFFICES ASSUME NEW i \in 1..Len(s) PROVE s[i] \in Members(Append(s, e)) BY DEF Members
    <2>2. i \in 1..Len(Append(s, e)) /\ Append(s, e)[i] = s[i] BY <1>1
    <2>3. QED BY <2>2 DEF Members
  <1>4. e \in Members(Append(s, e))
    <2>1. Len(s) + 1 \in 1..Len(Append(s, e)) BY <1>1
    <2>2. QED BY <1>1, <2>1 DEF Members
  <1>5. QED BY <1>1, <1>2, <1>3, <1>4

LEMMA ConcatFacts ==
  ASSUME NEW S, NEW s \in Seq(S), NEW t \in Seq(S)
  PROVE  /\ s \o t \in Seq(S) /\ Len(s \o t) = Len(s) + Len(t) /\ Len(s) \in Nat /\ Len(t) \in Nat
         /\ \A i \in 1..Len(s) : (s \o t)[i] = s[i]
         /\ \A i \in 1..Len(t) : (s \o t)[Len(s) + i] = t[i]
         /\ Members(s \o t) = Members(s) \cup Members(t)
  <1>1. /\ s \o t \in Seq(S) /\ Len(s \o t) = Len(s) + Len(t) /\ Len(s) \in Nat /\ Len(t) \in Nat
        /\ \A i \in 1..Len(s) : (s \o t)[i] = s[i]
        /\ \A i \in 1..Len(t) : (s \o t)[Len(s) + i] = t[i]
    OBVIOUS
  <1>2. Members(s \o t) \subseteq Members(s) \cup Members(t)
    <2>1. SUFFICES ASSUME NEW i \in 1..(Len(s) + Len(t)) PROVE (s \o t)[i] \in Members(s) \cup Members(t)
      BY <1>1 DEF Members
    <2>2. CASE i \in 1..Len(s) BY <1>1, <2>2 DEF Members
    <2>3. CASE i > Len(s)
      <3>1. i - Len(s) \in 1..Len(t) /\ Len(s) + (i - Len(s)) = i BY <1>1, <2>1, <2>3
      <3>2. (s \o t)[i] = t[i - Len(s)] BY <1>1, <3>1
      <3>3. QED BY <3>1, <3>2 DEF Members
    <2>4. QED BY <1>1, <2>1, <2>2, <2>3
  <1>3. Members(s) \subseteq Members(s \o t)
    <2>1. SUFFICES ASSUME NEW i \in 1..Len(s) PROVE s[i] \in Members(s \o t) BY DEF Members
    <2>2. i \in 1..Len(s \o t) /\ (s \o t)[i] = s[i] BY <1>1
    <2>3. QED BY <2>2 DEF Members
  <1>4. Members(t) \subseteq Members(s \o t)
    <2>1. SUFFICES ASSUME NEW i \in 1..Len(t) PROVE t[i] \in Members(s \o t) BY DEF Members
    <2>2. Len(s) + i \in 1..Len(s \o t) /\ (s \o t)[Len(s) + i] = t[i] BY <1>1
    <2>3. QED BY <2>2 DEF Members
  <1>5. QED BY <1>1, <1>2, <1>3, <1>4

\* What is left of a sequence without its first n elements.
LEMMA RestFacts ==
  ASSUME NEW S, NEW q \in Seq(S), NEW n \in 0..Len(q)
  PROVE  /\ Rest(q, n) \in Seq(S) /\ Len(Rest(q, n)) = Len(q) - n /\ Len(q) \in Nat
         /\ \A i \in 1..Len(Rest(q, n)) : Rest(q, n)[i] = q[n + i] /\ n + i \in 1..Len(q)
         /\ Members(Rest(q, n)) \subseteq Members(q)
         /\ Members(q) = Front(q, n) \cup Members(Rest(q, n))
  <1> DEFINE rest == Rest(q, n)
  <1>1. /\ rest \in Seq(S) /\ Len(rest) = Len(q) - n /\ Len(q) \in Nat
        /\ \A i \in 1..Len(rest) : rest[i] = q[n + i] /\ n + i \in 1..Len(q)
    BY DEF Rest
  <1> HIDE DEF rest
  <1>2. Members(rest) \subseteq Members(q) BY <1>1 DEF Members
  <1>3. Members(q) \subseteq {q[i] : i \in 1..n} \cup Members(rest)
    <2>1. SUFFICES ASSUME NEW i \in 1..Len(q) PROVE q[i] \in {q[k] : k \in 1..n} \cup Members(rest)
      BY DEF Members
    <2>2. CASE i > n
      <3>1. i - n \in 1..Len(rest) /\ rest[i - n] = q[i] BY <1>1, <2>2
      <3>2. QED BY <3>1 DEF Members
    <2>3. CASE i \in 1..n BY <2>3
    <2>4. i > n \/ i \in 1..n BY <1>1, <2>1
    <2>5. QED BY <2>2, <2>3, <2>4
  <1>4. {q[i] : i \in 1..n} \subseteq Members(q) BY <1>1 DEF Members
  <1>5. QED BY <1>1, <1>2, <1>3, <1>4 DEF rest, Front

-----------------------------------------------------------------------------
(* Events                                                                  *)

Wakes(ev) == \E i \in 1..Len(ev) : ev[i].kind \in {"connected", "next"}

LEMMA EventsTail ==
  ASSUME NEW ev, NEW ph, NEW rv, EventsOK(ev, ph, rv), ev # <<>>
  PROVE  /\ EventsOK(Tail(ev), ph, rv)
         /\ Chain(ev[1]) => Quiet(Tail(ev)) /\ ph = Expected(ev[1])
         /\ ev[1].kind = "canceled" => ev[1].job \in rv \cap Uploads
         /\ Wakes(ev) /\ ev[1].kind \notin {"connected", "next"} => Wakes(Tail(ev))
  <1>1. /\ Tail(ev) \in Seq(Events) /\ Len(Tail(ev)) = Len(ev) - 1 /\ Len(ev) > 0 /\ ev \in Seq(Events)
        /\ \A i \in 1..Len(Tail(ev)) : Tail(ev)[i] = ev[i + 1] /\ i + 1 \in 1..Len(ev)
    BY TailFacts DEF EventsOK
  <1>2. 1 \in 1..Len(ev) /\ Len(ev) \in Nat BY <1>1
  <1>3. \A i \in 1..Len(Tail(ev)) : i + 1 # 1 BY <1>1, <1>2
  <1>4. \A i, k \in 1..Len(Tail(ev)) : i = k <=> i + 1 = k + 1 BY <1>1, <1>2
  <1>5. EventsOK(Tail(ev), ph, rv) BY <1>1, <1>4 DEF EventsOK, CanceledOK
  <1>6. Chain(ev[1]) => Quiet(Tail(ev)) /\ ph = Expected(ev[1]) BY <1>1, <1>2, <1>3 DEF EventsOK, Quiet
  <1>7. ev[1].kind = "canceled" => ev[1].job \in rv \cap Uploads BY <1>2 DEF EventsOK, CanceledOK
  <1>8. ASSUME NEW i \in 1..Len(ev), ev[i].kind \in {"connected", "next"},
               ev[1].kind \notin {"connected", "next"}
        PROVE  Wakes(Tail(ev))
    <2>1. i # 1 BY <1>8
    <2>2. i - 1 \in 1..Len(Tail(ev)) /\ Tail(ev)[i - 1] = ev[i] BY <1>1, <1>2, <1>8, <2>1
    <2>3. QED BY <1>8, <2>2 DEF Wakes
  <1>9. QED BY <1>5, <1>6, <1>7, <1>8 DEF Wakes

LEMMA EventsAppend ==
  ASSUME NEW ev, NEW ph, NEW rv, EventsOK(ev, ph, rv), NEW e \in Events,
         e.kind = "canceled" => e.job \in rv \cap Uploads,
         Chain(e) => Quiet(ev) /\ ph = Expected(e)
  PROVE  /\ EventsOK(Append(ev, e), ph, rv)
         /\ Wakes(ev) \/ e.kind \in {"connected", "next"} => Wakes(Append(ev, e))
  <1> DEFINE a == Append(ev, e)
  <1>1. /\ a \in Seq(Events) /\ Len(a) = Len(ev) + 1 /\ Len(ev) \in Nat
        /\ \A i \in 1..Len(ev) : a[i] = ev[i]
        /\ a[Len(ev) + 1] = e
    BY AppendFacts DEF EventsOK
  <1>2. \A i \in 1..Len(a) : i \in 1..Len(ev) \/ i = Len(ev) + 1 BY <1>1
  <1> HIDE DEF a
  <1>3. \A i \in 1..Len(a) : Chain(a[i]) => ph = Expected(a[i]) BY <1>1, <1>2 DEF EventsOK
  <1>4. \A i, k \in 1..Len(a) : Chain(a[i]) /\ Chain(a[k]) => i = k BY <1>1, <1>2 DEF EventsOK, Quiet
  <1>5. CanceledOK(a, rv) BY <1>1, <1>2 DEF EventsOK, CanceledOK
  <1>6. EventsOK(a, ph, rv) BY <1>1, <1>3, <1>4, <1>5 DEF EventsOK
  <1>7. Len(ev) + 1 \in 1..Len(a) /\ (\A i \in 1..Len(ev) : i \in 1..Len(a)) BY <1>1
  <1>8. Wakes(ev) \/ e.kind \in {"connected", "next"} => Wakes(a) BY <1>1, <1>7 DEF Wakes
  <1>9. QED BY <1>6, <1>8 DEF a

LEMMA EventsQuiet ==
  ASSUME NEW ev, NEW ph, NEW rv, EventsOK(ev, ph, rv)
  PROVE  /\ ph \notin {"uploaded", "sent", "finishing"} => Quiet(ev)
         /\ Quiet(ev) => \A ph2 : EventsOK(ev, ph2, rv)
         /\ \A rv2 : rv \subseteq rv2 => EventsOK(ev, ph, rv2)
  BY DEF EventsOK, Quiet, CanceledOK, Chain, Expected

LEMMA EventsSettle ==
  ASSUME NEW ev, NEW ph, NEW rv, EventsOK(ev, ph, rv), NEW j \in Jobs
  PROVE  /\ EventsOK(ev \o Settle(j), ph, rv)
         /\ Wakes(ev) => Wakes(ev \o Settle(j))
  <1>1. Event("settled", j) \in Events /\ Event("settled", j).kind = "settled" BY DEF Events, Event
  <1>2. ev \in Seq(Events) BY DEF EventsOK
  <1>3. CASE j \in Uploads
    <2>1. ev \o Settle(j) = Append(ev, Event("settled", j)) BY <1>1, <1>2, <1>3 DEF Settle
    <2>2. QED BY <1>1, <2>1, EventsAppend DEF Chain
  <1>4. CASE j \notin Uploads
    <2>1. ev \o Settle(j) = ev BY <1>2, <1>4 DEF Settle
    <2>2. QED BY <2>1
  <1>5. QED BY <1>3, <1>4

-----------------------------------------------------------------------------
(* nextProcess()                                                           *)

LEMMA SettleFacts ==
  ASSUME NEW j \in Jobs
  PROVE  /\ Settle(j) \in Seq(Events)
         /\ \A i \in 1..Len(Settle(j)) : Settle(j)[i].kind = "settled"
  <1>1. Event("settled", j) \in Events /\ Event("settled", j).kind = "settled" BY DEF Events, Event
  <1>2. CASE j \in Uploads BY <1>1, <1>2 DEF Settle
  <1>3. CASE j \notin Uploads BY <1>3 DEF Settle
  <1>4. QED BY <1>2, <1>3

Unchained(ev) == ev \in Seq(Events) /\ Quiet(ev) /\ CanceledOK(ev, revoked)

LEMMA UnchainedConcat ==
  ASSUME NEW ev, Unchained(ev), NEW t \in Seq(Events), \A i \in 1..Len(t) : t[i].kind = "settled"
  PROVE  Unchained(ev \o t)
  <1>1. ev \in Seq(Events) BY DEF Unchained, Quiet, CanceledOK
  <1>2. SUFFICES ASSUME NEW i \in 1..(Len(ev) + Len(t))
                 PROVE  /\ ~Chain((ev \o t)[i])
                        /\ (ev \o t)[i].kind = "canceled" => (ev \o t)[i].job \in revoked \cap Uploads
    BY <1>1, ConcatFacts DEF Unchained, Quiet, CanceledOK
  <1>3. CASE i \in 1..Len(ev)
    <2>1. (ev \o t)[i] = ev[i] BY <1>1, <1>3, ConcatFacts
    <2>2. QED BY <1>3, <2>1 DEF Unchained, Quiet, CanceledOK
  <1>4. CASE i > Len(ev)
    <2>1. Len(ev) \in Nat /\ Len(t) \in Nat BY <1>1
    <2>2. i - Len(ev) \in 1..Len(t) /\ Len(ev) + (i - Len(ev)) = i BY <1>2, <1>4, <2>1
    <2>3. (ev \o t)[i] = t[i - Len(ev)] BY <1>1, <2>2, ConcatFacts
    <2>4. QED BY <2>2, <2>3 DEF Chain
  <1>5. QED BY <1>1, <1>2, <1>3, <1>4

LEMMA UnchainedAppend ==
  ASSUME NEW ev, Unchained(ev), NEW e \in Events, ~Chain(e),
         e.kind = "canceled" => e.job \in revoked \cap Uploads
  PROVE  Unchained(Append(ev, e))
  <1>1. ev \in Seq(Events) BY DEF Unchained, Quiet, CanceledOK
  <1>2. SUFFICES ASSUME NEW i \in 1..(Len(ev) + 1)
                 PROVE  /\ ~Chain(Append(ev, e)[i])
                        /\ Append(ev, e)[i].kind = "canceled"
                             => Append(ev, e)[i].job \in revoked \cap Uploads
    BY <1>1, AppendFacts DEF Unchained, Quiet, CanceledOK
  <1>3. CASE i \in 1..Len(ev) BY <1>1, <1>3, AppendFacts DEF Unchained, Quiet, CanceledOK
  <1>4. CASE i = Len(ev) + 1 BY <1>1, <1>4, AppendFacts
  <1>5. QED BY <1>1, <1>2, <1>3, <1>4

\* The state in which nextProcess() may be called with this queue: nothing is
\* processed, no continuation is posted, and nothing of the queue was sent.  The
\* set apart holds the messages that are not queued yet.
CallOK(q, ev, res, tk, apart) ==
  /\ q \in Seq(Jobs) /\ Unchained(ev) /\ res \in [Jobs -> Outcomes] /\ tk \subseteq Ids
  /\ \A i, k \in 1..Len(q) : q[i] = q[k] => i = k
  /\ Members(q) \cap (apart \cup Members(wire)) = {}
  /\ \A j \in apart \cup Members(q) : res[j] = "none"
  /\ \A j \in revoked : res[j] \in {"none", "canceled"}
  /\ \A j \in Jobs : res[j] = "ok" => j \in Members(wire)
  /\ tk = Keys(Members(q))
  /\ \A i, k \in 1..Len(q) : i # k => Keys({q[i]}) \cap Keys({q[k]}) = {}

\* What nextProcess() leaves behind.
EventsDone ==
  /\ EventsOK(events', phase', revoked)
  /\ current' = NoJob /\ queue' # <<>> /\ connected => Wakes(events')

QueueDone(apart) ==
  /\ queue' \in Seq(Jobs) /\ current' \in Jobs \cup {NoJob}
  /\ phase' \in {"idle", "uploadPosted", "sendPosted", "finishing"}
  /\ outcome' \in {"none", "error"} /\ result' \in [Jobs -> Outcomes] /\ tasks' \subseteq Ids
  /\ current' = NoJob <=> phase' = "idle"
  /\ phase' = "uploadPosted" => current' \in Uploads
  /\ phase' = "sendPosted" => current' \notin Uploads
  /\ \A i, k \in 1..Len(queue') : queue'[i] = queue'[k] => i = k
  /\ current' \notin Members(queue') \cup apart \cup Members(wire)
  /\ Members(queue') \cap (apart \cup Members(wire)) = {}
  /\ \A j \in apart \cup Members(queue') \cup ({current'} \ {NoJob}) : result'[j] = "none"
  /\ \A j \in revoked : result'[j] \in {"none", "canceled"}
  /\ \A j \in Jobs : result'[j] = "ok" => j \in Members(wire)
  /\ tasks' = Keys(Members(queue') \cup {current'})
  /\ Keys({current'}) \cap Keys(Members(queue')) = {}
  /\ \A i, k \in 1..Len(queue') : i # k => Keys({queue'[i]}) \cap Keys({queue'[k]}) = {}

\* Skipping the canceled entries at the front keeps the state callable.
LEMMA SkipDone ==
  ASSUME CancelInv, revoked \subseteq Jobs, NEW q, NEW ev, NEW res, NEW tk, NEW apart, apart \subseteq Jobs,
         CallOK(q, ev, res, tk, apart), NEW n \in 0..Len(q), Skips(q, n)
  PROVE  CallOK(Rest(q, n), ev \o SettleFront(q, n), Voided(q, n, res), tk \ Keys(Front(q, n)), apart)
  <1> DEFINE skip == Front(q, n)
             rest == Rest(q, n)
             t == SettleFront(q, n)
             res1 == Voided(q, n, res)
  <1> USE DEF Front, SettleFront, Voided
  <1>1. q \in Seq(Jobs) /\ Len(q) \in Nat /\ n \in Nat BY DEF CallOK
  <1>2. /\ rest \in Seq(Jobs) /\ Len(rest) = Len(q) - n
        /\ \A i \in 1..Len(rest) : rest[i] = q[n + i] /\ n + i \in 1..Len(q)
        /\ Members(rest) \subseteq Members(q)
        /\ Members(q) = skip \cup Members(rest)
    BY <1>1, RestFacts
  <1>3. skip \cap Members(rest) = {}
    <2>1. SUFFICES ASSUME NEW i \in 1..n, NEW k \in 1..Len(rest), q[i] = rest[k] PROVE FALSE
      BY DEF Members
    <2>2. i \in 1..Len(q) /\ n + k \in 1..Len(q) /\ q[i] = q[n + k] BY <1>1, <1>2, <2>1
    <2>3. i = n + k BY <2>2 DEF CallOK
    <2>4. QED BY <1>1, <1>2, <2>1, <2>3
  <1>4. Unchained(ev \o t)
    <2>1. \A i \in 1..n : q[i] \in Jobs BY <1>1
    <2>2. t \in Seq(Events) /\ Len(t) = n BY <1>1, <2>1 DEF Events, Event
    <2>3. \A i \in 1..Len(t) : t[i].kind = "settled" BY <1>1, <2>2 DEF Event
    <2>4. QED BY <2>2, <2>3, UnchainedConcat DEF CallOK
  <1>5. \A j \in skip : child[j] = "canceled" /\ j \in revoked /\ j \in Jobs
    <2>1. SUFFICES ASSUME NEW i \in 1..n PROVE child[q[i]] = "canceled" /\ q[i] \in revoked /\ q[i] \in Jobs
      OBVIOUS
    <2>2. child[q[i]] = "canceled" BY <1>1 DEF Skips
    <2>3. q[i] \in Jobs BY <1>1
    <2>4. QED BY <2>2, <2>3 DEF CancelInv
  <1>6. /\ res1 \in [Jobs -> Outcomes]
        /\ \A j \in apart \cup Members(rest) : res1[j] = "none"
        /\ \A j \in revoked : res1[j] \in {"none", "canceled"}
        /\ \A j \in Jobs : res1[j] = "ok" => j \in Members(wire)
    <2>1. res1 \in [Jobs -> Outcomes] BY DEF CallOK, Outcomes
    <2>2. Members(rest) \subseteq Jobs BY <1>2 DEF Members
    <2>3. skip \cap apart = {} BY <1>2 DEF CallOK
    <2>4. \A j \in apart \cup Members(rest) : res1[j] = "none"
      BY <1>2, <1>3, <2>2, <2>3 DEF CallOK
    <2>5. \A j \in Jobs : res1[j] = "ok" => j \in Members(wire) BY DEF CallOK
    <2>6. \A j \in revoked : res1[j] \in {"none", "canceled"}
      <3>1. SUFFICES ASSUME NEW j \in revoked PROVE res1[j] \in {"none", "canceled"} OBVIOUS
      <3>2. QED BY DEF CallOK
    <2>7. QED BY <2>1, <2>4, <2>5, <2>6
  <1>7. /\ \A i, k \in 1..Len(rest) : rest[i] = rest[k] => i = k
        /\ \A i, k \in 1..Len(rest) : i # k => Keys({rest[i]}) \cap Keys({rest[k]}) = {}
    <2>1. SUFFICES ASSUME NEW i \in 1..Len(rest), NEW k \in 1..Len(rest)
                   PROVE  /\ rest[i] = rest[k] => i = k
                          /\ i # k => Keys({rest[i]}) \cap Keys({rest[k]}) = {}
      OBVIOUS
    <2>2. /\ n + i \in 1..Len(q) /\ rest[i] = q[n + i]
          /\ n + k \in 1..Len(q) /\ rest[k] = q[n + k]
          /\ n + i = n + k <=> i = k
      BY <1>1, <1>2
    <2>3. QED BY <2>2 DEF CallOK
  <1>8. tk \ Keys(skip) = Keys(Members(rest))
    <2>1. Keys(Members(q)) = Keys(skip) \cup Keys(Members(rest)) BY <1>2 DEF Keys
    <2>2. Keys(skip) \cap Keys(Members(rest)) = {}
      <3>1. SUFFICES ASSUME NEW i \in 1..n, NEW k \in 1..Len(rest), q[i] \in Uploads, rest[k] \in Uploads,
                            Attachment[q[i]] = Attachment[rest[k]]
                     PROVE  FALSE
        BY DEF Keys, Members
      <3>2. i \in 1..Len(q) /\ n + k \in 1..Len(q) /\ rest[k] = q[n + k] /\ i # n + k BY <1>1, <1>2, <3>1
      <3>3. Keys({q[i]}) \cap Keys({q[n + k]}) = {} BY <3>2 DEF CallOK
      <3>4. QED BY <3>1, <3>2, <3>3 DEF Keys
    <2>3. QED BY <2>1, <2>2 DEF CallOK
  <1>9. Members(rest) \cap (apart \cup Members(wire)) = {} BY <1>2 DEF CallOK
  <1>10. tk \ Keys(skip) \subseteq Ids BY DEF CallOK
  <1> HIDE DEF skip, rest, t, res1, Front, SettleFront, Voided
  <1>11. CallOK(rest, ev \o t, res1, tk \ Keys(skip), apart)
    BY <1>2, <1>4, <1>6, <1>7, <1>8, <1>9, <1>10 DEF CallOK
  <1>12. QED BY <1>11 DEF skip, rest, t, res1

\* nextProcess() starts the next entry or leaves the queue asleep for a reason.
LEMMA NextProcessDone ==
  ASSUME CancelInv, revoked \subseteq Jobs, wire \in Seq(Jobs), connected \in BOOLEAN,
         NEW q, NEW ev, NEW res, NEW tk, NEW apart, apart \subseteq Jobs,
         CallOK(q, ev, res, tk, apart), NextProcess(q, ev, res, tk)
  PROVE  EventsDone /\ QueueDone(apart)
  <1>1. PICK n \in 0..Len(q) :
          /\ Skips(q, n)
          /\ IF Rest(q, n) # <<>> /\ connected
             THEN /\ queue' = Tail(Rest(q, n))
                  /\ Started(Rest(q, n)[1], ev \o SettleFront(q, n), Voided(q, n, res), tk \ Keys(Front(q, n)))
             ELSE Asleep(Rest(q, n), ev \o SettleFront(q, n), Voided(q, n, res), tk \ Keys(Front(q, n)))
    BY DEF NextProcess
  <1> DEFINE rest == Rest(q, n)
             ev1 == ev \o SettleFront(q, n)
             res1 == Voided(q, n, res)
             tk1 == tk \ Keys(Front(q, n))
  <1>2. CallOK(rest, ev1, res1, tk1, apart) BY <1>1, SkipDone
  <1>3. IF rest # <<>> /\ connected
        THEN queue' = Tail(rest) /\ Started(rest[1], ev1, res1, tk1)
        ELSE /\ queue' = rest /\ current' = NoJob /\ phase' = "idle" /\ outcome' = "none"
             /\ events' = ev1 /\ result' = res1 /\ tasks' = tk1
    BY <1>1 DEF Asleep
  <1> HIDE DEF rest, ev1, res1, tk1
  <1>4. /\ ev1 \in Seq(Events) /\ Unchained(ev1) /\ rest \in Seq(Jobs)
        /\ NoJob \notin Jobs /\ Uploads \subseteq Jobs
        /\ NoJob \notin Members(rest) /\ NoJob \notin Members(wire) /\ NoJob \notin apart
    BY <1>2, SendAssumption DEF CallOK, Unchained, Members
  <1>5. CASE rest = <<>> \/ ~connected
    <2>1. /\ queue' = rest /\ current' = NoJob /\ phase' = "idle" /\ outcome' = "none"
          /\ events' = ev1 /\ result' = res1 /\ tasks' = tk1
      BY <1>3, <1>5
    <2>2. Keys({NoJob}) = {} /\ Keys(Members(rest) \cup {NoJob}) = Keys(Members(rest))
      BY <1>4 DEF Keys
    <2>3. EventsDone BY <1>4, <1>5, <2>1 DEF EventsDone, EventsOK, Unchained, Quiet
    <2>4. QueueDone(apart) BY <1>2, <1>4, <2>1, <2>2 DEF CallOK, QueueDone
    <2>5. QED BY <2>3, <2>4
  <1>6. CASE rest # <<>> /\ connected
    <2> DEFINE j == rest[1]
    <2>1. queue' = Tail(rest) /\ Started(j, ev1, res1, tk1) BY <1>3, <1>6
    <2>2. /\ Tail(rest) \in Seq(Jobs) /\ j \in Jobs /\ Len(Tail(rest)) = Len(rest) - 1 /\ Len(rest) > 0
          /\ \A i \in 1..Len(Tail(rest)) : Tail(rest)[i] = rest[i + 1] /\ i + 1 \in 1..Len(rest)
          /\ Members(rest) = {j} \cup Members(Tail(rest))
      BY <1>4, <1>6, TailFacts
    <2>3. /\ 1 \in 1..Len(rest) /\ Len(Tail(rest)) \in Nat /\ Len(rest) \in Nat
          /\ \A i \in 1..Len(Tail(rest)) : i + 1 # 1
      BY <1>4, <2>2
    <2>4. j \notin Members(Tail(rest))
      <3>1. SUFFICES ASSUME NEW i \in 1..Len(Tail(rest)), Tail(rest)[i] = j PROVE FALSE BY DEF Members
      <3>2. rest[i + 1] = rest[1] /\ i + 1 \in 1..Len(rest) BY <2>2, <3>1
      <3>3. QED BY <1>2, <2>3, <3>2 DEF CallOK
    <2>5. /\ \A i, k \in 1..Len(Tail(rest)) : Tail(rest)[i] = Tail(rest)[k] => i = k
          /\ \A i, k \in 1..Len(Tail(rest)) : i # k => Keys({Tail(rest)[i]}) \cap Keys({Tail(rest)[k]}) = {}
      <3>1. SUFFICES ASSUME NEW i \in 1..Len(Tail(rest)), NEW k \in 1..Len(Tail(rest))
                     PROVE  /\ Tail(rest)[i] = Tail(rest)[k] => i = k
                            /\ i # k => Keys({Tail(rest)[i]}) \cap Keys({Tail(rest)[k]}) = {}
        OBVIOUS
      <3>2. /\ Tail(rest)[i] = rest[i + 1] /\ i + 1 \in 1..Len(rest)
            /\ Tail(rest)[k] = rest[k + 1] /\ k + 1 \in 1..Len(rest)
            /\ i = k <=> i + 1 = k + 1
        BY <2>2
      <3>3. QED BY <1>2, <3>2 DEF CallOK
    <2>6. Keys({j}) \cap Keys(Members(Tail(rest))) = {}
      <3>1. SUFFICES ASSUME NEW i \in 1..Len(Tail(rest)), j \in Uploads, Tail(rest)[i] \in Uploads,
                            Attachment[j] = Attachment[Tail(rest)[i]]
                     PROVE  FALSE
        BY DEF Keys, Members
      <3>2. Tail(rest)[i] = rest[i + 1] /\ i + 1 \in 1..Len(rest) /\ i + 1 # 1 BY <2>2, <2>3
      <3>3. Keys({rest[1]}) \cap Keys({rest[i + 1]}) = {} BY <1>2, <2>3, <3>2 DEF CallOK
      <3>4. QED BY <3>1, <3>2, <3>3 DEF Keys
    <2>7. /\ tk1 = Keys(Members(Tail(rest)) \cup {j})
          /\ tk1 \ Keys({j}) = Keys(Members(Tail(rest)) \cup {NoJob})
          /\ Keys({NoJob}) = {}
      <3>1. tk1 = Keys({j} \cup Members(Tail(rest))) BY <1>2, <2>2 DEF CallOK
      <3>2. Keys({NoJob}) = {} BY <1>4 DEF Keys
      <3>3. tk1 \ Keys({j}) = Keys(Members(Tail(rest))) BY <2>6, <3>1 DEF Keys
      <3>4. Keys(Members(Tail(rest)) \cup {NoJob}) = Keys(Members(Tail(rest))) BY <3>2 DEF Keys
      <3>5. QED BY <3>1, <3>2, <3>3, <3>4
    <2>8. /\ j \notin apart /\ j \notin Members(wire) /\ res1[j] = "none"
          /\ Members(Tail(rest)) \cap (apart \cup Members(wire)) = {}
          /\ \A i \in apart \cup Members(Tail(rest)) : res1[i] = "none"
      BY <1>2, <2>2 DEF CallOK
    <2>9. /\ res1 \in [Jobs -> Outcomes] /\ tk1 \subseteq Ids
          /\ \A i \in revoked : res1[i] \in {"none", "canceled"}
          /\ \A i \in Jobs : res1[i] = "ok" => i \in Members(wire)
      BY <1>2 DEF CallOK
    <2> HIDE DEF j
    <2>10. CASE /\ current' = j /\ phase' = (IF j \in Uploads THEN "uploadPosted" ELSE "sendPosted")
                /\ outcome' = "none"
                /\ events' = ev1 /\ result' = res1 /\ tasks' = tk1
      <3>1. EventsDone BY <1>4, <2>2, <2>10 DEF EventsDone, EventsOK, Unchained, Quiet
      <3>2. QueueDone(apart)
        BY <1>4, <2>1, <2>2, <2>4, <2>5, <2>6, <2>7, <2>8, <2>9, <2>10 DEF QueueDone
      <3>3. QED BY <3>1, <3>2
    <2>11. CASE /\ j \in Uploads
                /\ current' = j /\ phase' = "finishing" /\ outcome' = "error"
                /\ events' = Append(ev1, Event("finished", j)) /\ result' = res1 /\ tasks' = tk1
      <3>1. /\ Event("finished", j) \in Events /\ Event("finished", j).kind = "finished"
            /\ Chain(Event("finished", j)) /\ Expected(Event("finished", j)) = "finishing"
        BY <2>2 DEF Event, Events, Chain, Expected
      <3>2. EventsOK(ev1, "finishing", revoked) BY <1>4 DEF EventsOK, Unchained, Quiet
      <3>3. EventsOK(events', "finishing", revoked)
        BY <1>4, <2>11, <3>1, <3>2, EventsAppend DEF Unchained
      <3>7. EventsDone BY <1>4, <2>2, <2>11, <3>3 DEF EventsDone
      <3>8. QueueDone(apart)
        BY <1>4, <2>1, <2>2, <2>4, <2>5, <2>6, <2>7, <2>8, <2>9, <2>11 DEF QueueDone
      <3>9. QED BY <3>7, <3>8
    <2>12. CASE /\ current' = NoJob /\ phase' = "idle" /\ outcome' = "none"
                /\ events' = Append(ev1 \o Settle(j), Event("next", NoJob))
                /\ result' = [res1 EXCEPT ![j] = IF j \in revoked THEN "canceled" ELSE "error"]
                /\ tasks' = tk1 \ Keys({j})
      <3>1. Unchained(ev1 \o Settle(j)) BY <1>4, <2>2, SettleFacts, UnchainedConcat
      <3>2. Event("next", NoJob) \in Events /\ Event("next", NoJob).kind = "next" BY DEF Event, Events
      <3>3. Unchained(events') BY <2>12, <3>1, <3>2, UnchainedAppend DEF Chain
      <3>4. Wakes(events')
        <4>1. ev1 \o Settle(j) \in Seq(Events) BY <3>1 DEF Unchained, Quiet
        <4>2. /\ Len(events') = Len(ev1 \o Settle(j)) + 1 /\ Len(ev1 \o Settle(j)) \in Nat
              /\ events'[Len(ev1 \o Settle(j)) + 1] = Event("next", NoJob)
          BY <2>12, <3>2, <4>1, AppendFacts
        <4>3. Len(ev1 \o Settle(j)) + 1 \in 1..Len(events') BY <4>2
        <4>4. QED BY <3>2, <4>2, <4>3 DEF Wakes
      <3>5. /\ result' \in [Jobs -> Outcomes]
            /\ \A i \in apart \cup Members(Tail(rest)) : result'[i] = "none"
            /\ \A i \in revoked : result'[i] \in {"none", "canceled"}
            /\ \A i \in Jobs : result'[i] = "ok" => i \in Members(wire)
        BY <1>4, <2>2, <2>4, <2>8, <2>9, <2>12 DEF Outcomes, Members
      <3>6. NoJob \notin Members(Tail(rest)) BY <1>4, <2>2
      <3>7. EventsDone BY <3>3, <3>4 DEF EventsDone, EventsOK, Unchained, Quiet
      <3>8. QueueDone(apart)
        <4>1. current' = NoJob /\ queue' = Tail(rest) /\ phase' = "idle" /\ outcome' = "none" BY <2>1, <2>12
        <4>2. \A i \in apart \cup Members(queue') \cup ({current'} \ {NoJob}) : result'[i] = "none"
          BY <3>5, <4>1
        <4>3. /\ tasks' = Keys(Members(queue') \cup {current'}) /\ tasks' \subseteq Ids
              /\ Keys({current'}) \cap Keys(Members(queue')) = {}
          BY <2>7, <2>9, <2>12, <4>1
        <4>4. QED BY <1>4, <2>2, <2>5, <2>8, <3>5, <3>6, <4>1, <4>2, <4>3 DEF QueueDone
      <3>9. QED BY <3>7, <3>8
    <2>13. QED BY <2>1, <2>10, <2>11, <2>12 DEF Started
  <1>7. QED BY <1>5, <1>6

-----------------------------------------------------------------------------
(* The invariant is inductive                                              *)

LEMMA InitInv == Init => IInv
  <1> SUFFICES ASSUME Init PROVE IInv OBVIOUS
  <1>1. TypeOK BY SendAssumption DEF Init, TypeOK, Outcomes, Ids
  <1>2. Pending = {} /\ Members(queue) = {} /\ Members(wire) = {} BY DEF Init, Pending, Members
  <1>3. Fresh \subseteq Jobs BY SendAssumption DEF Fresh, Members
  <1>4. PhaseInv /\ EventInv /\ NoLostWakeup
    BY DEF Init, PhaseInv, EventInv, EventsOK, CanceledOK, NoLostWakeup
  <1>5. OrderInv /\ CancelInv /\ ResultInv
    BY <1>2, <1>3, SendAssumption DEF Init, OrderInv, CancelInv, ResultInv, Sending
  <1>6. TasksExact BY <1>2, SendAssumption DEF Init, TasksExact, Keys
  <1>7. QED BY <1>1, <1>4, <1>5, <1>6 DEF IInv

\* Sets of messages that the steps of the GUI thread move around.
LEMMA SetFacts ==
  ASSUME TypeOK
  PROVE  /\ Pending \subseteq Jobs /\ Fresh \subseteq Jobs
         /\ Members(queue) \subseteq Jobs /\ Members(wire) \subseteq Jobs
         /\ NoJob \notin Pending \cup Fresh \cup Members(queue) \cup Members(wire)
  <1>1. Pending \subseteq Jobs
    <2> DEFINE T == [kind : {"enqueue", "cancel"}, job : Jobs]
    <2>1. todo \in Seq(T) BY DEF TypeOK
    <2> HIDE DEF T
    <2>2. \A i \in 1..Len(todo) : todo[i] \in T BY <2>1
    <2>3. \A i \in 1..Len(todo) : todo[i].job \in Jobs BY <2>2 DEF T
    <2>4. QED BY <2>3 DEF Pending
  <1>2. Fresh \subseteq Jobs BY SendAssumption DEF Fresh, Members
  <1>3. Members(queue) \subseteq Jobs /\ Members(wire) \subseteq Jobs BY DEF TypeOK, Members
  <1>4. QED BY <1>1, <1>2, <1>3, SendAssumption

LEMMA FreshSame == ASSUME asked' = asked PROVE Fresh' = Fresh
  BY DEF Fresh

LEMMA PendingSame == ASSUME todo' = todo PROVE Pending' = Pending
  BY DEF Pending

LEMMA PendingTail ==
  ASSUME TypeOK, OrderInv, todo # <<>>, todo' = Tail(todo)
  PROVE  /\ Pending' \subseteq Pending /\ todo[1].job \in Jobs /\ todo[1].job \notin Pending'
         /\ todo[1].kind = "enqueue" => todo[1].job \in Pending /\ Pending \subseteq Pending' \cup {todo[1].job}
         /\ todo' \in Seq([kind : {"enqueue", "cancel"}, job : Jobs])
         /\ \A i, k \in 1..Len(todo') :
              /\ todo'[i].kind = todo'[k].kind
              /\ todo'[i].job = todo'[k].job => i = k
         /\ \A i \in 1..Len(todo') : \E k \in 1..Len(todo) : todo'[i] = todo[k]
  <1> DEFINE T == [kind : {"enqueue", "cancel"}, job : Jobs]
  <1>1. /\ todo' \in Seq(T) /\ Len(todo') = Len(todo) - 1 /\ todo[1] \in T /\ Len(todo) > 0 /\ todo \in Seq(T)
        /\ \A i \in 1..Len(todo') : todo'[i] = todo[i + 1] /\ i + 1 \in 1..Len(todo)
    BY TailFacts DEF TypeOK
  <1>2. 1 \in 1..Len(todo) /\ Len(todo) \in Nat /\ Len(todo') \in Nat BY <1>1
  <1>3. \A i \in 1..Len(todo') : i + 1 # 1 BY <1>2
  <1>4. \A i, k \in 1..Len(todo') : i = k <=> i + 1 = k + 1 BY <1>2
  <1>5. Pending' \subseteq Pending BY <1>1 DEF Pending
  <1>6. todo[1].job \notin Pending'
    <2>1. SUFFICES ASSUME NEW i \in 1..Len(todo'), todo'[i].job = todo[1].job PROVE FALSE BY DEF Pending
    <2>2. QED BY <1>1, <1>2, <1>3, <2>1 DEF OrderInv
  <1>7. ASSUME todo[1].kind = "enqueue"
        PROVE  todo[1].job \in Pending /\ Pending \subseteq Pending' \cup {todo[1].job}
    <2>1. todo[1].job \in Pending BY <1>2, <1>7 DEF Pending
    <2>2. SUFFICES ASSUME NEW i \in 1..Len(todo), todo[i].kind = "enqueue", i # 1
                   PROVE  todo[i].job \in Pending'
      BY <2>1 DEF Pending
    <2>3. i - 1 \in 1..Len(todo') /\ todo'[i - 1] = todo[i] BY <1>1, <1>2, <2>2
    <2>4. QED BY <2>2, <2>3 DEF Pending
  <1>8. \A i, k \in 1..Len(todo') :
          /\ todo'[i].kind = todo'[k].kind
          /\ todo'[i].job = todo'[k].job => i = k
    BY <1>1, <1>4 DEF OrderInv
  <1>9. QED BY <1>1, <1>5, <1>6, <1>7, <1>8

\* An event that concerns neither the queue nor the cancellations is handled.
LEMMA OtherEvents ==
  ASSUME IInv, HandleSettled \/ HandleBatchDone \/ Connect
  PROVE  IInv'
  <1>1. /\ UNCHANGED <<asked, todo, aborted, queueVars, child, revoked, drops, wire>>
        /\ cancelable' \in {cancelable, NoRequest} /\ settled' \subseteq Jobs
        /\ connected' \in BOOLEAN
    <2>1. ASSUME HandleSettled PROVE events[1].job \in Jobs
      <3>1. events[1] \in Events BY <2>1, TailFacts DEF IInv, TypeOK, HandleSettled, Handling
      <3>2. QED BY <2>1, <3>1 DEF Events, HandleSettled, Handling
    <2>2. QED BY <2>1 DEF HandleSettled, HandleBatchDone, Connect, IInv, TypeOK, userVars, linkVars
  <1>2. /\ EventsOK(events', phase, revoked)
        /\ Wakes(events) \/ (~connected /\ connected') => Wakes(events')
        /\ connected' => connected \/ Wakes(events')
    <2>1. /\ Event("batchDone", NoJob) \in Events /\ ~Chain(Event("batchDone", NoJob))
          /\ Event("batchDone", NoJob).kind = "batchDone"
          /\ Event("connected", NoJob) \in Events /\ ~Chain(Event("connected", NoJob))
          /\ Event("connected", NoJob).kind = "connected"
      BY DEF Event, Events, Chain
    <2>2. EventsOK(events, phase, revoked) BY DEF IInv, EventInv
    <2>3. CASE Connect BY <2>1, <2>2, <2>3, EventsAppend DEF Connect
    <2>4. ASSUME HandleSettled \/ HandleBatchDone
          PROVE  /\ EventsOK(Tail(events), phase, revoked) /\ (Wakes(events) => Wakes(Tail(events)))
                 /\ connected' = connected
      BY <2>2, <2>4, EventsTail DEF HandleSettled, HandleBatchDone, Handling, linkVars
    <2>5. CASE HandleBatchDone BY <2>4, <2>5 DEF HandleBatchDone
    <2>6. CASE HandleSettled
      <3>1. events' = Tail(events) \/ events' = Append(Tail(events), Event("batchDone", NoJob))
        BY <2>6 DEF HandleSettled
      <3>2. /\ EventsOK(Append(Tail(events), Event("batchDone", NoJob)), phase, revoked)
            /\ Wakes(Tail(events)) => Wakes(Append(Tail(events), Event("batchDone", NoJob)))
        BY <2>1, <2>4, <2>6, EventsAppend
      <3>3. EventsOK(events', phase, revoked) BY <2>4, <2>6, <3>1, <3>2
      <3>4. Wakes(events) => Wakes(events') BY <2>4, <2>6, <3>1, <3>2
      <3>5. QED BY <2>4, <2>6, <3>3, <3>4
    <2>7. QED BY <2>3, <2>5, <2>6
  <1>3. TypeOK' BY <1>1, <1>2 DEF IInv, TypeOK, EventsOK, queueVars
  <1>4. Fresh' = Fresh /\ Pending' = Pending BY <1>1, FreshSame, PendingSame
  <1>5. PhaseInv' /\ TasksExact' BY <1>1 DEF IInv, PhaseInv, TasksExact, queueVars
  <1>6. EventInv' BY <1>1, <1>2 DEF EventInv, queueVars
  <1>7. OrderInv' /\ ResultInv' BY <1>1, <1>4 DEF IInv, OrderInv, ResultInv, queueVars
  <1>8. CancelInv' BY <1>1, <1>4 DEF IInv, CancelInv, queueVars
  <1>9. NoLostWakeup'
    <2>1. SUFFICES ASSUME current = NoJob, queue # <<>>, connected' PROVE Wakes(events')
      BY <1>1 DEF NoLostWakeup, queueVars, Wakes
    <2>2. QED BY <1>2, <2>1 DEF IInv, NoLostWakeup, Wakes
  <1>10. QED BY <1>3, <1>5, <1>6, <1>7, <1>8, <1>9 DEF IInv

\* The future that the current entry waits for finishes or fails.
LEMMA XmppFinishes ==
  ASSUME IInv, NEW kind \in {"uploaded", "sent"}, NEW how \in {"ok", "error", "canceled"},
         Finish(kind, how), phase \notin {"idle", "uploaded", "sent", "finishing"},
         kind = "uploaded" => phase \in {"uploadPosted", "uploading"},
         kind = "sent" => phase = "onWire" \/ (phase = "sendPosted" /\ how # "ok"),
         UNCHANGED <<userVars, queue, current, result, tasks, child, revoked, wire>>,
         connected' \in BOOLEAN, drops' \in 0..MaxDrops, connected' => connected
  PROVE  IInv'
  <1>1. current \in Jobs /\ current # NoJob BY SendAssumption DEF IInv, TypeOK, PhaseInv
  <1>2. /\ Event(kind, current) \in Events /\ Expected(Event(kind, current)) = kind
        /\ Event(kind, current).kind = kind
    BY <1>1 DEF Event, Events, Expected
  <1>3. EventsOK(events, kind, revoked) /\ Quiet(events)
    BY EventsQuiet DEF IInv, EventInv
  <1>4. EventsOK(events', kind, revoked)
    BY <1>2, <1>3, EventsAppend DEF Finish
  <1>5. phase' = kind /\ outcome' = how BY DEF Finish
  <1>6. TypeOK' BY <1>4, <1>5 DEF IInv, TypeOK, EventsOK, userVars, Outcomes
  <1>7. Fresh' = Fresh /\ Pending' = Pending BY FreshSame, PendingSame DEF userVars
  <1>8. PhaseInv' BY <1>1, <1>5 DEF IInv, PhaseInv
  <1>9. EventInv' BY <1>4, <1>5 DEF EventInv
  <1>10. OrderInv' BY <1>5, <1>7 DEF IInv, OrderInv, Sending, userVars
  <1>11. CancelInv' BY <1>5, <1>7 DEF IInv, CancelInv, userVars
  <1>12. ResultInv' BY <1>5, <1>7 DEF IInv, ResultInv
  <1>13. TasksExact' BY DEF IInv, TasksExact
  <1>14. NoLostWakeup' BY <1>1 DEF NoLostWakeup
  <1>15. QED BY <1>6, <1>8, <1>9, <1>10, <1>11, <1>12, <1>13, <1>14 DEF IInv

\* The steps of the XMPP thread, and a lost connection.
LEMMA XmppSteps ==
  ASSUME IInv, Xmpp \/ Disconnect
  PROVE  IInv'
  <1> USE DEF linkVars
  <1>1. connected \in BOOLEAN /\ drops \in 0..MaxDrops /\ MaxDrops \in Nat
    BY SendAssumption DEF IInv, TypeOK
  <1>2. ASSUME NEW how \in {"ok", "error"}, UploadEnds(how) PROVE IInv'
    BY <1>1, <1>2, XmppFinishes DEF UploadEnds
  <1>3. ASSUME NEW how \in {"ok", "error"}, SendEnds(how) PROVE IInv'
    BY <1>1, <1>3, XmppFinishes DEF SendEnds
  <1>4. ASSUME UploadCall PROVE IInv'
    <2>1. CASE Finish("uploaded", "canceled") BY <1>1, <1>4, <2>1, XmppFinishes DEF UploadCall
    <2>2. CASE Finish("uploaded", "error") BY <1>1, <1>4, <2>2, XmppFinishes DEF UploadCall
    <2>3. CASE phase' = "uploading" /\ UNCHANGED <<outcome, events>>
      <3>1. /\ phase = "uploadPosted" /\ UNCHANGED <<userVars, queue, current, result, tasks, child,
                                                     revoked, connected, drops, wire>>
        BY <1>4 DEF UploadCall
      <3>2. EventsOK(events, "uploading", revoked) BY <3>1, EventsQuiet DEF IInv, EventInv
      <3>3. Fresh' = Fresh /\ Pending' = Pending BY <3>1, FreshSame, PendingSame DEF userVars
      <3>4. TypeOK' BY <2>3, <3>1 DEF IInv, TypeOK, userVars
      <3>5. PhaseInv' /\ EventInv' /\ TasksExact' /\ NoLostWakeup'
        BY <2>3, <3>1, <3>2 DEF IInv, PhaseInv, EventInv, TasksExact, NoLostWakeup
      <3>6. OrderInv' /\ CancelInv' /\ ResultInv'
        BY <2>3, <3>1, <3>3 DEF IInv, OrderInv, CancelInv, ResultInv, Sending, userVars
      <3>7. QED BY <3>4, <3>5, <3>6 DEF IInv
    <2>4. QED BY <1>4, <2>1, <2>2, <2>3 DEF UploadCall
  <1>5. ASSUME SendCall PROVE IInv'
    <2>1. CASE ~connected BY <1>1, <1>5, <2>1, XmppFinishes DEF SendCall
    <2>2. CASE connected
      <3>1. /\ phase = "sendPosted" /\ phase' = "onWire" /\ wire' = Append(wire, current)
            /\ UNCHANGED <<userVars, queue, current, result, tasks, child, revoked, outcome, events,
                           connected, drops>>
        BY <1>5, <2>2 DEF SendCall
      <3>2. current \in Jobs BY <3>1, SendAssumption DEF IInv, TypeOK, PhaseInv
      <3>3. wire' \in Seq(Jobs) /\ Members(wire') = Members(wire) \cup {current}
        BY <3>1, <3>2, AppendFacts DEF IInv, TypeOK
      <3>4. EventsOK(events, "onWire", revoked) BY <3>1, EventsQuiet DEF IInv, EventInv
      <3>5. Fresh' = Fresh /\ Pending' = Pending BY <3>1, FreshSame, PendingSame DEF userVars
      <3>6. TypeOK' BY <3>1, <3>3 DEF IInv, TypeOK, userVars
      <3>7. PhaseInv' /\ EventInv' /\ TasksExact' /\ NoLostWakeup'
        BY <3>1, <3>4 DEF IInv, PhaseInv, EventInv, TasksExact, NoLostWakeup
      <3>8. OrderInv' BY <3>1, <3>3, <3>5 DEF IInv, OrderInv, Sending, userVars
      <3>9. CancelInv' BY <3>1, <3>3, <3>5 DEF IInv, CancelInv, userVars
      <3>10. ResultInv' BY <3>1, <3>3, <3>5 DEF IInv, ResultInv
      <3>11. QED BY <3>6, <3>7, <3>8, <3>9, <3>10 DEF IInv
    <2>3. QED BY <1>1, <2>1, <2>2
  <1>6. ASSUME Disconnect PROVE IInv'
    <2>1. /\ connected' = FALSE /\ drops' \in 0..MaxDrops
          /\ UNCHANGED <<userVars, queue, current, result, tasks, child, revoked, wire>>
      BY <1>1, <1>6 DEF Disconnect
    <2>2. CASE phase = "uploading" BY <1>1, <1>6, <2>1, <2>2, XmppFinishes DEF Disconnect
    <2>3. CASE phase # "uploading"
      <3>1. UNCHANGED <<phase, outcome, events>> BY <1>6, <2>3 DEF Disconnect
      <3>2. Fresh' = Fresh /\ Pending' = Pending BY <2>1, FreshSame, PendingSame DEF userVars
      <3>3. TypeOK' BY <2>1, <3>1 DEF IInv, TypeOK, userVars
      <3>4. PhaseInv' /\ EventInv' /\ TasksExact' /\ NoLostWakeup'
        BY <2>1, <3>1 DEF IInv, PhaseInv, EventInv, TasksExact, NoLostWakeup
      <3>5. OrderInv' /\ CancelInv' /\ ResultInv'
        BY <2>1, <3>1, <3>2 DEF IInv, OrderInv, CancelInv, ResultInv, userVars
      <3>6. QED BY <3>3, <3>4, <3>5 DEF IInv
    <2>4. QED BY <2>2, <2>3
  <1>7. QED BY <1>2, <1>3, <1>4, <1>5, <1>6 DEF Xmpp

\* The continuations that run on the GUI thread before the entry is finished.
LEMMA Continuations ==
  ASSUME IInv, HandleUploaded \/ HandleSent
  PROVE  IInv'
  <1>1. /\ UNCHANGED <<userVars, queue, current, result, tasks, revoked, connected, drops, wire>>
        /\ events # <<>> /\ Chain(events[1]) /\ Expected(events[1]) \in {"uploaded", "sent"}
        /\ HandleUploaded => Expected(events[1]) = "uploaded"
        /\ HandleSent => Expected(events[1]) = "sent"
    BY DEF HandleUploaded, HandleSent, Handling, linkVars, Chain, Expected
  <1>2. /\ EventsOK(Tail(events), phase, revoked) /\ Quiet(Tail(events))
        /\ HandleUploaded => phase = "uploaded"
        /\ HandleSent => phase = "sent"
    BY <1>1, EventsTail DEF IInv, EventInv
  <1>3. current \in Jobs /\ current # NoJob
    BY <1>2, SendAssumption DEF IInv, TypeOK, PhaseInv
  <1>4. /\ Event("finished", current) \in Events /\ Chain(Event("finished", current))
        /\ Expected(Event("finished", current)) = "finishing"
        /\ Event("finished", current).kind = "finished"
    BY <1>3 DEF Event, Events, Chain, Expected
  <1>5. /\ EventsOK(Tail(events), "sendPosted", revoked)
        /\ EventsOK(Append(Tail(events), Event("finished", current)), "finishing", revoked)
    <2>1. EventsOK(Tail(events), "sendPosted", revoked) /\ EventsOK(Tail(events), "finishing", revoked)
      BY <1>2, EventsQuiet
    <2>2. QED BY <1>2, <1>4, <2>1, EventsAppend
  <1>6. Fresh' = Fresh /\ Pending' = Pending BY <1>1, FreshSame, PendingSame DEF userVars
  <1>7. CASE HandleUploaded /\ outcome = "ok" /\ child[current] # "canceled"
    <2>1. /\ child' = [child EXCEPT ![current] = "committed"] /\ phase' = "sendPosted"
          /\ outcome' = "none" /\ events' = Tail(events) /\ phase = "uploaded" /\ current \in Uploads
      BY <1>2, <1>7 DEF HandleUploaded, IInv, PhaseInv
    <2>2. TypeOK' BY <1>1, <1>5, <2>1 DEF IInv, TypeOK, EventsOK, Outcomes, userVars
    <2>3. PhaseInv' /\ EventInv' /\ TasksExact' /\ NoLostWakeup'
      BY <1>1, <1>3, <1>5, <2>1 DEF IInv, PhaseInv, EventInv, TasksExact, NoLostWakeup
    <2>4. OrderInv' BY <1>1, <1>6, <2>1 DEF IInv, OrderInv, Sending, userVars
    <2>5. CancelInv' BY <1>1, <1>6, <2>1, <1>3 DEF IInv, CancelInv, TypeOK, userVars
    <2>6. ResultInv' BY <1>1, <1>6, <2>1 DEF IInv, ResultInv
    <2>7. QED BY <2>2, <2>3, <2>4, <2>5, <2>6 DEF IInv
  <1>8. CASE HandleSent \/ ~(outcome = "ok" /\ child[current] # "canceled")
    <2>1. /\ child' = child /\ phase' = "finishing"
          /\ events' = Append(Tail(events), Event("finished", current))
          /\ outcome' \in Outcomes
          /\ outcome' = "ok" => phase = "sent" /\ outcome = "ok"
      BY <1>2, <1>8 DEF HandleUploaded, HandleSent, IInv, TypeOK, Outcomes
    <2>2. TypeOK' BY <1>1, <1>5, <2>1 DEF IInv, TypeOK, EventsOK, userVars
    <2>3. PhaseInv' /\ EventInv' /\ TasksExact' /\ NoLostWakeup'
      BY <1>1, <1>3, <1>5, <2>1 DEF IInv, PhaseInv, EventInv, TasksExact, NoLostWakeup
    <2>4. OrderInv' /\ CancelInv' BY <1>1, <1>6, <2>1 DEF IInv, OrderInv, CancelInv, Sending, userVars
    <2>5. ResultInv' BY <1>1, <1>6, <2>1 DEF IInv, ResultInv
    <2>6. QED BY <2>2, <2>3, <2>4, <2>5 DEF IInv
  <1>9. QED BY <1>7, <1>8

\* The user asks for something.
LEMMA AskInv ==
  ASSUME IInv, NEW r \in Requests, Ask(r)
  PROVE  IInv'
  <1> DEFINE js == JobsOf[r]
             T == [kind : {"enqueue", "cancel"}, job : Jobs]
  <1>1. /\ todo = <<>> /\ r \notin asked /\ asked' = asked \cup {r} /\ todo' = Todo("enqueue", js)
        /\ cancelable' \in {r, cancelable}
        /\ UNCHANGED <<aborted, settled, queueVars, child, revoked, events, linkVars, wire>>
    BY DEF Ask
  <1>2. js \in Seq(Jobs) BY SendAssumption
  <1>3. /\ todo' \in Seq(T) /\ Len(todo') = Len(js)
        /\ \A i \in 1..Len(todo') : todo'[i].kind = "enqueue" /\ todo'[i].job = js[i]
    BY <1>1, <1>2 DEF Todo
  <1>4. Pending = {} BY <1>1 DEF Pending
  <1>5. Pending' = Members(js) BY <1>3 DEF Pending, Members
  <1>6. Fresh' \subseteq Fresh /\ Members(js) \subseteq Fresh BY <1>1 DEF Fresh
  <1>7. Fresh' \cap Members(js) = {}
    <2>1. SUFFICES ASSUME NEW t \in Requests, t \notin asked', NEW i \in 1..Len(JobsOf[t]),
                          NEW k \in 1..Len(js), JobsOf[t][i] = js[k]
                   PROVE  FALSE
      BY DEF Fresh, Members
    <2>2. t = r BY <2>1, SendAssumption
    <2>3. QED BY <1>1, <2>1, <2>2
  <1>8. \A i, k \in 1..Len(js) : js[i] = js[k] => i = k BY SendAssumption
  <1>9. TypeOK' BY <1>1, <1>3 DEF IInv, TypeOK, queueVars, linkVars
  <1>10. PhaseInv' /\ EventInv' /\ TasksExact' /\ NoLostWakeup'
    BY <1>1 DEF IInv, PhaseInv, EventInv, TasksExact, NoLostWakeup, queueVars, linkVars
  <1>11. OrderInv'
    <2>1. \A i, k \in 1..Len(todo') :
            /\ todo'[i].kind = todo'[k].kind
            /\ todo'[i].job = todo'[k].job => i = k
      BY <1>3, <1>8
    <2>2. QED BY <1>1, <1>4, <1>5, <1>6, <1>7, <2>1 DEF IInv, OrderInv, queueVars
  <1>12. CancelInv' BY <1>1, <1>3, <1>4, <1>5, <1>6 DEF IInv, CancelInv, queueVars
  <1>13. ResultInv' BY <1>1, <1>4, <1>5, <1>6 DEF IInv, ResultInv, queueVars
  <1>14. QED BY <1>9, <1>10, <1>11, <1>12, <1>13 DEF IInv

\* The user cancels a batch; its futures are canceled one by one afterwards.
LEMMA CancelBatchInv ==
  ASSUME IInv, NEW r \in Requests, CancelBatch(r)
  PROVE  IInv'
  <1> DEFINE js == JobsOf[r]
             T == [kind : {"enqueue", "cancel"}, job : Jobs]
  <1>1. /\ todo = <<>> /\ r = cancelable /\ r \in Batches /\ todo' = Todo("cancel", js)
        /\ aborted' = aborted \cup {r}
        /\ UNCHANGED <<asked, cancelable, settled, queueVars, child, revoked, events, linkVars, wire>>
    BY DEF CancelBatch
  <1>2. js \in Seq(Jobs) BY SendAssumption
  <1>3. /\ todo' \in Seq(T) /\ Len(todo') = Len(js)
        /\ \A i \in 1..Len(todo') : todo'[i].kind = "cancel" /\ todo'[i].job = js[i]
    BY <1>1, <1>2 DEF Todo
  <1>4. Pending = {} /\ Pending' = {} BY <1>1, <1>3 DEF Pending
  <1>5. r \in asked BY <1>1, SendAssumption DEF IInv, CancelInv
  <1>6. Fresh' = Fresh BY <1>1, FreshSame
  <1>7. \A k \in 1..Len(js) : js[k] \notin Fresh
    <2>1. SUFFICES ASSUME NEW t \in Requests, t \notin asked, NEW i \in 1..Len(JobsOf[t]),
                          NEW k \in 1..Len(js), JobsOf[t][i] = js[k]
                   PROVE  FALSE
      BY DEF Fresh, Members
    <2>2. t = r BY <2>1, SendAssumption
    <2>3. QED BY <1>5, <2>1, <2>2
  <1>8. \A i, k \in 1..Len(js) : js[i] = js[k] => i = k BY SendAssumption
  <1>9. TypeOK' BY <1>1, <1>3 DEF IInv, TypeOK, queueVars, linkVars
  <1>10. PhaseInv' /\ EventInv' /\ TasksExact' /\ NoLostWakeup'
    BY <1>1 DEF IInv, PhaseInv, EventInv, TasksExact, NoLostWakeup, queueVars, linkVars
  <1>11. OrderInv'
    <2>1. \A i, k \in 1..Len(todo') :
            /\ todo'[i].kind = todo'[k].kind
            /\ todo'[i].job = todo'[k].job => i = k
      BY <1>3, <1>8
    <2>2. QED BY <1>1, <1>4, <1>6, <2>1 DEF IInv, OrderInv, queueVars
  <1>12. CancelInv'
    <2>1. \A i \in 1..Len(todo') : todo'[i].kind = "cancel" => todo'[i].job \notin Fresh' BY <1>3, <1>6, <1>7
    <2>2. QED BY <1>1, <1>4, <1>6, <2>1 DEF IInv, CancelInv, queueVars
  <1>13. ResultInv' BY <1>1, <1>4, <1>6 DEF IInv, ResultInv, queueVars
  <1>14. QED BY <1>9, <1>10, <1>11, <1>12, <1>13 DEF IInv

\* A future is canceled and its watcher told.
LEMMA RevokeFacts ==
  ASSUME NEW ev, NEW j \in Jobs, EventsOK(ev, phase, revoked), Revoke(j, ev)
  PROVE  /\ EventsOK(events', phase, revoked') /\ revoked' = revoked \cup {j}
         /\ Wakes(ev) => Wakes(events')
  <1>1. revoked' = revoked \cup {j} BY DEF Revoke
  <1>2. EventsOK(ev, phase, revoked') BY <1>1, EventsQuiet
  <1>3. CASE j \notin revoked /\ Watched(j)
    <2>1. j \in Uploads BY <1>3, SendAssumption DEF Watched
    <2>2. /\ Event("canceled", j) \in Events /\ ~Chain(Event("canceled", j))
          /\ Event("canceled", j).job = j /\ j \in revoked' \cap Uploads
      BY <1>1, <2>1 DEF Event, Events, Chain
    <2>3. events' = Append(ev, Event("canceled", j)) BY <1>3 DEF Revoke
    <2>4. QED BY <1>1, <1>2, <2>2, <2>3, EventsAppend
  <1>4. CASE ~(j \notin revoked /\ Watched(j)) BY <1>1, <1>2, <1>4 DEF Revoke
  <1>5. QED BY <1>3, <1>4

\* An upload, or a future, is canceled; the queue itself is not touched.
LEMMA Canceled ==
  ASSUME IInv, NEW j \in Jobs, j \notin Fresh \cup Pending, result[j] \in {"none", "canceled"},
         UNCHANGED <<asked, cancelable, aborted, settled, queueVars, linkVars, wire>>,
         child' = child \/ (/\ child' = [child EXCEPT ![j] = "canceled"]
                            /\ child[j] = "open" /\ j \in Uploads),
         revoked' = revoked \cup {j}, EventsOK(events', phase, revoked'),
         Wakes(events) => Wakes(events'),
         todo' = todo \/ (todo # <<>> /\ todo' = Tail(todo))
  PROVE  IInv'
  <1>1. Fresh' = Fresh BY FreshSame
  <1>2. /\ Pending' \subseteq Pending /\ todo' \in Seq([kind : {"enqueue", "cancel"}, job : Jobs])
        /\ \A i, k \in 1..Len(todo') :
              /\ todo'[i].kind = todo'[k].kind
              /\ todo'[i].job = todo'[k].job => i = k
        /\ \A i \in 1..Len(todo') : \E k \in 1..Len(todo) : todo'[i] = todo[k]
    <2>1. CASE todo' = todo BY <2>1, PendingSame DEF IInv, TypeOK, OrderInv
    <2>2. CASE todo # <<>> /\ todo' = Tail(todo) BY <2>2, PendingTail DEF IInv
    <2>3. QED BY <2>1, <2>2
  <1>3. TypeOK' BY <1>2 DEF IInv, TypeOK, EventsOK, queueVars, linkVars
  <1>4. PhaseInv' /\ EventInv' /\ TasksExact'
    BY DEF IInv, PhaseInv, EventInv, TasksExact, queueVars
  <1>5. NoLostWakeup' BY DEF IInv, NoLostWakeup, Wakes, queueVars, linkVars
  <1>6. OrderInv' BY <1>1, <1>2 DEF IInv, OrderInv, queueVars
  <1>7. CancelInv'
    <2>1. child \in [Jobs -> {"open", "canceled", "committed"}] /\ Members(wire) \subseteq Jobs
      BY SetFacts DEF IInv, TypeOK
    <2>2. /\ \A i \in Jobs : child'[i] # "open" => i \in Uploads
          /\ \A i \in Jobs : child'[i] = "canceled" => i \in revoked'
          /\ \A i \in Members(wire) \cap Uploads : child'[i] = "committed"
      BY <2>1 DEF IInv, CancelInv
    <2>3. phase' = "sendPosted" /\ current' \in Uploads => child'[current'] = "committed"
      BY <2>1, SendAssumption DEF IInv, CancelInv, queueVars
    <2>4. revoked' \cap (Fresh' \cup Pending') = {} BY <1>1, <1>2 DEF IInv, CancelInv
    <2>5. \A i \in 1..Len(todo') : todo'[i].kind = "cancel" => todo'[i].job \notin Fresh'
      BY <1>1, <1>2 DEF IInv, CancelInv
    <2>6. QED BY <2>2, <2>3, <2>4, <2>5 DEF IInv, CancelInv
  <1>8. ResultInv' BY <1>1, <1>2 DEF IInv, ResultInv, queueVars
  <1>9. QED BY <1>3, <1>4, <1>5, <1>6, <1>7, <1>8 DEF IInv

\* Nothing but the events and the cancellations changes.
LEMMA Untouched ==
  ASSUME IInv, UNCHANGED <<asked, cancelable, aborted, settled, queueVars, linkVars, wire, child, revoked>>,
         EventsOK(events', phase, revoked), Wakes(events) => Wakes(events'),
         todo' = todo \/ (todo # <<>> /\ todo' = Tail(todo))
  PROVE  IInv'
  <1>1. Fresh' = Fresh BY FreshSame
  <1>2. /\ Pending' \subseteq Pending /\ todo' \in Seq([kind : {"enqueue", "cancel"}, job : Jobs])
        /\ \A i, k \in 1..Len(todo') :
              /\ todo'[i].kind = todo'[k].kind
              /\ todo'[i].job = todo'[k].job => i = k
        /\ \A i \in 1..Len(todo') : \E k \in 1..Len(todo) : todo'[i] = todo[k]
    <2>1. CASE todo' = todo BY <2>1, PendingSame DEF IInv, TypeOK, OrderInv
    <2>2. CASE todo # <<>> /\ todo' = Tail(todo) BY <2>2, PendingTail DEF IInv
    <2>3. QED BY <2>1, <2>2
  <1>3. TypeOK' BY <1>2 DEF IInv, TypeOK, EventsOK, queueVars, linkVars
  <1>4. PhaseInv' /\ EventInv' /\ TasksExact' BY DEF IInv, PhaseInv, EventInv, TasksExact, queueVars
  <1>5. NoLostWakeup' BY DEF IInv, NoLostWakeup, Wakes, queueVars, linkVars
  <1>6. OrderInv' BY <1>1, <1>2 DEF IInv, OrderInv, queueVars
  <1>7. CancelInv' BY <1>1, <1>2 DEF IInv, CancelInv, queueVars
  <1>8. ResultInv' BY <1>1, <1>2 DEF IInv, ResultInv, queueVars
  <1>9. QED BY <1>3, <1>4, <1>5, <1>6, <1>7, <1>8 DEF IInv

LEMMA CancelSteps ==
  ASSUME IInv, (\E j \in Uploads : CancelUpload(j)) \/ CancelFuture \/ HandleCanceled
  PROVE  IInv'
  <1>0. EventsOK(events, phase, revoked) /\ Uploads \subseteq Jobs
    BY SendAssumption DEF IInv, EventInv
  <1>1. ASSUME NEW j \in Uploads, CancelUpload(j) PROVE IInv'
    <2>1. /\ child[j] = "open" /\ child' = [child EXCEPT ![j] = "canceled"] /\ Revoke(j, events)
          /\ UNCHANGED <<userVars, queueVars, linkVars, wire>>
          /\ j = current \/ j \in Members(queue)
      BY <1>1 DEF CancelUpload, CancelChild
    <2>2. j \in Jobs /\ j # NoJob BY <1>0, SendAssumption
    <2>3. j \notin Fresh \cup Pending /\ result[j] = "none"
      BY <2>1, <2>2 DEF IInv, OrderInv, ResultInv
    <2>4. /\ EventsOK(events', phase, revoked') /\ revoked' = revoked \cup {j}
          /\ Wakes(events) => Wakes(events')
      BY <1>0, <2>1, <2>2, RevokeFacts
    <2>5. QED BY <2>1, <2>2, <2>3, <2>4, Canceled DEF userVars
  <1>2. ASSUME CancelFuture PROVE IInv'
    <2> DEFINE j == todo[1].job
    <2>1. /\ todo # <<>> /\ todo[1].kind = "cancel" /\ todo' = Tail(todo)
          /\ UNCHANGED <<asked, cancelable, aborted, settled, queueVars, child, linkVars, wire>>
      BY <1>2 DEF CancelFuture, Doing
    <2>2. /\ j \in Jobs /\ 1 \in 1..Len(todo)
      BY <2>1, PendingTail, TailFacts DEF IInv, TypeOK
    <2>3. j \notin Fresh BY <2>1, <2>2 DEF IInv, CancelInv
    <2>4. Pending = {} BY <2>1, <2>2 DEF IInv, OrderInv, Pending
    <2>5. CASE result[j] = "none"
      <3>1. Revoke(j, events) BY <1>2, <2>5 DEF CancelFuture
      <3>2. /\ EventsOK(events', phase, revoked') /\ revoked' = revoked \cup {j}
            /\ Wakes(events) => Wakes(events')
        BY <1>0, <2>2, <3>1, RevokeFacts
      <3>3. QED BY <2>1, <2>2, <2>3, <2>4, <2>5, <3>2, Canceled
    <2>6. CASE result[j] # "none"
      <3>1. UNCHANGED <<revoked, events>> BY <1>2, <2>6 DEF CancelFuture
      <3>2. QED BY <1>0, <2>1, <3>1, Untouched
    <2>7. QED BY <2>5, <2>6
  <1>3. ASSUME HandleCanceled PROVE IInv'
    <2> DEFINE j == events[1].job
    <2>1. /\ events # <<>> /\ events[1].kind = "canceled" /\ CancelChild(j, Tail(events))
          /\ UNCHANGED <<userVars, queueVars, linkVars, wire>>
      BY <1>3 DEF HandleCanceled, Handling
    <2>2. /\ EventsOK(Tail(events), phase, revoked) /\ j \in revoked \cap Uploads
          /\ Wakes(events) => Wakes(Tail(events))
      BY <1>0, <2>1, EventsTail
    <2>3. j \in Jobs /\ j \notin Fresh \cup Pending /\ result[j] \in {"none", "canceled"}
      BY <1>0, <2>2 DEF IInv, CancelInv, ResultInv
    <2>4. CASE child[j] = "open"
      <3>1. child' = [child EXCEPT ![j] = "canceled"] /\ Revoke(j, Tail(events))
        BY <2>1, <2>4 DEF CancelChild
      <3>2. /\ EventsOK(events', phase, revoked') /\ revoked' = revoked \cup {j}
            /\ Wakes(Tail(events)) => Wakes(events')
        BY <2>2, <2>3, <3>1, RevokeFacts
      <3>3. Wakes(events) => Wakes(events') BY <2>2, <3>2
      <3> HIDE DEF j
      <3>4. QED BY <2>1, <2>2, <2>3, <2>4, <3>1, <3>2, <3>3, Canceled DEF userVars
    <2>5. CASE child[j] # "open"
      <3>1. UNCHANGED <<child, revoked>> /\ events' = Tail(events) BY <2>1, <2>5 DEF CancelChild
      <3>2. QED BY <2>1, <2>2, <3>1, Untouched DEF userVars
    <2>6. QED BY <2>4, <2>5
  <1>4. QED BY <1>1, <1>2, <1>3

\* sendFiles() refuses a file.
LEMMA RefuseInv ==
  ASSUME IInv, Refuse
  PROVE  IInv'
  <1> DEFINE j == todo[1].job
  <1>1. /\ todo # <<>> /\ todo[1].kind = "enqueue" /\ todo' = Tail(todo) /\ j \in Uploads
        /\ result' = [result EXCEPT ![j] = "error"] /\ events' = events \o Settle(j)
        /\ UNCHANGED <<asked, cancelable, aborted, settled, queue, current, phase, outcome, tasks,
                       child, revoked, linkVars, wire>>
    BY DEF Refuse, Doing
  <1>2. /\ Pending' \subseteq Pending /\ j \in Jobs /\ j \notin Pending' /\ j \in Pending
        /\ todo' \in Seq([kind : {"enqueue", "cancel"}, job : Jobs])
        /\ \A i, k \in 1..Len(todo') :
             /\ todo'[i].kind = todo'[k].kind
             /\ todo'[i].job = todo'[k].job => i = k
        /\ \A i \in 1..Len(todo') : \E k \in 1..Len(todo) : todo'[i] = todo[k]
    BY <1>1, PendingTail DEF IInv
  <1>3. EventsOK(events', phase, revoked) /\ (Wakes(events) => Wakes(events'))
    BY <1>1, <1>2, EventsSettle DEF IInv, EventInv
  <1>4. Fresh' = Fresh BY <1>1, FreshSame
  <1> HIDE DEF j
  <1>5. TypeOK' BY <1>1, <1>2, <1>3 DEF IInv, TypeOK, EventsOK, Outcomes, linkVars
  <1>6. PhaseInv' /\ EventInv' /\ TasksExact' BY <1>1, <1>3 DEF IInv, PhaseInv, EventInv, TasksExact
  <1>7. NoLostWakeup' BY <1>1, <1>3 DEF IInv, NoLostWakeup, Wakes, linkVars
  <1>8. OrderInv' BY <1>1, <1>2, <1>4 DEF IInv, OrderInv
  <1>9. CancelInv' BY <1>1, <1>2, <1>4 DEF IInv, CancelInv
  <1>10. ResultInv'
    <2>1. j \notin Fresh \cup Pending' \cup Members(queue) \cup {current} \cup revoked
      BY <1>2 DEF IInv, OrderInv, CancelInv
    <2>2. \A i \in Jobs \ {j} : result'[i] = result[i] BY <1>1 DEF IInv, TypeOK
    <2>3. result'[j] = "error" BY <1>1, <1>2 DEF IInv, TypeOK
    <2>4. Fresh \cup Pending' \cup Members(queue) \cup ({current} \ {NoJob}) \cup revoked \subseteq Jobs
      BY <1>2, SetFacts DEF IInv, TypeOK
    <2>5. \A i \in Fresh \cup Pending' \cup Members(queue) \cup ({current} \ {NoJob}) : result'[i] = "none"
      BY <1>2, <2>1, <2>2, <2>4 DEF IInv, ResultInv
    <2>6. \A i \in revoked : result'[i] \in {"none", "canceled"} BY <2>1, <2>2, <2>4 DEF IInv, ResultInv
    <2>7. \A i \in Jobs : result'[i] = "ok" => i \in Members(wire) BY <2>2, <2>3 DEF IInv, ResultInv
    <2>8. QED BY <1>1, <1>4, <2>5, <2>6, <2>7 DEF IInv, ResultInv
  <1>11. QED BY <1>5, <1>6, <1>7, <1>8, <1>9, <1>10 DEF IInv

\* After nextProcess() the invariant holds again.
LEMMA Processed ==
  ASSUME IInv, UNCHANGED <<asked, cancelable, aborted, settled, child, revoked, linkVars, wire>>,
         todo' = todo \/ (todo # <<>> /\ todo' = Tail(todo)),
         EventsDone, QueueDone(Pending' \cup Fresh')
  PROVE  IInv'
  <1>1. Fresh' = Fresh BY FreshSame
  <1>2. /\ Pending' \subseteq Pending /\ todo' \in Seq([kind : {"enqueue", "cancel"}, job : Jobs])
        /\ \A i, k \in 1..Len(todo') :
              /\ todo'[i].kind = todo'[k].kind
              /\ todo'[i].job = todo'[k].job => i = k
        /\ \A i \in 1..Len(todo') : \E k \in 1..Len(todo) : todo'[i] = todo[k]
    <2>1. CASE todo' = todo BY <2>1, PendingSame DEF IInv, TypeOK, OrderInv
    <2>2. CASE todo # <<>> /\ todo' = Tail(todo) BY <2>2, PendingTail DEF IInv
    <2>3. QED BY <2>1, <2>2
  <1>3. /\ Pending' \subseteq Jobs /\ Fresh' \subseteq Jobs /\ Members(wire) \subseteq Jobs
        /\ NoJob \notin Pending' \cup Fresh' \cup Members(wire)
    BY <1>1, <1>2, SetFacts DEF IInv
  <1>4. TypeOK'
    <2>1. /\ queue' \in Seq(Jobs) /\ current' \in Jobs \cup {NoJob}
          /\ phase' \in {"idle", "uploadPosted", "sendPosted", "finishing"}
          /\ outcome' \in Outcomes /\ result' \in [Jobs -> Outcomes] /\ tasks' \subseteq Ids
          /\ events' \in Seq(Events)
      BY DEF QueueDone, EventsDone, EventsOK, Outcomes
    <2>2. QED BY <1>2, <2>1 DEF IInv, TypeOK, linkVars
  <1>5. PhaseInv' BY DEF QueueDone, PhaseInv
  <1>6. EventInv' BY DEF EventsDone, EventInv
  <1>7. TasksExact' BY DEF QueueDone, TasksExact
  <1>8. NoLostWakeup' BY DEF EventsDone, NoLostWakeup, Wakes, linkVars
  <1>9. OrderInv'
    <2>1. /\ \A i, k \in 1..Len(queue') : queue'[i] = queue'[k] => i = k
          /\ current' \notin Members(queue') \cup Pending' \cup Fresh' \cup Members(wire)
          /\ Members(queue') \cap (Pending' \cup Fresh' \cup Members(wire)) = {}
      BY DEF QueueDone
    <2>2. /\ (Fresh \cup Pending) \cap Members(wire) = {} /\ Fresh \cap Pending = {}
      BY DEF IInv, OrderInv
    <2>3. QED BY <1>1, <1>2, <2>1, <2>2 DEF OrderInv
  <1>10. CancelInv'
    <2>1. phase' = "sendPosted" => current' \notin Uploads BY DEF QueueDone
    <2>2. QED BY <1>1, <1>2, <2>1 DEF IInv, CancelInv
  <1>11. ResultInv'
    <2>1. /\ \A j \in Pending' \cup Fresh' \cup Members(queue') \cup ({current'} \ {NoJob}) : result'[j] = "none"
          /\ \A j \in revoked : result'[j] \in {"none", "canceled"}
          /\ \A j \in Jobs : result'[j] = "ok" => j \in Members(wire)
          /\ phase' \in {"idle", "uploadPosted", "sendPosted", "finishing"}
          /\ outcome' \in {"none", "error"}
      BY DEF QueueDone
    <2>2. QED BY <2>1 DEF ResultInv
  <1>12. QED BY <1>4, <1>5, <1>6, <1>7, <1>8, <1>9, <1>10, <1>11 DEF IInv

\* What the invariant says of the queue when nothing is processed.
LEMMA IdleCallable ==
  ASSUME IInv, current = NoJob, NEW ev, Unchained(ev)
  PROVE  CallOK(queue, ev, result, tasks, Pending \cup Fresh)
  <1>1. Keys(Members(queue) \cup {current}) = Keys(Members(queue))
    BY SendAssumption DEF Keys
  <1>2. tasks = Keys(Members(queue)) BY <1>1 DEF IInv, TasksExact
  <1>3. /\ queue \in Seq(Jobs) /\ result \in [Jobs -> Outcomes] /\ tasks \subseteq Ids BY DEF IInv, TypeOK
  <1>4. /\ \A i, k \in 1..Len(queue) : queue[i] = queue[k] => i = k
        /\ Members(queue) \cap (Pending \cup Fresh \cup Members(wire)) = {}
    BY DEF IInv, OrderInv
  <1>5. /\ \A j \in Pending \cup Fresh \cup Members(queue) : result[j] = "none"
        /\ \A j \in revoked : result[j] \in {"none", "canceled"}
        /\ \A j \in Jobs : result[j] = "ok" => j \in Members(wire)
    BY DEF IInv, ResultInv
  <1>6. \A i, k \in 1..Len(queue) : i # k => Keys({queue[i]}) \cap Keys({queue[k]}) = {}
    BY DEF IInv, TasksExact
  <1>7. QED BY <1>2, <1>3, <1>4, <1>5, <1>6 DEF CallOK

\* The queue is asked to go on.
LEMMA HandleNextInv ==
  ASSUME IInv, HandleNext
  PROVE  IInv'
  <1>1. /\ events # <<>> /\ events[1].kind \in {"connected", "next"}
        /\ UNCHANGED <<userVars, child, revoked, linkVars, wire>>
    BY DEF HandleNext, Handling
  <1>2. EventsOK(Tail(events), phase, revoked) BY <1>1, EventsTail DEF IInv, EventInv
  <1>3. CASE current # NoJob
    <2>1. events' = Tail(events) /\ UNCHANGED queueVars BY <1>3 DEF HandleNext
    <2>2. /\ Pending' = Pending /\ Fresh' = Fresh BY <1>1, PendingSame, FreshSame DEF userVars
    <2>3. TypeOK' BY <1>1, <1>2, <2>1 DEF IInv, TypeOK, EventsOK, userVars, queueVars, linkVars
    <2>4. PhaseInv' /\ EventInv' /\ TasksExact' /\ NoLostWakeup'
      BY <1>1, <1>2, <1>3, <2>1 DEF IInv, PhaseInv, EventInv, TasksExact, NoLostWakeup, queueVars
    <2>5. OrderInv' /\ CancelInv' /\ ResultInv'
      BY <1>1, <2>1, <2>2 DEF IInv, OrderInv, CancelInv, ResultInv, userVars, queueVars
    <2>6. QED BY <2>3, <2>4, <2>5 DEF IInv
  <1>4. CASE current = NoJob
    <2>1. NextProcess(queue, Tail(events), result, tasks) BY <1>4 DEF HandleNext
    <2>2. Unchained(Tail(events))
      <3>1. phase = "idle" BY <1>4 DEF IInv, PhaseInv
      <3>2. Quiet(Tail(events)) BY <1>2, <3>1, EventsQuiet
      <3>3. QED BY <1>2, <3>2 DEF EventsOK, Unchained
    <2>3. CallOK(queue, Tail(events), result, tasks, Pending \cup Fresh) BY <1>4, <2>2, IdleCallable
    <2>4. /\ CancelInv /\ revoked \subseteq Jobs /\ wire \in Seq(Jobs) /\ connected \in BOOLEAN
          /\ Pending \cup Fresh \subseteq Jobs
      BY SetFacts DEF IInv, TypeOK
    <2>5. EventsDone /\ QueueDone(Pending \cup Fresh) BY <2>1, <2>3, <2>4, NextProcessDone
    <2>6. Pending' = Pending /\ Fresh' = Fresh BY <1>1, PendingSame, FreshSame DEF userVars
    <2>7. EventsDone /\ QueueDone(Pending' \cup Fresh') BY <2>5, <2>6
    <2>8. QED BY <1>1, <2>7, Processed DEF userVars
  <1>5. QED BY <1>3, <1>4

\* An entry finishes and the queue goes on.
LEMMA HandleFinishedInv ==
  ASSUME IInv, HandleFinished
  PROVE  IInv'
  <1> DEFINE ev == Tail(events) \o Settle(current)
             res == [result EXCEPT ![current] = Reported(current)]
             tk == tasks \ Keys({current})
  <1>1. /\ events # <<>> /\ events[1].kind = "finished"
        /\ NextProcess(queue, ev, res, tk)
        /\ UNCHANGED <<userVars, child, revoked, linkVars, wire>>
    BY DEF HandleFinished, Handling
  <1>2. EventsOK(Tail(events), phase, revoked) /\ Quiet(Tail(events)) /\ phase = "finishing"
    BY <1>1, EventsTail DEF IInv, EventInv, Chain, Expected
  <1>3. current \in Jobs BY <1>2 DEF IInv, PhaseInv, TypeOK
  <1>4. Unchained(ev)
    <2>1. Unchained(Tail(events)) BY <1>2 DEF EventsOK, Unchained
    <2>2. QED BY <1>3, <2>1, SettleFacts, UnchainedConcat
  <1>5. CallOK(queue, ev, res, tk, Pending \cup Fresh)
    <2>1. /\ queue \in Seq(Jobs) /\ tk \subseteq Ids BY DEF IInv, TypeOK
    <2>2. /\ \A i, k \in 1..Len(queue) : queue[i] = queue[k] => i = k
          /\ Members(queue) \cap (Pending \cup Fresh \cup Members(wire)) = {}
          /\ current \notin Pending \cup Fresh \cup Members(queue)
      BY DEF IInv, OrderInv
    <2>3. /\ tk = Keys(Members(queue))
          /\ \A i, k \in 1..Len(queue) : i # k => Keys({queue[i]}) \cap Keys({queue[k]}) = {}
      <3>1. tasks = Keys(Members(queue) \cup {current}) /\ Keys({current}) \cap Keys(Members(queue)) = {}
        BY DEF IInv, TasksExact
      <3>2. Keys(Members(queue) \cup {current}) = Keys(Members(queue)) \cup Keys({current}) BY DEF Keys
      <3>3. \A i, k \in 1..Len(queue) : i # k => Keys({queue[i]}) \cap Keys({queue[k]}) = {}
        BY DEF IInv, TasksExact
      <3>4. QED BY <3>1, <3>2, <3>3
    <2>4. /\ Reported(current) \in Outcomes
          /\ current \in revoked => Reported(current) = "canceled"
          /\ Reported(current) = "ok" => current \in Members(wire)
      BY <1>2 DEF IInv, TypeOK, Outcomes, Reported, ResultInv
    <2>5. /\ res \in [Jobs -> Outcomes] /\ res[current] = Reported(current)
          /\ \A j \in Jobs \ {current} : res[j] = result[j]
      BY <1>3, <2>4 DEF IInv, TypeOK
    <2>6. Pending \cup Fresh \cup Members(queue) \cup revoked \subseteq Jobs BY SetFacts DEF IInv, TypeOK
    <2> HIDE DEF res
    <2>7. /\ \A j \in Pending \cup Fresh \cup Members(queue) : res[j] = "none"
          /\ \A j \in revoked : res[j] \in {"none", "canceled"}
          /\ \A j \in Jobs : res[j] = "ok" => j \in Members(wire)
      BY <2>2, <2>4, <2>5, <2>6 DEF IInv, ResultInv
    <2>8. QED BY <1>4, <2>1, <2>2, <2>3, <2>5, <2>7 DEF CallOK
  <1> HIDE DEF ev, res, tk
  <1>6. /\ CancelInv /\ revoked \subseteq Jobs /\ wire \in Seq(Jobs) /\ connected \in BOOLEAN
        /\ Pending \cup Fresh \subseteq Jobs
    BY SetFacts DEF IInv, TypeOK
  <1>7. EventsDone /\ QueueDone(Pending \cup Fresh) BY <1>1, <1>5, <1>6, NextProcessDone
  <1>8. Pending' = Pending /\ Fresh' = Fresh BY <1>1, PendingSame, FreshSame DEF userVars
  <1>9. EventsDone /\ QueueDone(Pending' \cup Fresh') BY <1>7, <1>8
  <1>10. QED BY <1>1, <1>9, Processed DEF userVars

\* A message is added to the queue.
LEMMA EnqueueInv ==
  ASSUME IInv, Enqueue
  PROVE  IInv'
  <1> DEFINE j == todo[1].job
             q == Append(queue, j)
             tk == tasks \cup Keys({j})
             apart == Pending' \cup Fresh'
  <1>1. /\ todo # <<>> /\ todo[1].kind = "enqueue" /\ todo' = Tail(todo) /\ Keys({j}) \cap tasks = {}
        /\ UNCHANGED <<asked, cancelable, aborted, settled, child, revoked, linkVars, wire>>
    BY DEF Enqueue, Doing
  <1>2. IF current # NoJob
        THEN queue' = q /\ tasks' = tk /\ UNCHANGED <<current, phase, outcome, result, events>>
        ELSE NextProcess(q, events, result, tk)
    BY DEF Enqueue
  <1>3. /\ Pending' \subseteq Pending /\ j \in Jobs /\ j \notin Pending' /\ j \in Pending
        /\ todo' \in Seq([kind : {"enqueue", "cancel"}, job : Jobs])
        /\ \A i, k \in 1..Len(todo') :
             /\ todo'[i].kind = todo'[k].kind
             /\ todo'[i].job = todo'[k].job => i = k
        /\ \A i \in 1..Len(todo') : \E k \in 1..Len(todo) : todo'[i] = todo[k]
    BY <1>1, PendingTail DEF IInv
  <1>4. Fresh' = Fresh BY <1>1, FreshSame
  <1> HIDE DEF j
  <1>5. /\ queue \in Seq(Jobs) /\ Len(queue) \in Nat /\ q \in Seq(Jobs) /\ Len(q) = Len(queue) + 1
        /\ \A i \in 1..Len(queue) : q[i] = queue[i] /\ queue[i] \in Members(queue)
        /\ q[Len(queue) + 1] = j /\ Members(q) = Members(queue) \cup {j}
    BY <1>3, AppendFacts DEF IInv, TypeOK, Members
  <1>6. \A i \in 1..Len(q) : i \in 1..Len(queue) \/ i = Len(queue) + 1 BY <1>5
  <1>7. /\ j \notin Members(queue) /\ j # current /\ j \notin Members(wire) /\ j \notin apart
        /\ j \notin revoked /\ result[j] = "none" /\ j # NoJob
    BY <1>3, <1>4, SendAssumption DEF IInv, OrderInv, CancelInv, ResultInv
  <1>8. /\ tasks = Keys(Members(queue) \cup {current}) /\ Keys({current}) \cap Keys(Members(queue)) = {}
        /\ \A i, k \in 1..Len(queue) : i # k => Keys({queue[i]}) \cap Keys({queue[k]}) = {}
    BY DEF IInv, TasksExact
  <1>9. \A i \in 1..Len(queue) : Keys({queue[i]}) \subseteq tasks
    BY <1>5, <1>8 DEF Keys
  <1>10. \A i, k \in 1..Len(q) : i # k => Keys({q[i]}) \cap Keys({q[k]}) = {}
    <2>1. SUFFICES ASSUME NEW i \in 1..Len(q), NEW k \in 1..Len(q), i # k
                   PROVE  Keys({q[i]}) \cap Keys({q[k]}) = {}
      OBVIOUS
    <2> HIDE DEF q
    <2>2. CASE i \in 1..Len(queue) /\ k \in 1..Len(queue) BY <1>5, <1>8, <2>1, <2>2
    <2>3. CASE i \in 1..Len(queue) /\ k = Len(queue) + 1 BY <1>1, <1>5, <1>9, <2>3
    <2>4. CASE i = Len(queue) + 1 /\ k \in 1..Len(queue) BY <1>1, <1>5, <1>9, <2>4
    <2>5. QED BY <1>6, <2>1, <2>2, <2>3, <2>4
  <1>11. \A i, k \in 1..Len(q) : q[i] = q[k] => i = k
    <2>1. SUFFICES ASSUME NEW i \in 1..Len(q), NEW k \in 1..Len(q), q[i] = q[k] PROVE i = k OBVIOUS
    <2> HIDE DEF q
    <2>2. CASE i \in 1..Len(queue) /\ k \in 1..Len(queue) BY <1>5, <2>1, <2>2 DEF IInv, OrderInv
    <2>3. CASE i \in 1..Len(queue) /\ k = Len(queue) + 1 BY <1>5, <1>7, <2>1, <2>3
    <2>4. CASE i = Len(queue) + 1 /\ k \in 1..Len(queue) BY <1>5, <1>7, <2>1, <2>4
    <2>5. QED BY <1>6, <2>1, <2>2, <2>3, <2>4
  <1>12. /\ tk \subseteq Ids /\ tk = Keys(Members(q) \cup {current})
    <2>1. Keys({j}) \subseteq Ids BY DEF Keys, Ids
    <2>2. Keys(Members(q) \cup {current}) = Keys(Members(queue) \cup {current}) \cup Keys({j})
      BY <1>5 DEF Keys
    <2>3. QED BY <1>8, <2>1, <2>2 DEF IInv, TypeOK
  <1>13. /\ Members(q) \cap (apart \cup Members(wire)) = {}
         /\ \A i \in apart \cup Members(q) : result[i] = "none"
    BY <1>3, <1>4, <1>5, <1>7 DEF IInv, OrderInv, ResultInv
  <1> HIDE DEF q
  <1>14. CASE current # NoJob
    <2>1. queue' = q /\ tasks' = tk /\ UNCHANGED <<current, phase, outcome, result, events>>
      BY <1>2, <1>14
    <2>2. TypeOK' BY <1>1, <1>3, <1>5, <1>12, <2>1 DEF IInv, TypeOK, linkVars
    <2>3. PhaseInv' /\ EventInv' BY <1>1, <2>1 DEF IInv, PhaseInv, EventInv
    <2>4. NoLostWakeup' BY <1>14, <2>1 DEF NoLostWakeup
    <2>5. TasksExact'
      <3>1. Keys({current}) \cap Keys(Members(q)) = {}
        <4>1. Keys(Members(q)) = Keys(Members(queue)) \cup Keys({j}) BY <1>5 DEF Keys
        <4>2. Keys({current}) \subseteq tasks BY <1>8 DEF Keys
        <4>3. QED BY <1>1, <1>8, <4>1, <4>2
      <3>2. QED BY <1>10, <1>12, <2>1, <3>1 DEF TasksExact
    <2>6. OrderInv'
      <3>1. current \notin Members(q) /\ (Fresh \cup Pending) \cap (Members(wire) \cup {current}) = {}
            /\ Fresh \cap Pending = {}
        BY <1>5, <1>7 DEF IInv, OrderInv
      <3>2. phase \in Sending => current \notin Members(wire) BY DEF IInv, OrderInv
      <3>3. QED BY <1>1, <1>3, <1>4, <1>5, <1>11, <1>13, <2>1, <3>1, <3>2 DEF OrderInv
    <2>7. CancelInv' BY <1>1, <1>3, <1>4, <2>1 DEF IInv, CancelInv
    <2>8. ResultInv' BY <1>1, <1>3, <1>4, <1>13, <2>1 DEF IInv, ResultInv
    <2>9. QED BY <2>2, <2>3, <2>4, <2>5, <2>6, <2>7, <2>8 DEF IInv
  <1>15. CASE current = NoJob
    <2>1. NextProcess(q, events, result, tk) BY <1>2, <1>15
    <2>2. Unchained(events)
      <3>1. phase = "idle" BY <1>15 DEF IInv, PhaseInv
      <3>2. EventsOK(events, phase, revoked) BY DEF IInv, EventInv
      <3>3. Quiet(events) BY <3>1, <3>2, EventsQuiet
      <3>4. QED BY <3>2, <3>3 DEF EventsOK, Unchained
    <2>3. tk = Keys(Members(q))
      <3>1. Keys(Members(q) \cup {current}) = Keys(Members(q)) BY <1>15, SendAssumption DEF Keys
      <3>2. QED BY <1>12, <3>1
    <2>4. result \in [Jobs -> Outcomes] /\ (\A i \in revoked : result[i] \in {"none", "canceled"})
          /\ (\A i \in Jobs : result[i] = "ok" => i \in Members(wire))
      BY DEF IInv, TypeOK, ResultInv
    <2> HIDE DEF tk, apart
    <2>5. CallOK(q, events, result, tk, apart)
      BY <1>5, <1>10, <1>11, <1>12, <1>13, <2>2, <2>3, <2>4 DEF CallOK
    <2>6. /\ CancelInv /\ revoked \subseteq Jobs /\ wire \in Seq(Jobs) /\ connected \in BOOLEAN
          /\ apart \subseteq Jobs
      BY <1>3, <1>4, SetFacts DEF IInv, TypeOK, apart
    <2>7. EventsDone /\ QueueDone(apart) BY <2>1, <2>5, <2>6, NextProcessDone
    <2>8. QED BY <1>1, <2>7, Processed DEF apart
  <1>16. QED BY <1>14, <1>15

\* Every step preserves the invariant.
LEMMA NextInv == IInv /\ [Next]_vars => IInv'
  <1> SUFFICES ASSUME IInv, [Next]_vars PROVE IInv' OBVIOUS
  <1>1. CASE UNCHANGED vars
    <2>1. /\ Pending' = Pending /\ Fresh' = Fresh
      BY <1>1, PendingSame, FreshSame DEF vars, userVars
    <2>2. TypeOK' /\ PhaseInv' /\ EventInv' /\ TasksExact' /\ NoLostWakeup'
      BY <1>1 DEF IInv, vars, userVars, queueVars, linkVars, TypeOK, PhaseInv, EventInv, TasksExact,
                  NoLostWakeup
    <2>3. OrderInv' /\ CancelInv' /\ ResultInv'
      BY <1>1, <2>1 DEF IInv, vars, userVars, queueVars, linkVars, OrderInv, CancelInv, ResultInv
    <2>4. QED BY <2>2, <2>3 DEF IInv
  <1>2. CASE User BY <1>2, AskInv, CancelBatchInv DEF User
  <1>3. CASE \E j \in Uploads : CancelUpload(j) BY <1>3, CancelSteps
  <1>4. CASE Gui
    BY <1>4, RefuseInv, EnqueueInv, CancelSteps, HandleNextInv, Continuations, HandleFinishedInv,
       OtherEvents DEF Gui
  <1>5. CASE Xmpp \/ Disconnect BY <1>5, XmppSteps
  <1>6. CASE Connect BY <1>6, OtherEvents
  <1>7. QED BY <1>1, <1>2, <1>3, <1>4, <1>5, <1>6 DEF Next

\* The strengthened invariant holds in every state the queue can reach.
THEOREM SendInductive == Spec => []IInv
  BY InitInv, NextInv, PTL DEF Spec

\* Every variable keeps its type: among others, a posted continuation always
\* names a message.
THEOREM SendTypeCorrect == Spec => []TypeOK
  <1>1. IInv => TypeOK BY DEF IInv
  <1>2. QED BY <1>1, SendInductive, PTL

\* nextProcess() never leaves an entry waiting that it could start, for any
\* number of messages, cancellations and lost connections.
THEOREM NeverSleepsOnWork == Spec => []NoLostWakeup
  <1>1. IInv => NoLostWakeup BY DEF IInv
  <1>2. QED BY <1>1, SendInductive, PTL

\* m_uploadTasks holds exactly the uploads that are queued or being processed.
THEOREM TasksAlwaysExact == Spec => []TasksExact
  <1>1. IInv => TasksExact BY DEF IInv
  <1>2. QED BY <1>1, SendInductive, PTL

\* A reported success was sent, and a canceled upload is reported as canceled.
THEOREM ResultsAlwaysTruthful == Spec => []ResultsTruthful
  <1>1. IInv => ResultsTruthful BY DEF IInv, CancelInv, ResultInv, ResultsTruthful
  <1>2. QED BY <1>1, SendInductive, PTL

\* The bookkeeping of the queue is right for any number of messages, attachments,
\* requests, cancellations and lost connections, also when an attachment that was
\* canceled is sent again.
THEOREM QueueAlwaysSound == Spec => []QueueSound
  <1>1. TypeOK /\ NoLostWakeup /\ TasksExact /\ ResultsTruthful => QueueSound BY DEF QueueSound
  <1>2. QED BY <1>1, SendTypeCorrect, NeverSleepsOnWork, TasksAlwaysExact, ResultsAlwaysTruthful, PTL

-----------------------------------------------------------------------------
(* The queue implements Outbox                                             *)

Gone == {j \in Jobs : child[j] = "canceled"}

\* Steps of the outbox, in terms of what it sees of the queue.
LEMMA Stutters ==
  ASSUME Waiting' = Waiting, wire' = wire, Gone' = Gone
  PROVE  [Box!Next]_(Box!vars)
  BY DEF Box!vars, Gone

LEMMA Drops ==
  ASSUME NEW n \in 0..Len(Waiting), Waiting' = Rest(Waiting, n), wire' = wire, Gone' = Gone
  PROVE  [Box!Next]_(Box!vars)
  BY DEF Box!Drop, Box!Next, Box!From, Rest, Gone

\* What waits, in each kind of phase.
LEMMA WaitingIs ==
  ASSUME TypeOK
  PROVE  /\ phase \notin Sending => Waiting = queue
         /\ phase \in Sending => Waiting = <<current>> \o queue
         /\ queue \in Seq(Jobs)
  BY DEF TypeOK, Waiting, Sending

LEMMA DropCurrent ==
  ASSUME TypeOK, NEW q \in Seq(Jobs), NEW j \in Jobs
  PROVE  /\ Rest(<<j>> \o q, 1) = q /\ 1 \in 0..Len(<<j>> \o q)
         /\ (<<j>> \o q)[1] = j /\ <<j>> \o q # <<>>
  BY DEF Rest

LEMMA WholeRest ==
  ASSUME NEW q \in Seq(Jobs)
  PROVE  /\ Rest(q, 0) = q /\ Len(q) \in Nat
         /\ \A n \in 0..Len(q) : Rest(q, n) # <<>> =>
              /\ <<Rest(q, n)[1]>> \o Tail(Rest(q, n)) = Rest(q, n)
              /\ Tail(Rest(q, n)) = Rest(q, n + 1) /\ n + 1 \in 0..Len(q)
  BY DEF Rest

\* nextProcess() only takes entries from the front.
LEMMA NextProcessWaiting ==
  ASSUME NEW q \in Seq(Jobs), NEW ev, NEW res, NEW tk, NextProcess(q, ev, res, tk)
  PROVE  \E n \in 0..Len(q) : Waiting' = Rest(q, n)
  <1>1. PICK n \in 0..Len(q) :
          /\ Skips(q, n)
          /\ IF Rest(q, n) # <<>> /\ connected
             THEN /\ queue' = Tail(Rest(q, n))
                  /\ Started(Rest(q, n)[1], ev \o SettleFront(q, n), Voided(q, n, res), tk \ Keys(Front(q, n)))
             ELSE Asleep(Rest(q, n), ev \o SettleFront(q, n), Voided(q, n, res), tk \ Keys(Front(q, n)))
    BY DEF NextProcess
  <1> DEFINE rest == Rest(q, n)
  <1>2. rest \in Seq(Jobs) BY RestFacts
  <1>3. CASE rest # <<>> /\ connected
    <2>1. /\ queue' = Tail(rest) /\ <<rest[1]>> \o Tail(rest) = rest
          /\ Tail(rest) = Rest(q, n + 1) /\ n + 1 \in 0..Len(q)
      BY <1>1, <1>3, WholeRest
    <2>2. \/ current' = rest[1] /\ phase' \in {"uploadPosted", "sendPosted"}
          \/ phase' \in {"finishing", "idle"}
      BY <1>1, <1>3 DEF Started
    <2> HIDE DEF rest
    <2>3. CASE current' = rest[1] /\ phase' \in {"uploadPosted", "sendPosted"}
      <3>1. Waiting' = <<rest[1]>> \o Tail(rest) BY <2>1, <2>3 DEF Waiting
      <3>2. QED BY <2>1, <3>1 DEF rest
    <2>4. CASE phase' \in {"finishing", "idle"}
      <3>1. Tail(rest) \in Seq(Jobs) BY <1>2, <1>3, TailFacts
      <3>2. Waiting' = <<>> \o Tail(rest) BY <2>1, <2>4 DEF Waiting
      <3>3. Waiting' = Tail(rest) BY <3>1, <3>2
      <3>4. QED BY <2>1, <3>3
    <2>5. QED BY <2>2, <2>3, <2>4
  <1>4. CASE rest = <<>> \/ ~connected
    <2>1. queue' = rest /\ phase' = "idle" BY <1>1, <1>4 DEF Asleep
    <2> HIDE DEF rest
    <2>2. Waiting' = rest BY <1>2, <2>1 DEF Waiting
    <2>3. QED BY <2>2 DEF rest
  <1>5. QED BY <1>3, <1>4

\* A message is accepted at the end.
LEMMA EnqueueRefines ==
  ASSUME IInv, Enqueue
  PROVE  [Box!Next]_(Box!vars)
  <1> DEFINE j == todo[1].job
             q == Append(queue, j)
  <1>1. /\ todo # <<>> /\ todo[1].kind = "enqueue" /\ todo' = Tail(todo)
        /\ UNCHANGED <<child, wire>>
    BY DEF Enqueue, Doing
  <1>2. j \in Jobs /\ j \in Pending BY <1>1, PendingTail DEF IInv
  <1> HIDE DEF j
  <1>3. j \notin Members(queue) \cup {current} \cup Members(wire)
    BY <1>2 DEF IInv, OrderInv
  <1>4. Gone' = Gone BY <1>1 DEF Gone
  <1>5. queue \in Seq(Jobs) /\ q \in Seq(Jobs) BY <1>2 DEF IInv, TypeOK
  <1>6. /\ Waiting \in Seq(Jobs) /\ Members(Waiting) \subseteq {current} \cup Members(queue)
    <2>1. CASE phase \in Sending
      <3>1. current \in Jobs /\ <<current>> \in Seq(Jobs) BY <2>1 DEF IInv, PhaseInv, TypeOK, Sending
      <3>2. Waiting = <<current>> \o queue BY <2>1, WaitingIs DEF IInv
      <3>3. Members(<<current>>) = {current} BY DEF Members
      <3>4. QED BY <1>5, <3>1, <3>2, <3>3, ConcatFacts
    <2>2. CASE phase \notin Sending BY <1>5, <2>2, WaitingIs DEF IInv
    <2>3. QED BY <2>1, <2>2
  <1>7. ASSUME NEW n \in 0..(Len(Waiting) + 1), Waiting' = Rest(Append(Waiting, j), n)
        PROVE  [Box!Next]_(Box!vars)
    <2>1. j \notin Box!Members(Waiting) \cup Box!Members(wire)
      BY <1>3, <1>6 DEF Box!Members, Members
    <2>2. Box!Accept(j) BY <1>1, <1>4, <1>7, <2>1 DEF Box!Accept, Box!From, Rest, Gone
    <2>3. QED BY <1>2, <2>2 DEF Box!Next
  <1>8. CASE current # NoJob
    <2>1. queue' = q /\ UNCHANGED <<current, phase>> BY <1>8 DEF Enqueue, j
    <2>2. Append(Waiting, j) \in Seq(Jobs) /\ Len(Waiting) \in Nat BY <1>2, <1>6
    <2>3. Waiting' = Append(Waiting, j)
      <3>1. CASE phase \in Sending
        <4>1. Waiting = <<current>> \o queue BY <3>1, WaitingIs DEF IInv
        <4>2. Waiting' = <<current>> \o q BY <2>1, <3>1 DEF Waiting, Sending
        <4>3. current \in Jobs BY <1>8 DEF IInv, TypeOK
        <4> HIDE DEF Sending
        <4>4. QED BY <1>2, <1>5, <4>1, <4>2, <4>3
      <3>2. CASE phase \notin Sending
        <4>1. Waiting = queue BY <3>2, WaitingIs DEF IInv
        <4>2. Waiting' = <<>> \o q BY <2>1, <3>2 DEF Waiting, Sending
        <4>3. QED BY <1>5, <4>1, <4>2
      <3>3. QED BY <3>1, <3>2
    <2>4. Waiting' = Rest(Append(Waiting, j), 0) BY <2>2, <2>3, WholeRest
    <2>5. QED BY <1>7, <2>2, <2>4
  <1>9. CASE current = NoJob
    <2>1. PICK n \in 0..Len(q) : Waiting' = Rest(q, n)
      <3>1. NextProcess(q, events, result, tasks \cup Keys({j})) BY <1>9 DEF Enqueue, j
      <3>2. QED BY <1>5, <3>1, NextProcessWaiting
    <2>2. Waiting = queue BY <1>9, WaitingIs DEF IInv, PhaseInv, Sending
    <2>3. Len(q) = Len(Waiting) + 1 BY <1>2, <1>5, <2>2
    <2>4. QED BY <1>7, <2>1, <2>2, <2>3
  <1>10. QED BY <1>8, <1>9

\* nextProcess() and the end of an entry drop from the front.
LEMMA ProcessRefines ==
  ASSUME IInv, HandleNext \/ HandleFinished
  PROVE  [Box!Next]_(Box!vars)
  <1>1. UNCHANGED <<child, wire>> BY DEF HandleNext, HandleFinished
  <1>2. Gone' = Gone BY <1>1 DEF Gone
  <1>3. CASE HandleNext /\ current # NoJob
    <2>1. Waiting' = Waiting BY <1>3 DEF HandleNext, queueVars, Waiting
    <2>2. QED BY <1>1, <1>2, <2>1, Stutters
  <1>4. CASE (HandleNext /\ current = NoJob) \/ HandleFinished
    <2>1. phase \notin Sending
      <3>1. CASE HandleFinished
        <4>1. phase = "finishing"
          BY <3>1, EventsTail DEF HandleFinished, Handling, IInv, EventInv, Chain, Expected
        <4>2. QED BY <4>1 DEF Sending
      <3>2. CASE current = NoJob BY <3>2 DEF IInv, PhaseInv, Sending
      <3>3. QED BY <1>4, <3>1, <3>2
    <2>2. Waiting = queue /\ queue \in Seq(Jobs) BY <2>1, WaitingIs DEF IInv
    <2>3. \E n \in 0..Len(queue) : Waiting' = Rest(queue, n)
      BY <1>4, <2>2, NextProcessWaiting DEF HandleNext, HandleFinished
    <2>4. QED BY <1>1, <1>2, <2>2, <2>3, Drops
  <1>5. QED BY <1>3, <1>4

\* An upload that is canceled has not been sent.
LEMMA CancelRefines ==
  ASSUME IInv, (\E j \in Uploads : CancelUpload(j)) \/ HandleCanceled
  PROVE  [Box!Next]_(Box!vars)
  <1>1. UNCHANGED <<queue, current, phase, wire>>
    BY DEF CancelUpload, HandleCanceled, queueVars
  <1>2. Waiting' = Waiting BY <1>1 DEF Waiting
  <1>3. \/ child' = child
        \/ \E j \in Uploads : child[j] = "open" /\ child' = [child EXCEPT ![j] = "canceled"]
    <2>1. ASSUME NEW j \in Uploads, CancelUpload(j) PROVE child[j] = "open" /\ child' = [child EXCEPT ![j] = "canceled"]
      BY <2>1 DEF CancelUpload, CancelChild
    <2>2. ASSUME HandleCanceled
          PROVE  \/ child' = child
                 \/ \E j \in Uploads : child[j] = "open" /\ child' = [child EXCEPT ![j] = "canceled"]
      <3>1. events # <<>> /\ events[1].kind = "canceled" BY <2>2 DEF HandleCanceled, Handling
      <3>2. events[1].job \in Uploads BY <3>1, EventsTail DEF IInv, EventInv
      <3>3. QED BY <2>2, <3>2 DEF HandleCanceled, CancelChild
    <2>3. QED BY <2>1, <2>2
  <1>4. CASE child' = child
    <2>1. Gone' = Gone BY <1>4 DEF Gone
    <2>2. QED BY <1>1, <1>2, <2>1, Stutters
  <1>5. ASSUME NEW j \in Uploads, child[j] = "open", child' = [child EXCEPT ![j] = "canceled"]
        PROVE  [Box!Next]_(Box!vars)
    <2>1. j \in Jobs BY SendAssumption
    <2>2. Gone' = Gone \cup {j} BY <1>5, <2>1 DEF IInv, TypeOK, Gone
    <2>3. j \notin Box!Members(wire) BY <1>5 DEF IInv, CancelInv, Members, Box!Members
    <2>4. Box!Withdraw(j) BY <1>1, <1>2, <2>2, <2>3 DEF Box!Withdraw, Gone
    <2>5. QED BY <2>1, <2>4 DEF Box!Next
  <1>6. QED BY <1>3, <1>4, <1>5

\* The message that is sent is the first one in line, and it was not canceled.
LEMMA SendRefines ==
  ASSUME IInv, SendCall
  PROVE  [Box!Next]_(Box!vars)
  <1>1. phase = "sendPosted" /\ UNCHANGED <<queue, current, child>> BY DEF SendCall
  <1>2. /\ Waiting = <<current>> \o queue /\ queue \in Seq(Jobs) /\ current \in Jobs
    BY <1>1, WaitingIs DEF IInv, TypeOK, PhaseInv, Sending
  <1>3. Gone' = Gone BY <1>1 DEF Gone
  <1>4. current \notin Gone BY <1>1 DEF IInv, CancelInv, Gone
  <1>5. phase' \in {"onWire", "sent"} BY DEF SendCall, Finish
  <1>6. Waiting' = queue BY <1>1, <1>2, <1>5 DEF Waiting
  <1>7. /\ Waiting' = Rest(Waiting, 1) /\ 1 \in 0..Len(Waiting) /\ Waiting[1] = current /\ Waiting # <<>>
    BY <1>2, <1>6, DropCurrent DEF IInv
  <1>8. CASE wire' = wire BY <1>3, <1>7, <1>8, Drops
  <1>9. CASE wire' = Append(wire, current)
    <2>1. Box!Send BY <1>3, <1>4, <1>7, <1>9 DEF Box!Send, Box!From, Rest, Gone
    <2>2. QED BY <2>1 DEF Box!Next
  <1>10. QED BY <1>8, <1>9 DEF SendCall

\* The other steps of the current entry keep it in line or drop it.
LEMMA StepsRefine ==
  ASSUME IInv, HandleUploaded \/ HandleSent \/ (Xmpp /\ ~SendCall) \/ Disconnect
  PROVE  [Box!Next]_(Box!vars)
  <1>1. UNCHANGED <<queue, current, wire>>
    BY DEF HandleUploaded, HandleSent, Xmpp, UploadCall, UploadEnds, SendEnds, Disconnect, Finish
  <1>2. Gone' = Gone
    <2>1. CASE HandleUploaded
      <3>1. \/ child' = child
            \/ child[current] # "canceled" /\ child' = [child EXCEPT ![current] = "committed"]
        BY <2>1 DEF HandleUploaded
      <3>2. QED BY <3>1 DEF IInv, TypeOK, Gone
    <2>2. CASE ~HandleUploaded
      <3>1. child' = child
        BY <2>2 DEF HandleSent, Xmpp, UploadCall, UploadEnds, SendEnds, Disconnect, Finish
      <3>2. QED BY <3>1 DEF Gone
    <2>3. QED BY <2>1, <2>2
  <1>3. \/ phase \in Sending /\ phase' \in Sending
        \/ phase \notin Sending /\ phase' \notin Sending
        \/ phase = "uploaded" /\ phase' = "finishing"
    <2>1. CASE HandleUploaded
      <3>1. phase = "uploaded"
        BY <2>1, EventsTail DEF HandleUploaded, Handling, IInv, EventInv, Chain, Expected
      <3>2. phase' \in {"sendPosted", "finishing"} BY <2>1 DEF HandleUploaded
      <3>3. QED BY <3>1, <3>2 DEF Sending
    <2>2. CASE HandleSent
      <3>1. events # <<>> /\ events[1].kind = "sent" /\ EventsOK(events, phase, revoked)
        BY <2>2 DEF HandleSent, Handling, IInv, EventInv
      <3>2. Chain(events[1]) /\ Expected(events[1]) = "sent" BY <3>1 DEF Chain, Expected
      <3>3. phase = Expected(events[1]) BY <3>1, <3>2, EventsTail
      <3>4. QED BY <2>2, <3>2, <3>3 DEF HandleSent, Sending
    <2>3. CASE (Xmpp /\ ~SendCall) \/ Disconnect
      BY <2>3 DEF Xmpp, UploadCall, UploadEnds, SendEnds, Disconnect, Finish, Sending
    <2>4. QED BY <2>1, <2>2, <2>3
  <1>4. CASE (phase \in Sending) = (phase' \in Sending)
    <2>1. Waiting' = Waiting BY <1>1, <1>4 DEF Waiting, Sending
    <2>2. QED BY <1>1, <1>2, <2>1, Stutters
  <1>5. CASE phase = "uploaded" /\ phase' = "finishing"
    <2>1. /\ Waiting = <<current>> \o queue /\ queue \in Seq(Jobs) /\ current \in Jobs
      BY <1>5, WaitingIs DEF IInv, TypeOK, PhaseInv, Sending
    <2>2. Waiting' = queue BY <1>1, <1>5, <2>1 DEF Waiting
    <2>3. Waiting' = Rest(Waiting, 1) /\ 1 \in 0..Len(Waiting) BY <2>1, <2>2, DropCurrent DEF IInv
    <2>4. QED BY <1>1, <1>2, <2>3, Drops
  <1>6. QED BY <1>3, <1>4, <1>5

\* The send queue implements the outbox: in order, at most once, and never after
\* a cancellation that was confirmed.
THEOREM RefinesOutbox == Spec => ImplementsOutbox
  <1>1. Init => Box!Init
    BY DEF Init, Box!Init, Waiting
  <1>2. IInv /\ [Next]_vars => [Box!Next]_(Box!vars)
    <2> SUFFICES ASSUME IInv, [Next]_vars PROVE [Box!Next]_(Box!vars) OBVIOUS
    <2>1. CASE UNCHANGED <<queue, current, phase, child, wire>>
      <3>1. Waiting' = Waiting /\ Gone' = Gone BY <2>1 DEF Waiting, Gone
      <3>2. QED BY <2>1, <3>1, Stutters
    <2>2. CASE UNCHANGED vars \/ User \/ Refuse \/ CancelFuture \/ HandleSettled \/ HandleBatchDone \/ Connect
      <3>1. UNCHANGED <<queue, current, phase, child, wire>>
        BY <2>2 DEF vars, queueVars, User, Ask, CancelBatch, Refuse, CancelFuture, HandleSettled,
                    HandleBatchDone, Connect
      <3>2. QED BY <2>1, <3>1
    <2>3. CASE Enqueue BY <2>3, EnqueueRefines
    <2>4. CASE HandleNext \/ HandleFinished BY <2>4, ProcessRefines
    <2>5. CASE (\E j \in Uploads : CancelUpload(j)) \/ HandleCanceled BY <2>5, CancelRefines
    <2>6. CASE SendCall BY <2>6, SendRefines
    <2>7. CASE HandleUploaded \/ HandleSent \/ (Xmpp /\ ~SendCall) \/ Disconnect BY <2>7, StepsRefine
    <2>8. QED BY <2>2, <2>3, <2>4, <2>5, <2>6, <2>7 DEF Next, Gui
  <1>3. QED BY <1>1, <1>2, SendInductive, PTL DEF Spec, Box!Spec, ImplementsOutbox
=============================================================================
