--------------------------- MODULE ConnectionProofs ---------------------------
(***************************************************************************)
(* What the servers are asked for.                                         *)
(*                                                                         *)
(* Session, for any accounts and any backlog of calls.  LastCallWins is    *)
(* not inductive: a reconnection starts with parameters that were left     *)
(* behind by the connection before, so XmppInv says when there is one, and *)
(* that parameters wait only for a disconnection.  OnlineAsShown needs to  *)
(* know that there is a user whenever the check may end in a main page     *)
(* (GuiInv).                                                               *)
(*                                                                         *)
(* Conversations, with its HttpRequests, for any number of requests, retry *)
(* budgets and answers.  NotForgotten needs to know where the continuation *)
(* of a fetch is (QueueInv), and RowsAreAnswer that the rows are the last  *)
(* result the watcher has seen and the answer is the last result there is  *)
(* (WatchInv, FetchSound).                                                 *)
(***************************************************************************)
EXTENDS Session, Conversations, FiniteSetTheorems, SequenceTheorems, TLAPS

GuiTypes ==
  /\ page \in {"loading", "login", "main"}
  /\ store \in Accounts \cup {None} /\ user \in Accounts \cup {None}
  /\ check \in {"no", "refreshing", "true", "false", "done"}
  /\ logins \subseteq Accounts /\ request \in Accounts \cup {None} /\ account \in Accounts \cup {None}
CallTypes == calls \in Seq(Parameters \cup {Close})
ClientTypes ==
  /\ client \in [st : {"disconnected", "connecting", "connected", "closing"},
                 with : Parameters \cup {None}, auto : BOOLEAN]
  /\ pending \in Parameters \cup {None} /\ timer \in Parameters \cup {None}
  /\ wanted \in Parameters \cup {None} /\ overtaken \in BOOLEAN

\* Who the GUI thread works for.
GuiInv ==
  /\ check \in {"true", "refreshing"} => user # None
  /\ check # "done" => page = "loading"
  /\ logins # {} => request # None
  /\ page = "main" => account \in Accounts

\* Where parameters may wait, and which they are if the last call was not refused.
XmppInv ==
  /\ timer # None => client.st = "disconnected"
  /\ pending # None => client.st = "closing"
  /\ client.auto => client.st = "disconnected" /\ timer = None
  /\ wanted \notin Refused =>
       /\ client.st = "connecting" \/ client.st = "connected" => client.with = wanted
       /\ client.st = "closing" => pending = wanted
       /\ timer # None => timer = wanted
       /\ client.auto => client.with = wanted

Shown == page = "main" => Asked \in Parameters /\ Asked.jid = account

SessionInv == GuiTypes /\ CallTypes /\ ClientTypes /\ GuiInv /\ Shown /\ (~overtaken => XmppInv)

LEMMA SessionTypes == GuiTypes /\ CallTypes /\ ClientTypes <=> TypeOK
  BY DEF GuiTypes, CallTypes, ClientTypes, TypeOK

-----------------------------------------------------------------------------
(* What is asked for                                                       *)

\* A call that is posted is what is asked for.
LEMMA PostAsks ==
  ASSUME CallTypes, NEW c \in Parameters \cup {Close}, Post(c)
  PROVE  CallTypes' /\ Asked' = IF c = Close THEN None ELSE c
  <1>1. calls' = Append(calls, c) BY DEF Post
  <1>2. CallTypes' BY <1>1 DEF CallTypes
  <1>3. calls' # <<>> /\ calls'[Len(calls')] = c BY <1>1 DEF CallTypes
  <1>4. QED BY <1>2, <1>3 DEF Asked, Last

\* Handling the first call leaves what is asked for.
LEMMA HandleAsks ==
  ASSUME CallTypes, calls # <<>>, calls' = Tail(calls),
         wanted' = IF Head(calls) = Close THEN None ELSE Head(calls)
  PROVE  CallTypes' /\ Asked' = Asked /\ Head(calls) \in Parameters \cup {Close}
  <1>1. CallTypes' /\ Head(calls) \in Parameters \cup {Close} BY DEF CallTypes
  <1>2. CASE Len(calls) = 1
    <2>1. calls' = <<>> /\ calls[Len(calls)] = Head(calls) BY <1>2 DEF CallTypes
    <2>2. QED BY <1>1, <2>1 DEF Asked, Last
  <1>3. CASE Len(calls) # 1
    <2>1. \A n \in Nat \ {0} : n # 1 => n > 1 OBVIOUS
    <2>2. Len(calls) \in Nat \ {0} BY EmptySeq DEF CallTypes
    <2>3. Len(calls) \in Nat /\ Len(calls) > 1 BY <1>3, <2>1, <2>2
    <2>4. Len(calls') = Len(calls) - 1 /\ calls'[Len(calls) - 1] = calls[Len(calls)]
      BY <2>3 DEF CallTypes
    <2>5. calls' # <<>> BY <2>3, <2>4
    <2>6. QED BY <1>1, <2>4, <2>5 DEF Asked, Last
  <1>4. QED BY <1>2, <1>3

LEMMA SameAsks ==
  ASSUME UNCHANGED <<calls, wanted>>
  PROVE  Asked' = Asked /\ (CallTypes => CallTypes')
  BY DEF Asked, CallTypes

LEMMA CredentialsAreParameters ==
  ASSUME NEW a \in Accounts
  PROVE  Credentials(a) \in Parameters /\ Credentials(a).jid = a /\ Credentials(a) # Close
  BY ParametersAssumption DEF Credentials, Parameters

-----------------------------------------------------------------------------
(* Steps of the GUI thread                                                 *)

\* The GUI thread only posts to the other one.
LEMMA GuiLeavesXmpp ==
  ASSUME SessionInv, UNCHANGED xmpp
  PROVE  ClientTypes' /\ (~overtaken' => XmppInv') /\ wanted' = wanted
  BY DEF SessionInv, xmpp, ClientTypes, XmppInv

LEMMA CheckStep ==
  ASSUME SessionInv, CheckAuthentication \/ TokenRefreshed
  PROVE  SessionInv'
  <1>1. UNCHANGED xmpp BY DEF CheckAuthentication, TokenRefreshed
  <1>2. ClientTypes' /\ (~overtaken' => XmppInv') /\ wanted' = wanted BY <1>1, GuiLeavesXmpp
  <1>3. GuiTypes' /\ GuiInv' /\ page' # "main"
    BY DEF SessionInv, GuiTypes, GuiInv, CheckAuthentication, TokenRefreshed
  <1>4. CASE UNCHANGED calls
    BY <1>2, <1>3, <1>4, SameAsks DEF SessionInv, Shown
  <1>5. CASE Post(Credentials(user)) /\ user # None
    <2>1. user \in Accounts BY <1>5 DEF SessionInv, GuiTypes
    <2>2. CallTypes' BY <1>5, <2>1, CredentialsAreParameters, PostAsks DEF SessionInv
    <2>3. QED BY <1>2, <1>3, <2>2 DEF SessionInv, Shown
  <1>6. UNCHANGED calls \/ (Post(Credentials(user)) /\ user # None)
    BY DEF CheckAuthentication, TokenRefreshed, SessionInv, GuiInv
  <1>7. QED BY <1>4, <1>5, <1>6

LEMMA CheckedStep ==
  ASSUME SessionInv, SessionChecked
  PROVE  SessionInv'
  <1>1. UNCHANGED xmpp BY DEF SessionChecked
  <1>2. ClientTypes' /\ (~overtaken' => XmppInv') /\ wanted' = wanted BY <1>1, GuiLeavesXmpp
  <1>3. GuiTypes' /\ GuiInv' BY DEF SessionInv, GuiTypes, GuiInv, SessionChecked
  <1>4. CASE user = None
    <2>1. UNCHANGED calls /\ page' = "login"
      BY <1>4 DEF SessionChecked, SessionInv, GuiInv
    <2>2. QED BY <1>2, <1>3, <2>1, SameAsks DEF SessionInv, Shown
  <1>5. CASE user # None
    <2>1. user \in Accounts /\ Post(Credentials(user)) BY <1>5 DEF SessionChecked, SessionInv, GuiTypes
    <2>2. CallTypes' /\ Asked' = Credentials(user)
      BY <2>1, CredentialsAreParameters, PostAsks DEF SessionInv
    <2>3. page' = "main" => account' = user BY DEF SessionChecked
    <2>4. QED BY <1>2, <1>3, <2>1, <2>2, <2>3, CredentialsAreParameters DEF SessionInv, Shown
  <1>6. QED BY <1>4, <1>5

LEMMA LoginStep ==
  ASSUME SessionInv, NEW a \in Accounts, Login(a) \/ LoginFails(a)
  PROVE  SessionInv'
  <1>1. UNCHANGED xmpp /\ UNCHANGED calls /\ page' = "login" BY DEF Login, LoginFails
  <1>2. ClientTypes' /\ (~overtaken' => XmppInv') /\ wanted' = wanted BY <1>1, GuiLeavesXmpp
  <1>3. GuiTypes' /\ GuiInv'
    BY SessionAssumption DEF SessionInv, GuiTypes, GuiInv, Login, LoginFails
  <1>4. QED BY <1>1, <1>2, <1>3, SameAsks DEF SessionInv, Shown

LEMMA LoginSucceedsStep ==
  ASSUME SessionInv, NEW a \in Accounts, LoginSucceeds(a)
  PROVE  SessionInv'
  <1> DEFINE p == [jid |-> a, password |-> request]
  <1>1. UNCHANGED xmpp /\ Post(p) BY DEF LoginSucceeds
  <1>2. ClientTypes' /\ (~overtaken' => XmppInv') /\ wanted' = wanted BY <1>1, GuiLeavesXmpp
  <1>3. GuiTypes' /\ GuiInv' /\ account' = a
    BY DEF SessionInv, GuiTypes, GuiInv, LoginSucceeds
  <1>4. request \in Accounts BY DEF LoginSucceeds, SessionInv, GuiInv, GuiTypes
  <1>5. p \in Parameters /\ p.jid = a /\ p # Close BY <1>4, ParametersAssumption DEF Parameters
  <1>6. CallTypes' /\ Asked' = p BY <1>1, <1>5, PostAsks DEF SessionInv
  <1>7. QED BY <1>2, <1>3, <1>5, <1>6 DEF SessionInv, Shown

LEMMA LogoutStep ==
  ASSUME SessionInv, Logout
  PROVE  SessionInv'
  <1>1. UNCHANGED xmpp /\ page' = "login" BY DEF Logout
  <1>2. ClientTypes' /\ (~overtaken' => XmppInv') /\ wanted' = wanted BY <1>1, GuiLeavesXmpp
  <1>3. GuiTypes' /\ GuiInv' BY DEF SessionInv, GuiTypes, GuiInv, Logout
  <1>4. CallTypes'
    <2>1. Post(Close) \/ UNCHANGED calls BY DEF Logout
    <2>2. QED BY <2>1, PostAsks DEF SessionInv, CallTypes
  <1>5. QED BY <1>1, <1>2, <1>3, <1>4 DEF SessionInv, Shown

-----------------------------------------------------------------------------
(* Steps of the XMPP thread                                                *)

\* The XMPP thread only takes calls away.
LEMMA XmppLeavesGui ==
  ASSUME SessionInv, UNCHANGED gui, CallTypes', Asked' = Asked
  PROVE  GuiTypes' /\ CallTypes' /\ GuiInv' /\ Shown'
  BY DEF SessionInv, gui, GuiTypes, GuiInv, Shown

LEMMA ConnectStep ==
  ASSUME SessionInv, ConnectToServer
  PROVE  SessionInv'
  <1>1. /\ UNCHANGED gui /\ calls # <<>> /\ calls' = Tail(calls)
        /\ Head(calls) # Close /\ wanted' = Head(calls) /\ timer' = timer
    BY DEF ConnectToServer
  <1>2. CallTypes' /\ Asked' = Asked /\ Head(calls) \in Parameters
    BY <1>1, HandleAsks DEF SessionInv
  <1>3. ClientTypes'
    <2>1. overtaken' \in BOOLEAN BY DEF ConnectToServer
    <2>2. CASE client.st = "disconnected"
      <3>1. client' = [st |-> "connecting", with |-> Head(calls), auto |-> FALSE] /\ pending' = pending
        BY <2>2 DEF ConnectToServer, StartConnection
      <3>2. QED BY <1>1, <1>2, <2>1, <3>1 DEF SessionInv, ClientTypes
    <2>3. CASE client.st # "disconnected"
      BY <1>1, <1>2, <2>1, <2>3 DEF ConnectToServer, Disconnect, SessionInv, ClientTypes
    <2>4. QED BY <2>2, <2>3
  <1>4. ASSUME ~overtaken' PROVE XmppInv'
    <2>1. ~overtaken /\ timer = None BY <1>4 DEF ConnectToServer
    <2>2. XmppInv BY <2>1 DEF SessionInv
    <2>3. CASE client.st = "disconnected"
      <3>1. client' = [st |-> "connecting", with |-> wanted', auto |-> FALSE] /\ pending' = pending
        BY <2>3, <1>1 DEF ConnectToServer, StartConnection
      <3>2. QED BY <1>1, <2>1, <2>2, <2>3, <3>1 DEF XmppInv
    <2>4. CASE client.st # "disconnected"
      <3>1. client' = [client EXCEPT !.st = "closing", !.auto = FALSE] /\ pending' = wanted'
        BY <2>4, <1>1 DEF ConnectToServer, Disconnect
      <3>2. client'.st = "closing" /\ client'.auto = FALSE
        BY <3>1 DEF SessionInv, ClientTypes
      <3>3. QED BY <1>1, <2>1, <3>1, <3>2 DEF XmppInv
    <2>5. QED BY <2>3, <2>4
  <1>5. QED BY <1>1, <1>2, <1>3, <1>4, XmppLeavesGui DEF SessionInv

\* A call that is refused touches nothing, and says nothing of the client.
LEMMA RefuseStep ==
  ASSUME SessionInv, RefuseConnection
  PROVE  SessionInv'
  <1>1. /\ UNCHANGED <<gui, client, pending, timer, overtaken>>
        /\ calls # <<>> /\ calls' = Tail(calls)
        /\ Head(calls) \in Refused /\ wanted' = Head(calls)
    BY DEF RefuseConnection
  <1>2. Head(calls) \in Parameters /\ Head(calls) # Close
    BY <1>1, ParametersAssumption
  <1>3. CallTypes' /\ Asked' = Asked
    BY <1>1, <1>2, HandleAsks DEF SessionInv
  <1>4. ClientTypes' BY <1>1, <1>2 DEF SessionInv, ClientTypes
  <1>5. ~overtaken' => XmppInv' BY <1>1 DEF SessionInv, XmppInv
  <1>6. QED BY <1>1, <1>3, <1>4, <1>5, XmppLeavesGui DEF SessionInv

LEMMA CloseStep ==
  ASSUME SessionInv, CloseConnection
  PROVE  SessionInv'
  <1>1. /\ UNCHANGED gui /\ calls # <<>> /\ calls' = Tail(calls)
        /\ Head(calls) = Close /\ wanted' = None /\ timer' = timer /\ pending' = None
    BY DEF CloseConnection
  <1>2. CallTypes' /\ Asked' = Asked
    BY <1>1, HandleAsks DEF SessionInv
  <1>3. ClientTypes'
    BY <1>1 DEF CloseConnection, Disconnect, SessionInv, ClientTypes
  <1>4. ASSUME ~overtaken' PROVE XmppInv'
    <2>1. ~overtaken /\ timer = None /\ ~client.auto BY <1>4 DEF CloseConnection
    <2>2. XmppInv BY <2>1 DEF SessionInv
    <2>3. CASE client.st = "disconnected"
      <3>1. client' = client BY <2>3 DEF CloseConnection
      <3>2. QED BY <1>1, <2>1, <2>2, <2>3, <3>1 DEF XmppInv
    <2>4. CASE client.st # "disconnected"
      <3>1. client' = [client EXCEPT !.st = "closing", !.auto = FALSE]
        BY <2>4 DEF CloseConnection, Disconnect
      <3>2. client'.st = "closing" /\ client'.auto = FALSE
        BY <3>1 DEF SessionInv, ClientTypes
      <3>3. QED BY <1>1, <2>1, <3>2 DEF XmppInv
    <2>5. QED BY <2>3, <2>4
  <1>5. QED BY <1>1, <1>2, <1>3, <1>4, XmppLeavesGui DEF SessionInv

\* disconnected(): what waited is now in the timer.
LEMMA DisconnectedStep ==
  ASSUME SessionInv, Closed \/ Lost
  PROVE  SessionInv'
  <1>1. UNCHANGED <<gui, calls, wanted>> /\ overtaken' = overtaken BY DEF Closed, Lost
  <1>2. CallTypes' /\ Asked' = Asked BY <1>1, SameAsks DEF SessionInv
  <1>3. PICK auto \in BOOLEAN :
          /\ client' = [client EXCEPT !.st = "disconnected", !.auto = auto]
          /\ client.st = "closing" => auto = client.auto
    <2>1. CASE Closed
      <3>1. client' = [client EXCEPT !.st = "disconnected", !.auto = client.auto]
        BY <2>1 DEF Closed, Disconnected, SessionInv, ClientTypes
      <3>2. client.auto \in BOOLEAN BY DEF SessionInv, ClientTypes
      <3>3. QED BY <3>1, <3>2
    <2>2. CASE Lost
      <3>1. client.st # "closing" BY <2>2 DEF Lost
      <3>2. QED BY <2>2, <3>1 DEF Lost, Disconnected
    <2>3. QED BY <2>1, <2>2
  <1>4. timer' = (IF pending = None THEN timer ELSE pending) /\ pending' = None /\ client.st # "disconnected"
    BY DEF Closed, Lost, Disconnected
  <1>5. client'.st = "disconnected" /\ client'.with = client.with /\ client'.auto = auto
    BY <1>3 DEF SessionInv, ClientTypes
  <1>6. ClientTypes' BY <1>1, <1>3, <1>4 DEF SessionInv, ClientTypes
  <1>7. ASSUME ~overtaken' PROVE XmppInv'
    <2>1. XmppInv BY <1>1, <1>7 DEF SessionInv
    <2>2. timer = None /\ ~client.auto BY <1>4, <2>1 DEF XmppInv
    <2>3. CASE client.st = "closing"
      <3>1. ~auto /\ (wanted \notin Refused => pending = wanted)
        BY <2>1, <2>2, <2>3, <1>3 DEF XmppInv
      <3>2. QED BY <1>1, <1>4, <1>5, <2>2, <3>1 DEF XmppInv
    <2>4. CASE client.st # "closing"
      <3>1. client.st \in {"connecting", "connected"} BY <1>4, <2>4 DEF SessionInv, ClientTypes
      <3>2. pending = None /\ (wanted \notin Refused => client.with = wanted)
        BY <2>1, <2>4, <3>1 DEF XmppInv
      <3>3. QED BY <1>1, <1>4, <1>5, <2>2, <3>2 DEF XmppInv
    <2>5. QED BY <2>3, <2>4
  <1>8. QED BY <1>1, <1>2, <1>6, <1>7, XmppLeavesGui DEF SessionInv

LEMMA TimerStep ==
  ASSUME SessionInv, ZeroTimer
  PROVE  SessionInv'
  <1>1. UNCHANGED <<gui, calls, wanted>> /\ overtaken' = overtaken /\ timer # None /\ timer' = None
    BY DEF ZeroTimer
  <1>2. CallTypes' /\ Asked' = Asked BY <1>1, SameAsks DEF SessionInv
  <1>3. ClientTypes'
    <2>1. timer \in Parameters BY <1>1 DEF SessionInv, ClientTypes
    <2>2. CASE client.st = "disconnected"
      <3>1. client' = [st |-> "connecting", with |-> timer, auto |-> FALSE] /\ pending' = pending
        BY <2>2 DEF ZeroTimer, StartConnection
      <3>2. QED BY <1>1, <2>1, <3>1 DEF SessionInv, ClientTypes
    <2>3. CASE client.st # "disconnected"
      BY <1>1, <2>1, <2>3 DEF ZeroTimer, SessionInv, ClientTypes
    <2>4. QED BY <2>2, <2>3
  <1>4. ASSUME ~overtaken' PROVE XmppInv'
    <2>1. XmppInv BY <1>1, <1>4 DEF SessionInv
    <2>2. /\ client.st = "disconnected" /\ pending = None
          /\ wanted \notin Refused => timer = wanted
      BY <1>1, <2>1 DEF XmppInv
    <2>3. client' = [st |-> "connecting", with |-> timer, auto |-> FALSE] /\ pending' = pending
      BY <2>2 DEF ZeroTimer, StartConnection
    <2>4. QED BY <1>1, <2>2, <2>3 DEF XmppInv
  <1>5. QED BY <1>1, <1>2, <1>3, <1>4, XmppLeavesGui DEF SessionInv

LEMMA ConnectionStep ==
  ASSUME SessionInv, Established \/ Reconnects
  PROVE  SessionInv'
  <1>1. UNCHANGED <<gui, calls, pending, timer, wanted>> /\ overtaken' = overtaken
    BY DEF Established, Reconnects
  <1>2. CallTypes' /\ Asked' = Asked BY <1>1, SameAsks DEF SessionInv
  <1>3. ClientTypes'
    <2>1. CASE Established BY <1>1, <2>1 DEF Established, SessionInv, ClientTypes
    <2>2. CASE Reconnects
      <3>1. client' = [st |-> "connecting", with |-> client.with, auto |-> FALSE]
        BY <2>2 DEF Reconnects, StartConnection
      <3>2. QED BY <1>1, <3>1 DEF SessionInv, ClientTypes
    <2>3. QED BY <2>1, <2>2
  <1>4. client'.st \in {"connecting", "connected"} /\ client'.with = client.with
    BY DEF Established, Reconnects, StartConnection, SessionInv, ClientTypes
  <1>5. ASSUME ~overtaken' PROVE XmppInv'
    <2>1. XmppInv BY <1>1, <1>5 DEF SessionInv
    <2>2. CASE Established
      <3>1. client.st = "connecting" /\ client'.auto = client.auto
        BY <2>2 DEF Established, SessionInv, ClientTypes
      <3>2. QED BY <1>1, <1>4, <2>1, <3>1 DEF XmppInv
    <2>3. CASE Reconnects
      <3>1. client.st = "disconnected" /\ client.auto /\ client'.auto = FALSE
        BY <2>3 DEF Reconnects, StartConnection
      <3>2. QED BY <1>1, <1>4, <2>1, <3>1 DEF XmppInv
    <2>4. QED BY <2>2, <2>3
  <1>6. QED BY <1>1, <1>2, <1>3, <1>5, XmppLeavesGui DEF SessionInv

-----------------------------------------------------------------------------
(* The theorems                                                            *)

LEMMA SessionInitially == Init => SessionInv
  <1> SUFFICES ASSUME Init PROVE SessionInv OBVIOUS
  <1>1. GuiTypes /\ CallTypes /\ GuiInv /\ Shown
    BY DEF Init, GuiTypes, CallTypes, GuiInv, Shown
  <1>2. ClientTypes /\ XmppInv BY DEF Init, Offline, ClientTypes, XmppInv
  <1>3. QED BY <1>1, <1>2 DEF SessionInv

LEMMA SessionNext == SessionInv /\ [Next]_vars => SessionInv'
  <1> SUFFICES ASSUME SessionInv, [Next]_vars PROVE SessionInv' OBVIOUS
  <1>1. CASE Gui
    BY <1>1, CheckStep, CheckedStep, LoginStep, LoginSucceedsStep, LogoutStep DEF Gui
  <1>2. CASE Xmpp
    BY <1>2, ConnectStep, RefuseStep, CloseStep, DisconnectedStep, TimerStep, ConnectionStep DEF Xmpp, Posted
  <1>3. CASE UNCHANGED vars
    <2>1. UNCHANGED gui /\ UNCHANGED xmpp /\ UNCHANGED <<calls, wanted>> BY <1>3 DEF vars, gui, xmpp
    <2>2. CallTypes' /\ Asked' = Asked BY <2>1, SameAsks DEF SessionInv
    <2>3. QED BY <2>1, <2>2, GuiLeavesXmpp, XmppLeavesGui DEF SessionInv
  <1>4. QED BY <1>1, <1>2, <1>3 DEF Next

\* The invariant holds in every state that the two threads reach.
THEOREM SessionInductive == Spec => []SessionInv
  BY SessionInitially, SessionNext, PTL DEF Spec

\* Whatever connectToServer() and closeConnection() were called in what order,
\* XmppManager is online only for the last of them, but for calls handled in the
\* gap before a timer; for any accounts and any backlog of calls.
THEOREM LastCallAlwaysWins == Spec => []LastCallWins
  <1>1. SessionInv => LastCallWins
    BY SessionTypes DEF SessionInv, XmppInv, LastCallWins, Up
  <1>2. QED BY <1>1, SessionInductive, PTL

\* AppController never shows the main page of an account without the XMPP thread
\* having been asked, as the last thing, to connect that account.
THEOREM AlwaysOnlineAsShown == Spec => []OnlineAsShown
  <1>1. SessionInv => OnlineAsShown
    BY SessionAssumption, ParametersAssumption DEF SessionInv, GuiInv, Shown, OnlineAsShown
  <1>2. QED BY <1>1, SessionInductive, PTL

-----------------------------------------------------------------------------
(* The conversation list                                                   *)

\* The type of a request's context.
ReqType ==
  [st : {"idle", "flying", "waiting", "lost", "done"}, method : Methods, retries : Nat,
   body : Bodies \cup {Missing}, handled : Nat, error : {"None", "UnknownNetworkError", "Other"}, ok : BOOLEAN]

\* What is true of a request r: a success has a body, and the server has handled a
\* request that must not be repeated at most once, with an answer while it is on its way.
ReqSound(r, q) ==
  /\ q.retries <= MaximumRetries[r]
  /\ q.ok => q.st = "done" /\ q.body # Missing
  /\ ~IsIdempotentHttpMethod(q.method) =>
       /\ q.st \notin {"waiting", "lost"} /\ q.handled <= 1
       /\ q.st = "flying" /\ q.body = Missing => q.handled = 0

\* Every request is sound.
HttpInv == req \in [Reqs -> ReqType] /\ \A r \in Reqs : ReqSound(r, req[r])

\* A request that is sent starts sound.
LEMMA FreshSound ==
  ASSUME NEW r \in Reqs, NEW method \in Methods
  PROVE  /\ Idle \in ReqType /\ ReqSound(r, Idle) /\ Idle.st = "idle"
         /\ Started(method) \in ReqType /\ ReqSound(r, Started(method)) /\ Started(method).st = "flying"
         /\ Invalid \in ReqType /\ ReqSound(r, Invalid) /\ Invalid.st = "done"
<1>1. MaximumRetries[r] \in Nat
  BY HttpRequestsAssumption
<1>2. Idle \in ReqType /\ ReqSound(r, Idle) /\ Idle.st = "idle"
  BY <1>1 DEF Idle, ReqType, Methods, ReqSound
<1> DEFINE i == [Idle EXCEPT !.method = method]
           s == [i EXCEPT !.st = "flying"]
           v == [Idle EXCEPT !.st = "done", !.error = "Other"]
           Blank(q) == q.retries = 0 /\ q.body = Missing /\ q.handled = 0 /\ ~q.ok
<1>3. Blank(Idle)
  BY DEF Idle
<1>4. i \in ReqType /\ Blank(i)
  BY <1>2, <1>3 DEF ReqType
<1> HIDE DEF i
<1>5. s \in ReqType /\ Blank(s) /\ s.st = "flying"
  BY <1>4 DEF ReqType
<1>6. v \in ReqType /\ Blank(v) /\ v.st = "done"
  BY <1>2, <1>3 DEF ReqType
<1>7. Started(method) = s /\ Invalid = v
  BY DEF Started, Invalid, ExecuteAttempt, i
<1> HIDE DEF s, v
<1>8. ReqSound(r, s) /\ ReqSound(r, v)
  BY <1>1, <1>5, <1>6 DEF ReqSound
<1> QED  BY <1>2, <1>5, <1>6, <1>7, <1>8

\* The finished handler leaves the request waiting, lost or done.
LEMMA FinishedSound ==
  ASSUME HttpInv, NEW r \in Reqs, NEW error, NEW status,
         req[r].st = "flying", status \in 200 .. 299 => req[r].body # Missing,
         Finished(r, error, status)
  PROVE  \E q \in ReqType : req' = [req EXCEPT ![r] = q] /\ q.st # "idle" /\ ReqSound(r, q)
<1> DEFINE old == req[r]
<1>0. old \in ReqType /\ ReqSound(r, old) /\ MaximumRetries[r] \in Nat
  BY HttpRequestsAssumption DEF HttpInv
<1>1. CASE ShouldRetry(r, error)
  <2>1. PICK st \in {"lost", "waiting"} :
          req' = [req EXCEPT ![r].st = st, ![r].retries = @ + 1, ![r].body = Missing]
    BY <1>1 DEF Finished
  <2> DEFINE q == [old EXCEPT !.st = st, !.retries = @ + 1, !.body = Missing]
  <2>2. req' = [req EXCEPT ![r] = q]
    BY <2>1 DEF HttpInv
  <2>3. q \in ReqType
    <3>1. old.retries + 1 \in Nat
      BY <1>0 DEF ReqType
    <3> QED  BY <1>0, <3>1 DEF ReqType
  <2>4. q.st # "idle" /\ ReqSound(r, q)
    BY <1>0, <1>1 DEF ReqType, ReqSound, ShouldRetry
  <2> HIDE DEF q
  <2> QED  BY <2>2, <2>3, <2>4
<1>2. CASE ~ShouldRetry(r, error)
  <2> DEFINE ok == error = "None" /\ status \in 200 .. 299
             q == [old EXCEPT !.st = "done", !.error = Told(error), !.ok = ok,
                              !.body = IF ok THEN @ ELSE Missing, !.retries = 0]
  <2>1. req' = [req EXCEPT ![r] = q]
    BY <1>2 DEF Finished, HttpInv
  <2>2. Told(error) \in {"None", "UnknownNetworkError", "Other"} /\ ok \in BOOLEAN
    BY DEF Told
  <2>a. ok => old.body # Missing
    OBVIOUS
  <2> HIDE DEF ok
  <2>3. q \in ReqType
    BY <1>0, <2>2 DEF ReqType
  <2>4. q.st = "done" /\ q.retries = 0 /\ q.method = old.method /\ q.handled = old.handled
        /\ q.ok = ok /\ q.body = IF ok THEN old.body ELSE Missing
    BY <1>0 DEF ReqType
  <2> HIDE DEF q
  <2>5. ReqSound(r, q)
    BY <1>0, <2>a, <2>2, <2>4 DEF ReqSound
  <2> QED  BY <2>1, <2>3, <2>4, <2>5
<1> QED  BY <1>1, <1>2

\* A step of NetworkClient changes one request that is under way, and it stays so.
LEMMA HttpStep ==
  ASSUME HttpInv, HttpNext
  PROVE  \E r \in Reqs, q \in ReqType :
           req' = [req EXCEPT ![r] = q] /\ req[r].st # "idle" /\ q.st # "idle" /\ ReqSound(r, q)
<1>1. PICK r \in Reqs : \/ ServerHandles(r) \/ ReplyEnds(r) \/ TimesOut(r)
                        \/ CertificateRefused(r) \/ RetryTimer(r)
  BY DEF HttpNext
<1>0. req[r] \in ReqType /\ ReqSound(r, req[r])
  BY DEF HttpInv
<1>2. CASE ServerHandles(r)
  <2>1. PICK body \in Bodies, h \in {req[r].handled, req[r].handled + 1} :
          /\ req' = [req EXCEPT ![r].body = body, ![r].handled = h]
          /\ req[r].st = "flying" /\ req[r].body = Missing
    BY <1>2 DEF ServerHandles
  <2> DEFINE q == [req[r] EXCEPT !.body = body, !.handled = h]
  <2>2. req' = [req EXCEPT ![r] = q]
    BY <2>1 DEF HttpInv
  <2>3. q \in ReqType /\ q.st = "flying" /\ q.method = req[r].method /\ q.handled = h /\ q.body = body
        /\ q.retries = req[r].retries /\ q.ok = req[r].ok
    <3>1. h \in Nat
      BY <1>0, <2>1 DEF ReqType
    <3> QED  BY <1>0, <2>1, <3>1 DEF ReqType
  <2> HIDE DEF q
  <2>4. ReqSound(r, q)
    <3>1. ~req[r].ok
      BY <1>0, <2>1 DEF ReqSound
    <3>2. body # Missing
      BY HttpRequestsAssumption
    <3>3. req[r].handled \in Nat
      BY <1>0 DEF ReqType
    <3> QED  BY <1>0, <2>1, <2>3, <3>1, <3>2, <3>3 DEF ReqSound
  <2> QED  BY <2>1, <2>2, <2>3, <2>4
<1>3. CASE ReplyEnds(r)
  <2>1. PICK reply \in Replies : /\ req[r].st = "flying"
                                 /\ reply.status # 0 => req[r].body # Missing
                                 /\ Finished(r, CreateResponse(reply), reply.status)
    BY <1>3 DEF ReplyEnds
  <2> QED  BY <2>1, FinishedSound
<1>4. CASE TimesOut(r)
  BY <1>4, FinishedSound DEF TimesOut
<1>5. CASE CertificateRefused(r)
  BY <1>5, FinishedSound DEF CertificateRefused
<1>6. CASE RetryTimer(r)
  <2> DEFINE q == [req[r] EXCEPT !.st = "flying"]
  <2>1. req' = [req EXCEPT ![r] = q] /\ req[r].st = "waiting"
    BY <1>6 DEF RetryTimer, ExecuteAttempt
  <2>2. q \in ReqType /\ q.st = "flying" /\ ReqSound(r, q)
    BY <1>0, <2>1 DEF ReqType, ReqSound
  <2> HIDE DEF q
  <2> QED  BY <2>1, <2>2
<1> QED  BY <1>1, <1>2, <1>3, <1>4, <1>5, <1>6

\* Changing one request soundly keeps them all sound.
LEMMA HttpKept ==
  ASSUME HttpInv, NEW r \in Reqs, NEW q \in ReqType, ReqSound(r, q), req' = [req EXCEPT ![r] = q]
  PROVE  HttpInv'
  BY DEF HttpInv

\* The type of a fetch, and what is true of one: at most the cached list is a result
\* until it ends, and the answer, if there is one, is the last result.
FetchType ==
  [st : {"idle", "running", "finished"}, canceled : BOOLEAN, results : Seq(Lists),
   answer : Lists \cup {Missing}]
FetchSound(o) ==
  /\ Len(o.results) <= 2
  /\ o.st = "running" => Len(o.results) <= 1 /\ o.answer = Missing
  /\ o.answer # Missing => Len(o.results) > 0 /\ o.results[Len(o.results)] = o.answer
  /\ o.canceled => o.st = "running"

\* A fetch that runs either has a request under way or waits once in m_queue.
Waits(f) == op[f].st = "running" /\ req[f].st = "idle"
QueueInv ==
  /\ queue \in Seq(Reqs)
  /\ \A i, j \in 1 .. Len(queue) : queue[i] = queue[j] => i = j
  /\ \A f \in Reqs : (\E i \in 1 .. Len(queue) : queue[i] = f) <=> Waits(f)
  /\ \A f \in Reqs : op[f].st = "finished" => req[f].st = "idle"

\* The rows are the last result the watcher has seen, and no fetch but the one it
\* follows can still bring a result.
WatchInv ==
  /\ watched \in [fetch : Reqs \cup {Missing}, seen : 0 .. 2]
  /\ rows \in Lists /\ loading \in BOOLEAN /\ cache \in Lists \cup {Missing}
  /\ watched.fetch # Missing =>
       /\ ~op[watched.fetch].canceled
       /\ watched.seen <= Len(op[watched.fetch].results)
       /\ watched.seen > 0 => rows = op[watched.fetch].results[watched.seen]
  /\ \A f \in Reqs : op[f].st = "running" /\ ~op[f].canceled => watched.fetch = f

\* The types of the monitor; a countdown that runs is within its delay.
MonitorInv ==
  /\ banner \in {"hidden", "shown", "hiding"} /\ forced \in BOOLEAN
  /\ monitor \in [active : BOOLEAN, count : Nat, delay : Nat, left : 0 .. MaximumRetry]
  /\ monitor.active => monitor.count <= monitor.delay

\* Every fetch is sound.
OpInv == op \in [Reqs -> FetchType] /\ \A f \in Reqs : FetchSound(op[f])

\* The inductive invariant.
ConversationsInv == HttpInv /\ OpInv /\ QueueInv /\ WatchInv /\ MonitorInv

\* A request that belongs to no fetch, or that goes on, changes nothing else.
LEMMA ReqChanges ==
  ASSUME ConversationsInv, NEW r \in Reqs, NEW q \in ReqType, ReqSound(r, q),
         req' = [req EXCEPT ![r] = q],
         op[r].st = "idle" \/ (req[r].st # "idle" /\ q.st # "idle"),
         UNCHANGED <<op, queue, watched, rows, loading, cache, monitor, banner, forced>>
  PROVE  ConversationsInv'
<1>1. HttpInv'
  BY HttpKept DEF ConversationsInv
<1>2. OpInv' /\ WatchInv' /\ MonitorInv'
  BY DEF ConversationsInv, OpInv, WatchInv, MonitorInv
<1>3. \A f \in Reqs : /\ Waits(f)' <=> Waits(f)
                      /\ op[f].st = "finished" /\ req[f].st = "idle" => req'[f].st = "idle"
  BY DEF ConversationsInv, HttpInv, Waits
<1>4. QueueInv'
  BY <1>3 DEF ConversationsInv, QueueInv
<1> QED  BY <1>1, <1>2, <1>4 DEF ConversationsInv

\* fetchConversations(): the fetch watched until now can bring nothing any more.
LEMMA FetchKeeps ==
  ASSUME ConversationsInv, FetchConversations
  PROVE  ConversationsInv'
<1>1. PICK f \in Reqs, cached \in ReadCache, q \in {Started("GET"), Invalid} :
        /\ Free(f)
        /\ op' = [g \in Reqs |-> IF g = f THEN NewFetch(cached)
                                 ELSE IF g = watched.fetch THEN Superseded(g) ELSE op[g]]
        /\ watched' = [fetch |-> f, seen |-> 0] /\ loading' = TRUE
        /\ req' = [req EXCEPT ![f] = q]
        /\ UNCHANGED <<queue, rows, cache, monitor, banner, forced>>
  BY DEF FetchConversations
<1>2. q \in ReqType /\ ReqSound(f, q) /\ q.st # "idle"
  BY <1>1, FreshSound DEF Methods
<1>3. HttpInv' /\ MonitorInv'
  BY <1>1, <1>2, HttpKept DEF ConversationsInv, MonitorInv
<1> DEFINE new == NewFetch(cached)
<1>4. new \in FetchType /\ FetchSound(new) /\ new.st = "running" /\ ~new.canceled
  <2>1. CASE cached = Missing
    BY <2>1 DEF NewFetch, FetchType, FetchSound
  <2>2. CASE cached # Missing
    <3>1. cached \in Lists
      BY <1>1, <2>2 DEF ReadCache, ConversationsInv, WatchInv
    <3> QED  BY <2>2, <3>1 DEF NewFetch, FetchType, FetchSound
  <2> QED  BY <2>1, <2>2
<1>5. NoFetch \in FetchType /\ FetchSound(NoFetch) /\ NoFetch.st = "idle" /\ ~NoFetch.canceled
  BY DEF NoFetch, FetchType, FetchSound
<1>6. Canceled \in FetchType /\ FetchSound(Canceled) /\ Canceled.st = "running" /\ Canceled.canceled
  <2>1. Canceled.st = "running" /\ Canceled.canceled /\ Canceled.results = <<>> /\ Canceled.answer = Missing
    BY DEF Canceled, NoFetch
  <2>2. Canceled \in FetchType
    BY <1>5 DEF Canceled, FetchType
  <2> QED  BY <2>1, <2>2 DEF FetchSound
<1> HIDE DEF new
<1>7. /\ op'[f] = new
      /\ \A g \in Reqs \ {f} :
           op'[g] = IF watched.fetch = g THEN IF op[g].st = "running" THEN Canceled ELSE NoFetch ELSE op[g]
  BY <1>1, ConversationsAssumption DEF new, Superseded, Running
<1>8. OpInv'
  <2>1. \A g \in Reqs : op'[g] \in FetchType /\ FetchSound(op'[g])
    BY <1>4, <1>5, <1>6, <1>7 DEF ConversationsInv, OpInv
  <2>2. op' = [g \in Reqs |-> op'[g]]
    BY <1>1
  <2> QED  BY <2>1, <2>2 DEF OpInv
<1>9. QueueInv'
  <2>1. \A g \in Reqs : Waits(g)' <=> Waits(g)
    <3>1. ~Waits(f) /\ ~Waits(f)'
      BY <1>1, <1>2 DEF Waits, Free, ConversationsInv, HttpInv
    <3>2. \A g \in Reqs \ {f} : Waits(g)' <=> Waits(g)
      BY <1>1, <1>5, <1>6, <1>7 DEF Waits, ConversationsInv, HttpInv
    <3> QED  BY <3>1, <3>2
  <2>2. \A g \in Reqs : op'[g].st = "finished" => req'[g].st = "idle"
    BY <1>1, <1>4, <1>5, <1>6, <1>7 DEF ConversationsInv, QueueInv, HttpInv
  <2> QED  BY <1>1, <2>1, <2>2 DEF ConversationsInv, QueueInv
<1>10. WatchInv'
  <2>1. watched' \in [fetch : Reqs \cup {Missing}, seen : 0 .. 2] /\ watched'.fetch = f /\ watched'.seen = 0
    BY <1>1
  <2>2. \A g \in Reqs : op'[g].st = "running" /\ ~op'[g].canceled => g = f
    BY <1>5, <1>6, <1>7 DEF ConversationsInv, WatchInv
  <2>3. op'[f].results \in Seq(Lists)
    BY <1>4, <1>7 DEF FetchType
  <2> QED  BY <1>1, <1>4, <1>7, <2>1, <2>2, <2>3 DEF ConversationsInv, WatchInv
<1> QED  BY <1>3, <1>8, <1>9, <1>10 DEF ConversationsInv

\* The retry signal: each fetch that waits asks again, or ends if it was canceled.
LEMMA RetryKeeps ==
  ASSUME ConversationsInv, RetryPending, UNCHANGED <<watched, rows, loading, cache>>
  PROVE  HttpInv' /\ OpInv' /\ QueueInv' /\ WatchInv'
<1>1. \A f \in Reqs : f \in ToSet(queue) <=> Waits(f)
  <2>1. DOMAIN queue = 1 .. Len(queue)
    BY DEF ConversationsInv, QueueInv
  <2> QED  BY <2>1 DEF ToSet, ConversationsInv, QueueInv
<1>2. /\ queue' = <<>>
      /\ op' = [f \in Reqs |-> IF Waits(f) /\ op[f].canceled THEN NoFetch ELSE op[f]]
      /\ req' = [r \in Reqs |-> IF Waits(r) /\ ~op[r].canceled THEN Started("GET") ELSE req[r]]
  BY <1>1 DEF RetryPending
<1>3. NoFetch \in FetchType /\ FetchSound(NoFetch) /\ NoFetch.st = "idle" /\ ~NoFetch.canceled
  BY DEF NoFetch, FetchType, FetchSound
<1>4. \A r \in Reqs : Started("GET") \in ReqType /\ ReqSound(r, Started("GET")) /\ Started("GET").st = "flying"
  BY FreshSound DEF Methods
<1>5. HttpInv'
  BY <1>2, <1>4 DEF ConversationsInv, HttpInv
<1>6. OpInv'
  BY <1>2, <1>3 DEF ConversationsInv, OpInv
<1>7. \A f \in Reqs : ~Waits(f)'
  BY <1>2, <1>3, <1>4 DEF Waits
<1>8. \A f \in Reqs : op'[f].st = "finished" => req'[f].st = "idle"
  BY <1>2, <1>3 DEF Waits, ConversationsInv, QueueInv
<1>9. QueueInv'
  BY <1>2, <1>7, <1>8 DEF QueueInv
<1>10. WatchInv'
  <2>1. watched.fetch # Missing => watched.fetch \in Reqs /\ op'[watched.fetch] = op[watched.fetch]
    BY <1>2 DEF ConversationsInv, WatchInv
  <2>2. \A f \in Reqs : op'[f].st = "running" => op'[f] = op[f]
    BY <1>2, <1>3
  <2> QED  BY <2>1, <2>2 DEF ConversationsInv, WatchInv
<1> QED  BY <1>5, <1>6, <1>9, <1>10

\* The countdown stays below the delay.
LEMMA TickKeeps ==
  ASSUME ConversationsInv, Tick
  PROVE  ConversationsInv'
<1>1. HttpInv' /\ OpInv' /\ QueueInv' /\ WatchInv'
  <2>1. UNCHANGED <<watched, rows, loading, cache, banner>> /\ (RetryPending \/ NoRetry)
    BY DEF Tick
  <2>2. CASE NoRetry
    BY <2>1, <2>2 DEF NoRetry, ConversationsInv, HttpInv, OpInv, QueueInv, WatchInv, Waits
  <2> QED  BY <2>1, <2>2, RetryKeeps
<1>2. MonitorInv'
  <2> DEFINE count == IF monitor.count > 0 THEN monitor.count - 1 ELSE 0
             again == count = 0 /\ monitor.left > 0
             next  == IF again
                        THEN [monitor EXCEPT !.left = @ - 1, !.delay = 2 * @, !.count = 2 * monitor.delay]
                        ELSE [monitor EXCEPT !.count = count]
             on == ~(next.count = 0 /\ next.left = 0)
  <2>1. monitor.active /\ monitor' = [next EXCEPT !.active = on] /\ banner' = banner /\ forced' \in BOOLEAN
    BY DEF Tick, ConversationsInv, MonitorInv
  <2>2. /\ monitor \in [active : BOOLEAN, count : Nat, delay : Nat, left : 0 .. MaximumRetry]
        /\ monitor.count \in Nat /\ monitor.delay \in Nat /\ monitor.left \in 0 .. MaximumRetry
        /\ monitor.count <= monitor.delay /\ MaximumRetry \in Nat
    BY <2>1, ConversationsAssumption DEF ConversationsInv, MonitorInv
  <2>3. next \in [active : BOOLEAN, count : Nat, delay : Nat, left : 0 .. MaximumRetry]
    <3>1. CASE again
      <4>1. monitor.left - 1 \in 0 .. MaximumRetry /\ 2 * monitor.delay \in Nat
        BY <2>2, <3>1
      <4> QED  BY <2>2, <3>1, <4>1
    <3>2. CASE ~again
      <4>1. count \in Nat
        BY <2>2
      <4> HIDE DEF count
      <4> QED  BY <2>2, <3>2, <4>1
    <3> QED  BY <3>1, <3>2
  <2>4. next.count <= next.delay
    <3>1. CASE again
      BY <2>2, <3>1
    <3>2. CASE ~again
      <4>1. count <= monitor.delay
        BY <2>2
      <4> HIDE DEF count
      <4> QED  BY <2>2, <3>2, <4>1
    <3> QED  BY <3>1, <3>2
  <2>5. on \in BOOLEAN
    OBVIOUS
  <2> HIDE DEF next, on
  <2>6. /\ monitor' \in [active : BOOLEAN, count : Nat, delay : Nat, left : 0 .. MaximumRetry]
        /\ monitor'.count = next.count /\ monitor'.delay = next.delay
    BY <2>1, <2>3, <2>5
  <2> QED  BY <2>1, <2>4, <2>6 DEF ConversationsInv, MonitorInv
<1> QED  BY <1>1, <1>2 DEF ConversationsInv

\* The continuation of an attempt: the fetch ends, or it waits for the retry signal.
LEMMA AnsweredKeeps ==
  ASSUME ConversationsInv, NEW f \in Reqs, Answered(f)
  PROVE  ConversationsInv'
<1>1. /\ req[f].st = "done" /\ op[f].st = "running" /\ req' = [req EXCEPT ![f] = Idle]
      /\ UNCHANGED <<watched, rows, loading, monitor, banner, forced>>
  BY DEF Answered
<1>2. /\ req \in [Reqs -> ReqType] /\ op \in [Reqs -> FetchType]
      /\ op[f] \in FetchType /\ req[f] \in ReqType /\ FetchSound(op[f]) /\ ReqSound(f, req[f])
  BY DEF ConversationsInv, HttpInv, OpInv
<1>3. HttpInv' /\ MonitorInv' /\ req'[f].st = "idle"
  <2>1. Idle \in ReqType /\ ReqSound(f, Idle) /\ Idle.st = "idle"
    BY FreshSound DEF Methods
  <2> QED  BY <1>1, <1>2, <2>1, HttpKept DEF ConversationsInv, MonitorInv
<1>4. ~Waits(f) /\ \A i \in 1 .. Len(queue) : queue[i] # f
  BY <1>1 DEF Waits, ConversationsInv, QueueInv
<1>5. ASSUME NEW o \in FetchType, FetchSound(o), o.st # "running", op' = [op EXCEPT ![f] = o],
             queue' = queue, cache' \in Lists \cup {Missing}, ~o.canceled,
             op[f].canceled \/ \E l \in Lists : o.results \in {op[f].results, Append(op[f].results, l)}
      PROVE  ConversationsInv'
  <2>1. op'[f] = o /\ \A g \in Reqs \ {f} : op'[g] = op[g] /\ req'[g] = req[g]
    BY <1>1, <1>2, <1>5
  <2>2. OpInv'
    BY <1>2, <1>5 DEF ConversationsInv, OpInv
  <2>3. \A g \in Reqs : Waits(g)' <=> Waits(g)
    BY <1>4, <1>5, <2>1 DEF Waits
  <2>4. \A g \in Reqs : op'[g].st = "finished" => req'[g].st = "idle"
    BY <1>3, <2>1 DEF ConversationsInv, QueueInv
  <2>5. QueueInv'
    BY <1>5, <2>3, <2>4 DEF ConversationsInv, QueueInv
  <2>6. WatchInv'
    <3>1. watched.fetch = f =>
            /\ watched.seen <= Len(o.results)
            /\ watched.seen > 0 => rows = o.results[watched.seen]
      <4> SUFFICES ASSUME watched.fetch = f
                   PROVE  /\ watched.seen <= Len(o.results)
                          /\ watched.seen > 0 => rows = o.results[watched.seen]
        OBVIOUS
      <4>1. /\ ~op[f].canceled /\ watched.seen \in Nat /\ watched.seen <= Len(op[f].results)
            /\ watched.seen > 0 => rows = op[f].results[watched.seen]
        BY ConversationsAssumption DEF ConversationsInv, WatchInv
      <4>2. op[f].results \in Seq(Lists)
        BY <1>2 DEF FetchType
      <4>3. PICK l \in Lists : o.results \in {op[f].results, Append(op[f].results, l)}
        BY <1>5, <4>1
      <4> QED  BY <4>1, <4>2, <4>3
    <3>2. \A g \in Reqs : op'[g].st = "running" /\ ~op'[g].canceled => watched.fetch = g
      BY <1>5, <2>1 DEF ConversationsInv, WatchInv
    <3>3. watched.fetch # Missing /\ watched.fetch # f => op'[watched.fetch] = op[watched.fetch]
      BY <2>1 DEF ConversationsInv, WatchInv
    <3> QED  BY <1>1, <1>5, <2>1, <3>1, <3>2, <3>3 DEF ConversationsInv, WatchInv
  <2> QED  BY <1>3, <2>2, <2>5, <2>6 DEF ConversationsInv
<1>6. CASE op[f].canceled /\ Finish(f) /\ UNCHANGED <<queue, cache>>
  <2>1. NoFetch \in FetchType /\ FetchSound(NoFetch) /\ NoFetch.st = "idle" /\ ~NoFetch.canceled
    BY DEF NoFetch, FetchType, FetchSound
  <2>2. cache' \in Lists \cup {Missing}
    BY <1>6 DEF ConversationsInv, WatchInv
  <2> QED  BY <1>5, <1>6, <2>1, <2>2 DEF Finish
<1>7. CASE queue' = Append(queue, f) /\ UNCHANGED <<op, cache>>
  <2>1. OpInv' /\ WatchInv'
    BY <1>1, <1>7 DEF ConversationsInv, OpInv, WatchInv
  <2>2. /\ queue' \in Seq(Reqs) /\ Len(queue') = Len(queue) + 1 /\ queue'[Len(queue) + 1] = f
        /\ \A i \in 1 .. Len(queue) : queue'[i] = queue[i]
        /\ Len(queue) \in Nat
    BY <1>7 DEF ConversationsInv, QueueInv
  <2>3. Waits(f)' /\ \A g \in Reqs \ {f} : Waits(g)' <=> Waits(g)
    BY <1>1, <1>2, <1>3, <1>7 DEF Waits
  <2>4. \A i, j \in 1 .. Len(queue') : queue'[i] = queue'[j] => i = j
    BY <1>4, <2>2 DEF ConversationsInv, QueueInv
  <2>5. \A g \in Reqs : (\E i \in 1 .. Len(queue') : queue'[i] = g) <=> Waits(g)'
    <3>1. \A g \in Reqs : (\E i \in 1 .. Len(queue') : queue'[i] = g)
                            <=> g = f \/ (\E i \in 1 .. Len(queue) : queue[i] = g)
      BY <2>2
    <3> QED  BY <2>3, <3>1 DEF ConversationsInv, QueueInv
  <2>6. \A g \in Reqs : op'[g].st = "finished" => req'[g].st = "idle"
    BY <1>1, <1>2, <1>7 DEF ConversationsInv, QueueInv
  <2>7. QueueInv'
    BY <2>2, <2>4, <2>5, <2>6 DEF QueueInv
  <2> QED  BY <1>3, <2>1, <2>7 DEF ConversationsInv
<1>8. CASE ~op[f].canceled /\ FinishEmpty(f) /\ UNCHANGED <<queue, cache>>
  <2> DEFINE res == IF op[f].results = <<>> THEN <<Empty>> ELSE op[f].results
             o == [op[f] EXCEPT !.st = "finished", !.results = res]
  <2>1. op' = [op EXCEPT ![f] = o]
    BY <1>2, <1>8 DEF FinishEmpty
  <2>2. op[f].results \in Seq(Lists) /\ Empty \in Lists /\ res \in Seq(Lists)
    <3>1. op[f].results \in Seq(Lists) /\ Empty \in Lists
      BY <1>2 DEF FetchType, Lists
    <3>2. <<Empty>> \in Seq(Lists)
      BY <3>1
    <3> QED  BY <3>1, <3>2
  <2>3. /\ o \in FetchType /\ o.st = "finished" /\ o.canceled = op[f].canceled /\ o.answer = op[f].answer
        /\ o.results = res
    <3> HIDE DEF res
    <3> QED  BY <1>2, <2>2 DEF FetchType
  <2> HIDE DEF o
  <2>4. op[f].results = <<>> => <<Empty>> = Append(op[f].results, Empty)
    BY <2>2
  <2>5. FetchSound(o)
    BY <1>1, <1>2, <1>8, <2>2, <2>3 DEF FetchSound
  <2>6. cache' \in Lists \cup {Missing}
    BY <1>8 DEF ConversationsInv, WatchInv
  <2> QED  BY <1>5, <1>8, <2>1, <2>2, <2>3, <2>4, <2>5, <2>6
<1>9. CASE ~op[f].canceled /\ req[f].ok /\ req[f].body # Unreadable /\ queue' = queue
           /\ \/ /\ op[f].results # <<>> /\ op[f].results[1] = req[f].body
                 /\ op' = [op EXCEPT ![f].st = "finished", ![f].answer = req[f].body]
                 /\ UNCHANGED cache
              \/ /\ op' = [op EXCEPT ![f].st = "finished", ![f].answer = req[f].body,
                                     ![f].results = Append(@, req[f].body)]
                 /\ SaveCache(req[f].body)
  <2> DEFINE answer == req[f].body
  <2>1. answer \in Lists /\ op[f].results \in Seq(Lists)
    BY <1>2, <1>9 DEF ReqType, ReqSound, Lists, FetchType
  <2>2. Len(op[f].results) <= 1 /\ Len(op[f].results) \in Nat
    BY <1>1, <1>2, <2>1 DEF FetchSound
  <2>3. CASE /\ op[f].results # <<>> /\ op[f].results[1] = answer
             /\ op' = [op EXCEPT ![f].st = "finished", ![f].answer = answer]
             /\ UNCHANGED cache
    <3> HIDE DEF answer
    <3> DEFINE o == [op[f] EXCEPT !.st = "finished", !.answer = answer]
    <3>1. op' = [op EXCEPT ![f] = o]
      BY <1>2, <2>3
    <3>2. /\ o \in FetchType /\ o.st = "finished" /\ o.canceled = op[f].canceled
          /\ o.answer = answer /\ o.results = op[f].results
      BY <1>2, <2>1 DEF FetchType
    <3> HIDE DEF o
    <3>3. Len(op[f].results) = 1
      <4> DEFINE n == Len(op[f].results)
      <4>1. n \in Nat \ {0} /\ n <= 1
        BY <2>1, <2>2, <2>3, EmptySeq
      <4> HIDE DEF n
      <4>2. n = 1
        BY <4>1
      <4> QED  BY <4>2 DEF n
    <3>4. FetchSound(o)
      BY <1>9, <2>1, <2>3, <3>2, <3>3 DEF FetchSound
    <3>5. cache' \in Lists \cup {Missing}
      BY <2>3 DEF ConversationsInv, WatchInv
    <3> QED  BY <1>5, <1>9, <2>1, <3>1, <3>2, <3>4, <3>5
  <2>4. CASE /\ op' = [op EXCEPT ![f].st = "finished", ![f].answer = answer, ![f].results = Append(@, answer)]
             /\ SaveCache(answer)
    <3> HIDE DEF answer
    <3> DEFINE res == Append(op[f].results, answer)
               o == [op[f] EXCEPT !.st = "finished", !.answer = answer, !.results = res]
    <3>1. op' = [op EXCEPT ![f] = o]
      BY <1>2, <2>4
    <3>2. res \in Seq(Lists) /\ Len(res) = Len(op[f].results) + 1 /\ res[Len(res)] = answer
      BY <2>1, <2>2
    <3> HIDE DEF res
    <3>3. /\ o \in FetchType /\ o.st = "finished" /\ o.canceled = op[f].canceled
          /\ o.answer = answer /\ o.results = res
      BY <1>2, <2>1, <3>2 DEF FetchType
    <3> HIDE DEF o
    <3>4. FetchSound(o)
      BY <1>9, <2>2, <3>2, <3>3 DEF FetchSound
    <3>5. cache' \in Lists \cup {Missing}
      BY <2>1, <2>4 DEF SaveCache, ConversationsInv, WatchInv
    <3> QED  BY <1>5, <1>9, <2>1, <3>1, <3>3, <3>4, <3>5 DEF res
  <2> QED  BY <1>9, <2>3, <2>4
<1> QED  BY <1>6, <1>7, <1>8, <1>9 DEF Answered

\* A result reaches the list.
LEMMA ResultKeeps ==
  ASSUME ConversationsInv, ResultReady
  PROVE  ConversationsInv'
<1> DEFINE f == watched.fetch
           res == op[f].results
<1>1. /\ f # Missing /\ watched.seen < Len(res) /\ rows' = res[watched.seen + 1]
      /\ watched' = [watched EXCEPT !.seen = @ + 1] /\ loading' = FALSE
      /\ UNCHANGED <<req, op, queue, cache, monitor, banner, forced>>
  BY DEF ResultReady
<1>2. f \in Reqs /\ watched \in [fetch : Reqs \cup {Missing}, seen : 0 .. 2]
  BY <1>1 DEF ConversationsInv, WatchInv
<1>3. res \in Seq(Lists) /\ Len(res) <= 2 /\ Len(res) \in Nat
  BY <1>2 DEF ConversationsInv, OpInv, FetchType, FetchSound
<1> HIDE DEF res
<1>4. watched.seen \in 0 .. 2 /\ watched.seen + 1 \in 1 .. Len(res) /\ watched.seen + 1 \in 0 .. 2
  BY <1>1, <1>2, <1>3
<1>5. /\ watched' \in [fetch : Reqs \cup {Missing}, seen : 0 .. 2]
      /\ watched'.fetch = f /\ watched'.seen = watched.seen + 1
  BY <1>1, <1>2, <1>4
<1>6. rows' \in Lists
  BY <1>1, <1>3, <1>4
<1>7. WatchInv'
  <2>1. /\ rows' \in Lists /\ loading' \in BOOLEAN /\ cache' \in Lists \cup {Missing}
        /\ \A g \in Reqs : op'[g].st = "running" /\ ~op'[g].canceled => watched'.fetch = g
    BY <1>1, <1>5, <1>6 DEF ConversationsInv, WatchInv
  <2>2. ~op'[f].canceled
    BY <1>1 DEF ConversationsInv, WatchInv
  <2>3. op'[f].results = res
    BY <1>1 DEF res
  <2>4. watched'.seen <= Len(res) /\ rows' = res[watched'.seen]
    BY <1>1, <1>3, <1>4, <1>5
  <2> HIDE DEF f
  <2> QED  BY <1>5, <2>1, <2>2, <2>3, <2>4 DEF WatchInv
<1>8. HttpInv' /\ OpInv' /\ QueueInv' /\ MonitorInv'
  BY <1>1 DEF ConversationsInv, HttpInv, OpInv, QueueInv, Waits, MonitorInv
<1> QED  BY <1>7, <1>8 DEF ConversationsInv

\* The banner and its button.
LEMMA MonitorKeeps ==
  ASSUME ConversationsInv, Retry \/ Reachable \/ Unreachable \/ BannerHidden
  PROVE  ConversationsInv'
<1> DEFINE M == [active : BOOLEAN, count : Nat, delay : Nat, left : 0 .. MaximumRetry]
<1>1. monitor \in M /\ monitor.delay \in Nat /\ Countdown \in Nat
  BY ConversationsAssumption DEF ConversationsInv, MonitorInv
<1>2. /\ StopRetryCountDown(monitor) \in M /\ ~StopRetryCountDown(monitor).active
      /\ StartRetryCountDown(monitor) \in M
      /\ StartRetryCountDown(monitor).count = StartRetryCountDown(monitor).delay
  BY <1>1 DEF StopRetryCountDown, StartRetryCountDown
<1>3. MonitorInv'
  <2>1. CASE Retry
    <3>1. monitor' = [monitor EXCEPT !.active = TRUE, !.count = Countdown, !.delay = Countdown]
      BY <2>1 DEF Retry
    <3>2. monitor' \in M /\ monitor'.count = Countdown /\ monitor'.delay = Countdown
      BY <1>1, <3>1
    <3>3. banner' = banner /\ forced' = TRUE
      BY <2>1 DEF Retry
    <3> QED  BY <1>1, <3>2, <3>3 DEF ConversationsInv, MonitorInv
  <2>2. CASE Reachable \/ BannerHidden
    BY <1>2, <2>2 DEF Reachable, BannerHidden, ConversationsInv, MonitorInv
  <2>3. CASE Unreachable
    BY <1>2, <2>3 DEF Unreachable, ConversationsInv, MonitorInv
  <2> QED  BY <2>1, <2>2, <2>3
<1>4. HttpInv' /\ OpInv' /\ QueueInv' /\ WatchInv'
  <2>1. CASE Reachable
    BY <2>1, RetryKeeps DEF Reachable
  <2>2. CASE Retry \/ Unreachable \/ BannerHidden
    BY <2>2 DEF Retry, Unreachable, BannerHidden, ConversationsInv, HttpInv, OpInv, QueueInv, Waits, WatchInv
  <2> QED  BY <2>1, <2>2
<1> QED  BY <1>3, <1>4 DEF ConversationsInv

\* Every step keeps the invariant.
LEMMA ConversationsStep == ConversationsInv /\ [ConversationsNext]_conversationsVars => ConversationsInv'
<1> SUFFICES ASSUME ConversationsInv, [ConversationsNext]_conversationsVars PROVE ConversationsInv'
  OBVIOUS
<1> DEFINE rest == UNCHANGED <<op, queue, watched, rows, loading, cache, monitor, banner, forced>>
<1>1. CASE HttpNext /\ rest
  <2>1. PICK r \in Reqs, q \in ReqType :
          req' = [req EXCEPT ![r] = q] /\ req[r].st # "idle" /\ q.st # "idle" /\ ReqSound(r, q)
    BY <1>1, HttpStep DEF ConversationsInv
  <2> QED  BY <1>1, <2>1, ReqChanges
<1>2. ASSUME NEW r \in Reqs, OtherSend(r), rest PROVE ConversationsInv'
  <2>1. PICK q \in {Started("POST"), Invalid} : req' = [req EXCEPT ![r] = q] /\ op[r].st = "idle"
    BY <1>2 DEF OtherSend, Send
  <2>2. q \in ReqType /\ ReqSound(r, q)
    BY FreshSound DEF Methods
  <2> QED  BY <1>2, <2>1, <2>2, ReqChanges
<1>3. ASSUME NEW r \in Reqs, OtherAnswered(r), rest PROVE ConversationsInv'
  <2>1. Idle \in ReqType /\ ReqSound(r, Idle)
    BY FreshSound DEF Methods
  <2> QED  BY <1>3, <2>1, ReqChanges DEF OtherAnswered
<1>4. CASE UNCHANGED conversationsVars
  <2>1. UNCHANGED <<req, op, queue, watched, rows, loading, cache, monitor, banner, forced>>
    BY <1>4 DEF conversationsVars
  <2>2. HttpInv' /\ OpInv' /\ MonitorInv'
    BY <2>1 DEF ConversationsInv, HttpInv, OpInv, MonitorInv
  <2>3. QueueInv'
    BY <2>1 DEF ConversationsInv, QueueInv, Waits
  <2>4. WatchInv'
    BY <2>1 DEF ConversationsInv, WatchInv
  <2> QED  BY <2>2, <2>3, <2>4 DEF ConversationsInv
<1> QED
  BY <1>1, <1>2, <1>3, <1>4, FetchKeeps, AnsweredKeeps, ResultKeeps, MonitorKeeps, TickKeeps
     DEF ConversationsNext

\* It holds at the start.
LEMMA ConversationsInitially == ConversationsInit => ConversationsInv
<1> SUFFICES ASSUME ConversationsInit PROVE ConversationsInv
  OBVIOUS
<1>1. HttpInv
  <2>1. \A r \in Reqs : Idle \in ReqType /\ ReqSound(r, Idle)
    BY FreshSound DEF Methods
  <2> QED  BY <2>1 DEF ConversationsInit, HttpInit, HttpInv
<1>2. NoFetch \in FetchType /\ FetchSound(NoFetch) /\ NoFetch.st = "idle" /\ ~NoFetch.canceled
  BY DEF NoFetch, FetchType, FetchSound
<1>3. OpInv
  BY <1>2 DEF ConversationsInit, OpInv
<1>4. QueueInv
  BY <1>2 DEF ConversationsInit, QueueInv, Waits
<1>5. WatchInv
  <2>1. watched \in [fetch : Reqs \cup {Missing}, seen : 0 .. 2] /\ watched.fetch = Missing
    BY DEF ConversationsInit
  <2>2. \A f \in Reqs : op[f].st = "idle"
    BY <1>2 DEF ConversationsInit
  <2>3. rows \in Lists /\ loading \in BOOLEAN /\ cache \in Lists \cup {Missing}
    BY DEF ConversationsInit, Lists
  <2> QED  BY <2>1, <2>2, <2>3 DEF WatchInv
<1>6. MonitorInv
  <2>1. monitor \in [active : BOOLEAN, count : Nat, delay : Nat, left : 0 .. MaximumRetry]
    BY ConversationsAssumption DEF ConversationsInit
  <2>2. ~monitor.active
    BY DEF ConversationsInit
  <2>3. banner \in {"hidden", "shown", "hiding"} /\ forced \in BOOLEAN
    BY DEF ConversationsInit
  <2> QED  BY <2>1, <2>2, <2>3 DEF MonitorInv
<1> QED  BY <1>1, <1>3, <1>4, <1>5, <1>6 DEF ConversationsInv

\* However answers, timeouts, retries and newer fetches interleave, the requests, the
\* queue of the repository and what the list has seen stay consistent.
THEOREM ConversationsInductive == ConversationsSpec => []ConversationsInv
  BY ConversationsInitially, ConversationsStep, PTL DEF ConversationsSpec

\* A fetch that is not finished has exactly one continuation.
LEMMA NothingForgotten == ConversationsInv => NotForgotten
<1> SUFFICES ASSUME ConversationsInv, NEW f \in Reqs
             PROVE  LET places == Cardinality({i \in 1 .. Len(queue) : queue[i] = f})
                        asking == IF req[f].st = "idle" \/ ~Running(f) THEN 0 ELSE 1
                    IN  places + asking = IF Running(f) THEN 1 ELSE 0
  BY DEF NotForgotten
<1> DEFINE at == {i \in 1 .. Len(queue) : queue[i] = f}
<1>1. Running(f) <=> op[f].st = "running"
  BY ConversationsAssumption DEF Running
<1>2. CASE Waits(f)
  <2>1. PICK i \in 1 .. Len(queue) : queue[i] = f
    BY <1>2 DEF ConversationsInv, QueueInv
  <2>2. at = {i}
    BY <2>1 DEF ConversationsInv, QueueInv
  <2>3. Cardinality(at) = 1
    BY <2>2, FS_Singleton
  <2> QED  BY <1>1, <1>2, <2>3 DEF Waits
<1>3. CASE ~Waits(f)
  <2>1. at = {}
    BY <1>3 DEF ConversationsInv, QueueInv
  <2>2. Cardinality(at) = 0
    BY <2>1, FS_EmptySet
  <2> QED  BY <1>1, <1>3, <2>2 DEF Waits
<1> QED  BY <1>2, <1>3

\* A fetch of the conversation list is neither lost nor doubled, a POST is handled at
\* most once, and once the answer's events are handled the rows are that answer.
THEOREM ListAlwaysSound == ConversationsSpec => []ListSound
<1>1. ConversationsInv => ConversationsTypeOK
  BY DEF ConversationsInv, HttpInv, OpInv, QueueInv, WatchInv, MonitorInv, ConversationsTypeOK, HttpTypeOK,
         ReqType, ReqSound, FetchType, FetchSound
<1>2. ConversationsInv => OnceToServer
  BY DEF ConversationsInv, HttpInv, ReqSound, OnceToServer
<1>3. ConversationsInv => RowsAreAnswer
  <2> SUFFICES ASSUME ConversationsInv, watched.fetch # Missing,
                      LET o == op[watched.fetch]
                      IN  o.st = "finished" /\ o.answer # Missing /\ watched.seen = Len(o.results)
               PROVE  rows = op[watched.fetch].answer
    BY DEF RowsAreAnswer
  <2>1. watched.fetch \in Reqs
    BY DEF ConversationsInv, WatchInv
  <2> QED  BY <2>1 DEF ConversationsInv, OpInv, FetchSound, WatchInv
<1>4. ConversationsInv => ListSound
  BY <1>1, <1>2, <1>3, NothingForgotten DEF ListSound
<1> QED  BY <1>4, ConversationsInductive, PTL

\* The late answer of a fetch that was superseded never replaces the cached list: only
\* the fetch on the screen writes it, with its own answer.
THEOREM SupersededAlwaysDropped == ConversationsSpec => SupersededNeverSaved
<1> DEFINE P == cache' # cache => /\ watched.fetch # Missing /\ op[watched.fetch].st = "running"
                                  /\ cache' = op'[watched.fetch].answer
<1>1. ASSUME ConversationsInv, [ConversationsNext]_conversationsVars PROVE P
  <2> SUFFICES ASSUME cache' # cache PROVE P
    OBVIOUS
  <2>1. PICK f \in Reqs : Answered(f)
    BY <1>1 DEF ConversationsNext, FetchConversations, ResultReady, Retry, Tick, Reachable, Unreachable,
                BannerHidden, conversationsVars
  <2>2. /\ op[f].st = "running" /\ ~op[f].canceled /\ cache' = req[f].body
        /\ op' = [op EXCEPT ![f].st = "finished", ![f].answer = req[f].body,
                            ![f].results = Append(@, req[f].body)]
    BY <2>1 DEF Answered, SaveCache
  <2>3. watched.fetch = f /\ f # Missing /\ op[f] \in FetchType
    BY <1>1, <2>2, ConversationsAssumption DEF ConversationsInv, WatchInv, OpInv
  <2>4. op'[f].answer = req[f].body
    BY <1>1, <2>2, <2>3 DEF ConversationsInv, OpInv, FetchType
  <2> QED  BY <2>2, <2>3, <2>4
<1>2. ConversationsInv /\ [ConversationsNext]_conversationsVars => [P]_conversationsVars
  BY <1>1
<1> QED  BY <1>2, ConversationsInductive, PTL DEF ConversationsSpec, SupersededNeverSaved
===============================================================================
