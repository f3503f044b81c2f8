------------------------------- MODULE Session -------------------------------
(***************************************************************************)
(* Who is signed in: the GUI thread with AppController, the session and    *)
(* login use cases, their repositories and the pages of Main.qml, and the  *)
(* XMPP thread with XmppManager around QXmppClient.                        *)
(*                                                                         *)
(* connectToServer() and closeConnection() are posted from the one thread  *)
(* to the other and handled there in order.  A connection is changed by    *)
(* closing it first: the parameters wait in m_pendingConnection until      *)
(* disconnected(), and then in a zero timer.                               *)
(***************************************************************************)
EXTENDS Integers, Sequences, SequencesExt

CONSTANTS
  Accounts, \* the users of this machine
  Backlog,  \* bound: calls that wait for the XMPP thread
  None

ASSUME SessionAssumption == None \notin Accounts /\ Backlog \in Nat

\* What a connection is made with: the account of the answer to a login, and
\* the account whose password goes with it.
Parameters == [jid : Accounts, password : Accounts]
Credentials(a) == [jid |-> a, password |-> a]
Close == [close |-> TRUE]

CONSTANT Refused \* parameters with no JID, one without an @ or an empty password

ASSUME ParametersAssumption ==
  None \notin Parameters /\ Close \notin Parameters /\ Refused \subseteq Parameters

VARIABLES
  page,      \* what pageLoader shows
  store,     \* the account whose login is saved
  user,      \* m_user of the session repository, until the check is over
  check,     \* the session check of the start, and its result
  logins,    \* login requests without an answer
  request,   \* m_request of the login repository: the password entered last
  account,   \* whose main page is shown
  calls,     \* calls posted to the XMPP thread
  client,    \* QXmppClient: its state, parameters and whether it will reconnect
  pending,   \* m_pendingConnection
  timer,     \* the parameters of the zero timer that will start a connection
  wanted,    \* what the last call that was handled asked for
  overtaken  \* a call was handled between a disconnection and the connection it leads to

gui == <<page, store, user, check, logins, request, account>>
xmpp == <<client, pending, timer, wanted, overtaken>>
vars == <<page, store, user, check, logins, request, account,
          calls, client, pending, timer, wanted, overtaken>>

Offline == [st |-> "disconnected", with |-> None, auto |-> FALSE]

Init ==
  /\ page = "loading"
  /\ store \in Accounts \cup {None} /\ user = store
  /\ check = "no" /\ logins = {} /\ request = None /\ account = None
  /\ calls = <<>>
  /\ client = Offline /\ pending = None /\ timer = None
  /\ wanted = None /\ overtaken = FALSE

-----------------------------------------------------------------------------
\* The GUI thread.

Post(call) == calls' = Append(calls, call)
Room(n) == Len(calls) + n <= Backlog

\* Main.qml calls checkAuthentication() once.  Without a saved login the answer
\* is ready; with one it depends on the token's age.
CheckAuthentication ==
  /\ check = "no"
  /\ \/ user = None /\ check' = "false"
     \/ user # None /\ check' \in {"true", "refreshing"}
  /\ UNCHANGED <<page, store, user, logins, request, account, calls, xmpp>>

\* The answer to refreshToken(): new tokens are saved, then a connection asked for.
TokenRefreshed ==
  /\ check = "refreshing" /\ Room(2)
  /\ \/ check' = "false" /\ UNCHANGED calls
     \/ check' = "true" /\ store # None /\ Post(Credentials(user))
  /\ UNCHANGED <<page, store, user, logins, request, account, xmpp>>

\* The continuation of SessionUsecase::execute(), AppController's handler and the
\* page it switches to.  The connection is asked for whatever the result is.
SessionChecked ==
  /\ check \in {"true", "false"} /\ Room(1) /\ check' = "done"
  /\ IF user = None THEN UNCHANGED calls ELSE Post(Credentials(user))
  /\ IF check = "true" THEN page' = "main" /\ account' = user
                       ELSE page' = "login" /\ UNCHANGED account
  /\ user' = None
  /\ UNCHANGED <<store, logins, request, xmpp>>

\* LoginVM::login(), which may be called again before the answer.
Login(a) ==
  /\ page = "login"
  /\ logins' = logins \cup {a} /\ request' = a
  /\ UNCHANGED <<page, store, user, check, account, calls, xmpp>>

LoginFails(a) ==
  /\ page = "login" /\ a \in logins
  /\ logins' = logins \ {a}
  /\ UNCHANGED <<page, store, user, check, request, account, calls, xmpp>>

\* The answer to a login: the session is saved if it can be, the main page is
\* shown, which ends the other requests, and the connection asked for.
LoginSucceeds(a) ==
  /\ page = "login" /\ a \in logins /\ Room(1)
  /\ store' \in {a, store}
  /\ page' = "main" /\ account' = a /\ logins' = {} /\ request' = None
  /\ Post([jid |-> a, password |-> request])
  /\ UNCHANGED <<user, check, xmpp>>

\* Mutant: the menu leaves the page to the state's change.
LogoutStays ==
  /\ page = "main" /\ Room(1)
  /\ store' = None /\ Post(Close)
  /\ UNCHANGED <<page, user, check, logins, request, account, xmpp>>

\* The menu's logout: the page is left even if the saved login cannot be removed.
Logout ==
  /\ page = "main" /\ Room(1)
  /\ page' = "login" /\ account' = None
  /\ \/ store' = None /\ Post(Close)
     \/ UNCHANGED <<store, calls>>
  /\ UNCHANGED <<user, check, logins, request, xmpp>>

Gui ==
  \/ CheckAuthentication \/ TokenRefreshed \/ SessionChecked
  \/ \E a \in Accounts : Login(a) \/ LoginFails(a) \/ LoginSucceeds(a)
  \/ Logout

-----------------------------------------------------------------------------
\* The XMPP thread: XmppManager.

StartConnection(p) == client' = [st |-> "connecting", with |-> p, auto |-> FALSE]

\* disconnectFromServer() ends in disconnected(), later.
Disconnect == client' = [client EXCEPT !.st = "closing", !.auto = FALSE]

ConnectToServer ==
  /\ calls # <<>> /\ Head(calls) \notin Refused \cup {Close} /\ calls' = Tail(calls)
  /\ wanted' = Head(calls)
  /\ overtaken' = (overtaken \/ timer # None)
  /\ IF client.st = "disconnected"
       THEN StartConnection(Head(calls)) /\ UNCHANGED pending
       ELSE pending' = Head(calls) /\ Disconnect
  /\ UNCHANGED <<gui, timer>>

\* connectionFailed() is emitted and the client left as it is.
RefuseConnection ==
  /\ calls # <<>> /\ Head(calls) \in Refused /\ calls' = Tail(calls)
  /\ wanted' = Head(calls)
  /\ UNCHANGED <<gui, client, pending, timer, overtaken>>

\* Mutant: the parameters that wait are kept.
CloseKeepsPending ==
  /\ calls # <<>> /\ Head(calls) = Close /\ calls' = Tail(calls)
  /\ wanted' = None
  /\ overtaken' = (overtaken \/ timer # None \/ client.auto)
  /\ IF client.st = "disconnected" THEN UNCHANGED client ELSE Disconnect
  /\ UNCHANGED <<gui, pending, timer>>

CloseConnection ==
  /\ calls # <<>> /\ Head(calls) = Close /\ calls' = Tail(calls)
  /\ wanted' = None
  /\ pending' = None
  /\ overtaken' = (overtaken \/ timer # None \/ client.auto)
  /\ IF client.st = "disconnected" THEN UNCHANGED client ELSE Disconnect
  /\ UNCHANGED <<gui, timer>>

\* Mutant: the parameters that wait are not looked at.
DisconnectedWaits(next) == client' = next /\ UNCHANGED <<pending, timer>>

\* The disconnected() handler.  A zero timer fires before another connection
\* has been made and closed, so there is one at most.
Disconnected(next) ==
  /\ client' = next
  /\ pending = None \/ timer = None
  /\ timer' = IF pending = None THEN timer ELSE pending
  /\ pending' = None

\* A connection that was closed by the client is gone.
Closed ==
  /\ client.st = "closing"
  /\ Disconnected([client EXCEPT !.st = "disconnected"])
  /\ UNCHANGED <<gui, calls, wanted, overtaken>>

\* The zero timer.
ZeroTimer ==
  /\ timer # None /\ timer' = None
  /\ IF client.st = "disconnected"
       THEN StartConnection(timer) /\ UNCHANGED pending
       ELSE pending' = timer /\ UNCHANGED client
  /\ UNCHANGED <<gui, calls, wanted, overtaken>>

-----------------------------------------------------------------------------
\* QXmppClient and the server.

Established ==
  /\ client.st = "connecting" /\ client.with.jid = client.with.password
  /\ client' = [client EXCEPT !.st = "connected"]
  /\ UNCHANGED <<gui, calls, pending, timer, wanted, overtaken>>

\* The connection is lost or refused; QXmpp reconnects after a loss.
Lost ==
  /\ client.st \in {"connecting", "connected"}
  /\ \E auto \in BOOLEAN : Disconnected([client EXCEPT !.st = "disconnected", !.auto = auto])
  /\ UNCHANGED <<gui, calls, wanted, overtaken>>

Reconnects ==
  /\ client.st = "disconnected" /\ client.auto
  /\ StartConnection(client.with)
  /\ UNCHANGED <<gui, calls, pending, timer, wanted, overtaken>>

Posted == ConnectToServer \/ RefuseConnection \/ CloseConnection
Xmpp == Posted \/ Closed \/ ZeroTimer \/ Established \/ Lost \/ Reconnects

Next == Gui \/ Xmpp

\* The event loop of the XMPP thread handles what is posted, timers fire, and a
\* connection that is being closed gets closed.
Spec ==
  /\ Init /\ [][Next]_vars
  /\ WF_vars(Posted) /\ WF_vars(Closed) /\ WF_vars(ZeroTimer)

-----------------------------------------------------------------------------

\* The types of the variables.
TypeOK ==
  /\ page \in {"loading", "login", "main"}
  /\ store \in Accounts \cup {None} /\ user \in Accounts \cup {None}
  /\ check \in {"no", "refreshing", "true", "false", "done"}
  /\ logins \subseteq Accounts /\ request \in Accounts \cup {None} /\ account \in Accounts \cup {None}
  /\ calls \in Seq(Parameters \cup {Close})
  /\ client \in [st : {"disconnected", "connecting", "connected", "closing"},
                 with : Parameters \cup {None}, auto : BOOLEAN]
  /\ pending \in Parameters \cup {None} /\ timer \in Parameters \cup {None}
  /\ wanted \in Parameters \cup {None} /\ overtaken \in BOOLEAN

Up == client.st \in {"connecting", "connected"}

\* The last call wins.  Unless it was refused, or a call was handled in the gap
\* between a disconnection and the timer or reconnection it leads to (overtaken,
\* the zero timer of xmpp_manager.cpp:279 and QXmpp's own), the client is online
\* only with the parameters of the last call, and after a close not at all.
LastCallWins ==
  /\ TypeOK
  /\ ~overtaken /\ wanted \notin Refused =>
       /\ Up => client.with = wanted
       /\ client.st = "closing" => pending = wanted
       /\ timer # None => timer = wanted /\ client.st = "disconnected"

\* What the last call posted asks for, once the calls before it are handled.
Asked == IF calls = <<>> THEN wanted ELSE IF Last(calls) = Close THEN None ELSE Last(calls)

\* While a main page is shown the XMPP thread was last asked to connect its
\* account: neither a second login nor the two requests of a session whose
\* token is refreshed leave another account's, and a logout leaves the page.
OnlineAsShown == page = "main" => account # None /\ Asked # None /\ Asked.jid = account

\* Parameters that wait for a disconnection are used or replaced.
PendingServed == (pending # None /\ ~overtaken) ~> (pending = None \/ overtaken)
=============================================================================
