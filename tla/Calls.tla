------------------------------- MODULE Calls -------------------------------
(***************************************************************************)
(* Calls: the GUI thread with CallVM, the call window and the permissions, *)
(* and the XMPP thread with JingleService, JingleExtension and             *)
(* WebrtcClient.  Commands go from the first to the second and signals     *)
(* back, each in order.                                                    *)
(*                                                                         *)
(* A call is proposed by message, accepted by message, and then negotiated *)
(* by iq: the offer of the party that proposed, the answer, candidates of  *)
(* both.  The other parties follow that protocol; what they send arrives   *)
(* in order, at any time after what it answers.  Ringing, rejection and    *)
(* retraction change only the label of the window and are left out, as are *)
(* the video frames.                                                       *)
(***************************************************************************)
EXTENDS Integers, Sequences, WebrtcClient

CONSTANTS
  Backlog,  \* bound: commands that wait for the XMPP thread
  MaxCalls, \* bound: proposals made by either side
  MaxSids   \* bound: sessions

ASSUME CallsAssumption == Backlog \in Nat /\ MaxCalls \in Nat /\ MaxSids \in Nat

VARIABLES
  mic, cam,  \* what the system says of the microphone and the camera
  prompts,      \* permission requests under way; live until m_permissionRequest moves on
  vm,        \* CallVM and the properties of CallPage.qml
  toService, \* commands posted to the XMPP thread
  toGui,     \* signals queued for the GUI thread
  online,    \* QXmppClient::isConnected()
  sig,       \* members of JingleService, JingleExtension and JingleAction, and with: whom the
             \* started call is with, which the code does not keep
  rtc,       \* m_webrtc
  disco,     \* requests for external services without an answer, by the party that accepted
  open,      \* what the other parties still may answer, or talk about
  calls,     \* proposals made so far
  sids,      \* sessions so far
  died,      \* a null pointer was used
  agreed,    \* the user chose video for the call under way
  overlap,   \* a call began while another had not ended everywhere
  astray     \* the stanzas that went to a party they were not about

gui == <<mic, cam, prompts, vm>>
service == <<online, sig, rtc, disco, open, sids, died, agreed, overlap, astray>>
callsVars == <<mic, cam, prompts, vm, toService, toGui, online, sig, rtc, disco, open,
          calls, sids, died, agreed, overlap, astray>>

Closed == [open |-> FALSE, incoming |-> FALSE, started |-> FALSE, accepted |-> FALSE,
           receiver |-> Nil, video |-> FALSE]

CallsInit ==
  /\ mic \in {"granted", "undetermined"}
  /\ cam \in {"granted", "denied", "undetermined"}
  /\ prompts = {} /\ vm = Closed
  /\ toService = <<>> /\ toGui = <<>>
  /\ online = TRUE
  /\ sig = [recipient |-> Nil, full |-> FALSE, video |-> FALSE, started |-> FALSE,
            from |-> Nil, partner |-> Nil, sid |-> 0, with |-> Nil]
  /\ rtc = NewClient
  /\ disco = <<>> /\ open = {} /\ calls = 0 /\ sids = 0
  /\ died = FALSE /\ agreed = FALSE /\ overlap = FALSE /\ astray = {}

-----------------------------------------------------------------------------
\* The GUI thread.

Command(op, to, video) == [op |-> op, to |-> to, video |-> video]
End == Command("end", Nil, FALSE)
Reject == Command("reject", Nil, FALSE)

Post(cs) == toService' = toService \o cs
Room(n) == Len(toService) + n <= Backlog

\* ++m_permissionRequest: the requests under way will find that they are old.
Outdated == {[stage |-> a.stage, cmd |-> End, live |-> FALSE] : a \in prompts}

\* withCallPermissions(), once the microphone is granted: a video call needs the camera.
WithCamera(cmd, rest) ==
  \/ /\ cmd.video /\ cam = "undetermined"
     /\ prompts' = rest \cup {[stage |-> "camera", cmd |-> cmd, live |-> TRUE]}
     /\ UNCHANGED toService
  \/ /\ ~cmd.video \/ cam = "granted"
     /\ prompts' = rest /\ Post(<<cmd>>)
  \/ /\ cmd.video /\ cam = "denied"
     /\ prompts' = rest /\ UNCHANGED toService

WithCallPermissions(cmd) ==
  \/ /\ mic = "undetermined"
     /\ prompts' = Outdated \cup {[stage |-> "mic", cmd |-> cmd, live |-> TRUE]}
     /\ UNCHANGED toService
  \/ mic = "denied" /\ prompts' = Outdated /\ UNCHANGED toService
  \/ mic = "granted" /\ WithCamera(cmd, Outdated)

\* The user answers a prompt, at once for every prompt about the same device.
PermissionAnswered(a) ==
  /\ a \in prompts /\ Room(1)
  /\ \E granted \in BOOLEAN :
       LET status == IF granted THEN "granted" ELSE "denied" IN
       /\ IF a.stage = "mic"
          THEN mic \in {"undetermined", status} /\ mic' = status /\ UNCHANGED cam
          ELSE cam \in {"undetermined", status} /\ cam' = status /\ UNCHANGED mic
       /\ \/ /\ granted /\ a.live
             /\ IF a.stage = "mic" THEN WithCamera(a.cmd, prompts \ {a})
                                   ELSE prompts' = prompts \ {a} /\ Post(<<a.cmd>>)
          \/ /\ ~granted \/ ~a.live
             /\ prompts' = prompts \ {a} /\ UNCHANGED toService
  /\ UNCHANGED <<vm, toGui, calls, service>>

\* showCallWindow() leaves _isAcceptCall as it is.
Shown(incoming) == [vm EXCEPT !.open = TRUE, !.incoming = incoming, !.started = FALSE]

\* A proposal has come that the window does not show yet.
ProposalWaits == \E i \in 1..Len(toGui) : toGui[i].signal = "propose"

\* CallVM::requestCall(): the window for an outgoing call, and the media prepared.
RequestCall(p) ==
  /\ Room(1)
  /\ vm' = [Shown(FALSE) EXCEPT !.receiver = p]
  /\ WithCallPermissions(Command("prepare", Nil, TRUE))
  /\ overlap' = (overlap \/ ProposalWaits)
  /\ UNCHANGED <<mic, cam, toGui, calls, online, sig, rtc, disco, open, sids, died, agreed, astray>>

\* The buttons of CallOutView, then CallVM::startCall().
StartCall(video) ==
  /\ vm.open /\ ~vm.started /\ ~vm.accepted /\ ~vm.incoming /\ Room(1)
  /\ calls < MaxCalls /\ calls' = calls + 1
  /\ vm' = [vm EXCEPT !.started = TRUE]
  /\ WithCallPermissions(Command("start", vm.receiver, video))
  /\ UNCHANGED <<mic, cam, toGui, service>>

\* The buttons of InComingCallView.
Answering == vm.open /\ vm.incoming /\ ~vm.started /\ ~vm.accepted

Accept ==
  /\ Answering /\ Room(1)
  /\ vm' = [vm EXCEPT !.accepted = TRUE]
  /\ WithCallPermissions(Command("accept", Nil, vm.video))
  /\ UNCHANGED <<mic, cam, toGui, calls, service>>

\* Mutant: a permission request survives the window.
ResetKeepsAsks(first) ==
  /\ vm' = Closed /\ UNCHANGED prompts
  /\ Post(first \o <<End>>)

\* CallVM::reset(), called when the window closes.
ResetCall(first) ==
  /\ vm' = Closed /\ prompts' = Outdated
  /\ Post(first \o <<End>>)

DeclineCall ==
  /\ Answering /\ Room(2)
  /\ ResetCall(<<Reject>>)
  /\ UNCHANGED <<mic, cam, toGui, calls, service>>

\* The window is closed, or the user signs out.
CloseWindow ==
  /\ vm.open /\ Room(1)
  /\ ResetCall(<<>>)
  /\ UNCHANGED <<mic, cam, toGui, calls, service>>

\* proposeReceived: the media are prepared and the window shows the caller.
ProposeShown ==
  /\ toGui # <<>> /\ Head(toGui).signal = "propose" /\ Room(1)
  /\ vm' = [Shown(TRUE) EXCEPT !.video = Head(toGui).video]
  /\ Post(<<Command("prepare", Nil, TRUE)>>)
  /\ toGui' = Tail(toGui)
  /\ UNCHANGED <<mic, cam, prompts, calls, service>>

\* sessionTerminate: whatever call the window shows is closed.
TerminateShown ==
  /\ toGui # <<>> /\ Head(toGui).signal = "terminate" /\ Room(1)
  /\ IF vm.open THEN ResetCall(<<>>) ELSE UNCHANGED <<vm, prompts, toService>>
  /\ toGui' = Tail(toGui)
  /\ UNCHANGED <<mic, cam, calls, service>>

-----------------------------------------------------------------------------
\* The XMPP thread: commands.

Signal(s, video) == toGui' = Append(toGui, [signal |-> s, video |-> video])

Take(op) ==
  /\ toService # <<>> /\ Head(toService).op = op
  /\ toService' = Tail(toService)

\* The other party has not heard yet that the call is over, or answers late.
InFlight == disco # <<>> \/ \E r \in open : r.t \in {"proposed", "accepted"}

\* What is sent, by what the other party may do with it: answer a proposal,
\* make an offer for an acceptance, answer an offer, or end a session.
Proposal(p) == [t |-> "proposed", peer |-> p, id |-> 0]
Acceptance(p) == [t |-> "accepted", peer |-> p, id |-> 0]
SessionInitiate(p, sid) == [t |-> "offered", peer |-> p, id |-> sid]
SessionAccept(p, sid) == [t |-> "session", peer |-> p, id |-> sid]

\* A stanza that goes with r arrives.
Arrives(r, t) == online /\ r \in open /\ r.t = t

\* A stanza is sent to a party, and is about another or the same one.
Strays(stanza, to, about) == astray' = IF to = about THEN astray ELSE astray \cup {stanza}

Existing == IF rtc = Nil THEN NewClient ELSE rtc

\* prepareMedia(): TRUE with the client c prepared, or FALSE without a client.
PrepareMedia(c, video, ok) ==
  LET d == SetCameraEnabled(c, video) IN
  \/ ok /\ rtc' = Initialized(d)
  \/ ~ok /\ ~c.ready /\ rtc' = Nil

\* JingleService::prepare().
PrepareService ==
  /\ Take("prepare")
  /\ IF sig.started THEN UNCHANGED <<rtc, overlap>>
     ELSE /\ \E ok \in BOOLEAN : PrepareMedia(Prepare(Existing), FALSE, ok)
          /\ overlap' = (overlap \/ InFlight)
  /\ UNCHANGED <<gui, toGui, online, sig, disco, open, calls, sids, died, agreed, astray>>

\* JingleService::startCall(): refused offline; otherwise the media, then the proposal.
StartService ==
  /\ Take("start")
  /\ LET c == Head(toService) IN
     IF ~online THEN UNCHANGED <<sig, rtc, open, agreed, overlap>>
     ELSE \E ok \in BOOLEAN :
       /\ PrepareMedia(Existing, c.video, ok)
       /\ sig' = [sig EXCEPT !.recipient = c.to, !.full = FALSE, !.video = c.video,
                             !.started = @ \/ ok, !.partner = IF ok THEN c.to ELSE @,
                             !.with = IF ok THEN c.to ELSE @]
       /\ open' = IF ok THEN open \cup {Proposal(c.to)} ELSE open
       /\ agreed' = (agreed \/ c.video)
       /\ overlap' = (overlap \/ sig.started \/ InFlight)
  /\ UNCHANGED <<gui, toGui, online, disco, calls, sids, died, astray>>

\* JingleService::acceptCall(): the acceptance goes to whoever proposed last.
AcceptService ==
  /\ Take("accept")
  /\ IF ~online THEN UNCHANGED <<sig, rtc, open, agreed>>
     ELSE \E ok \in BOOLEAN :
       /\ PrepareMedia(Existing, sig.video, ok)
       /\ sig' = [sig EXCEPT !.started = @ \/ ok, !.with = IF ok THEN sig.from ELSE @]
       /\ open' = IF ok /\ sig.from # Nil
                  THEN open \cup {Acceptance(sig.from)} ELSE open
       /\ agreed' = (agreed \/ Head(toService).video)
  /\ UNCHANGED <<gui, toGui, online, disco, calls, sids, died, overlap, astray>>

\* JingleExtension::sessionTerminate(), of a started call: to m_sessionSender, which
\* acceptCall() does not set and endCall() does not clear.  Until session-initiate comes
\* it is a party of an earlier call ("early").
SessionTerminate ==
  IF sig.started /\ online /\ sig.partner # Nil
  THEN Strays(IF Acceptance(sig.with) \in open THEN "early" ELSE "terminate", sig.partner, sig.with)
  ELSE UNCHANGED astray

\* Mutant: the client is kept for the next call.
EndKeepsClient ==
  /\ Take("end") /\ SessionTerminate
  /\ sig' = [sig EXCEPT !.started = FALSE, !.with = Nil] /\ agreed' = FALSE
  /\ rtc' = IF rtc = Nil THEN Nil ELSE SetCameraEnabled(rtc, FALSE)
  /\ UNCHANGED <<gui, toGui, online, disco, open, calls, sids, died, overlap>>

\* JingleService::endCall().  The other party still may send what it has on its way.
EndService ==
  /\ Take("end") /\ SessionTerminate
  /\ sig' = [sig EXCEPT !.started = FALSE, !.with = Nil] /\ rtc' = Nil /\ agreed' = FALSE
  /\ UNCHANGED <<gui, toGui, online, disco, open, calls, sids, died, overlap>>

\* JingleService::rejectCall() does nothing offline.
RejectService ==
  /\ Take("reject")
  /\ IF online THEN sig' = [sig EXCEPT !.started = FALSE, !.with = Nil] /\ rtc' = Nil
               ELSE UNCHANGED <<sig, rtc>>
  /\ UNCHANGED <<gui, toGui, online, disco, open, calls, sids, died, agreed, overlap, astray>>

-----------------------------------------------------------------------------
\* The XMPP thread: stanzas, and what WebRTC reports.

\* A proposal replaces the one before, and decides about video.
Proposed(p, video) == [sig EXCEPT !.from = p, !.video = video]

\* JingleMessage::parse() found a proposal; the ringing that is sent back changes nothing.
ProposeReceived(p, video) ==
  /\ online /\ calls < MaxCalls /\ Len(toGui) < Backlog
  /\ sig' = Proposed(p, video)
  /\ calls' = calls + 1
  /\ Signal("propose", video)
  /\ overlap' = (overlap \/ sig.started \/ InFlight \/ vm.open \/ toService # <<>> \/ ProposalWaits)
  /\ UNCHANGED <<gui, toService, online, rtc, disco, open, sids, died, agreed, astray>>

\* An acceptance: only the bare jid of the sender is compared.
AcceptReceived(r) ==
  /\ Arrives(r, "proposed")
  /\ open' = open \ {r}
  /\ IF r.peer = sig.recipient
     THEN sig' = [sig EXCEPT !.full = TRUE] /\ disco' = Append(disco, r.peer)
     ELSE UNCHANGED <<sig, disco>>
  /\ UNCHANGED <<gui, toService, toGui, online, rtc, calls, sids, died, agreed, overlap, astray>>

\* Mutant: the client is used without a look.
ServicesUnchecked ==
  /\ online /\ disco # <<>> /\ disco' = Tail(disco)
  /\ \/ UNCHANGED <<rtc, died>>
     \/ rtc = Nil /\ died' = TRUE /\ UNCHANGED rtc
     \/ /\ rtc # Nil /\ CanConnect(rtc)
        /\ rtc' = Negotiating(rtc, Head(disco), "offer") /\ UNCHANGED died
  /\ UNCHANGED <<gui, toService, toGui, online, sig, open, calls, sids, agreed, overlap, astray>>

\* The services are known, or the request failed: a connection and its offer.
ServicesReceived ==
  /\ online /\ disco # <<>> /\ disco' = Tail(disco)
  /\ \/ UNCHANGED rtc
     \/ /\ rtc # Nil /\ CanConnect(rtc)
        /\ rtc' = Negotiating(rtc, Head(disco), "offer")
  /\ UNCHANGED <<gui, toService, toGui, online, sig, open, calls, sids, died, agreed, overlap, astray>>

\* The offer is made: session-initiate to the recipient of the moment.  Without
\* a resource in its jid the iq reaches no one.
OfferReady ==
  /\ rtc # Nil /\ rtc.pending = "offer" /\ rtc' = Described(rtc)
  /\ \/ UNCHANGED <<sig, open, sids, astray>>
     \/ /\ online /\ sids < MaxSids /\ sids' = sids + 1
        /\ sig' = [sig EXCEPT !.partner = sig.recipient, !.sid = sids + 1]
        /\ open' = IF sig.full THEN open \cup {SessionInitiate(sig.recipient, sids + 1)} ELSE open
        /\ Strays("offer", sig.recipient, rtc.peer)
  /\ UNCHANGED <<gui, toService, toGui, online, disco, calls, died, agreed, overlap>>

\* session-initiate of a party whose proposal was accepted.
OfferReceived(r, video) ==
  /\ Arrives(r, "accepted") /\ sids < MaxSids /\ sids' = sids + 1
  /\ open' = (open \ {r}) \cup {SessionAccept(r.peer, sids + 1)}
  /\ sig' = [sig EXCEPT !.partner = r.peer, !.sid = sids + 1]
  /\ IF rtc = Nil THEN UNCHANGED rtc
     ELSE LET c == SetCameraEnabled(rtc, sig.video /\ video) IN
          \/ rtc' = c
          \/ CanConnect(c) /\ rtc' = Negotiating(c, r.peer, "answer")
  /\ UNCHANGED <<gui, toService, toGui, online, disco, calls, died, agreed, overlap, astray>>

\* Mutant: the answer goes to the party that is called.
AnswerToRecipient ==
  /\ rtc # Nil /\ rtc.pending = "answer" /\ rtc' = Described(rtc)
  /\ \/ UNCHANGED astray
     \/ online /\ Strays("answer", sig.recipient, rtc.peer)
  /\ UNCHANGED <<gui, toService, toGui, online, sig, disco, open, calls, sids, died, agreed, overlap>>

\* The answer is made: session-accept to m_sessionSender.
AnswerReady ==
  /\ rtc # Nil /\ rtc.pending = "answer" /\ rtc' = Described(rtc)
  /\ \/ UNCHANGED astray
     \/ online /\ Strays("answer", sig.partner, rtc.peer)
  /\ UNCHANGED <<gui, toService, toGui, online, sig, disco, open, calls, sids, died, agreed, overlap>>

\* session-accept: applied if the session is the current one.
AnswerReceived(r) ==
  /\ Arrives(r, "offered")
  /\ open' = (open \ {r}) \cup {SessionAccept(r.peer, r.id)}
  /\ UNCHANGED <<gui, toService, toGui, online, sig, rtc, disco, calls, sids, died, agreed, overlap, astray>>

\* A local candidate, found after the description was set: exchangeIceCandidate() makes
\* no iq without a session; it goes to m_sessionSender.
CandidateFound ==
  /\ rtc # Nil /\ rtc.peer # Nil /\ rtc.pending = "none" /\ online
  /\ IF sig.sid = 0 THEN UNCHANGED astray ELSE Strays("candidate", sig.partner, rtc.peer)
  /\ UNCHANGED <<gui, toService, toGui, online, sig, rtc, disco, open, calls, sids, died, agreed, overlap>>

\* A candidate of the other party: the client is used without a look.
CandidateReceived(r) ==
  /\ Arrives(r, "session") /\ r.id = sig.sid
  /\ died' = (rtc = Nil)
  /\ UNCHANGED <<gui, toService, toGui, online, sig, rtc, disco, open, calls, sids, agreed, overlap, astray>>

\* session-terminate, of whatever session.
TerminateReceived(r) ==
  /\ (Arrives(r, "offered") \/ Arrives(r, "session")) /\ Len(toGui) < Backlog
  /\ open' = open \ {r}
  /\ Signal("terminate", FALSE)
  /\ UNCHANGED <<gui, toService, online, sig, rtc, disco, calls, sids, died, agreed, overlap, astray>>

\* The state of the peer connection changed: the camera is told once more.
ConnectionChanged ==
  /\ rtc # Nil /\ rtc.peer # Nil
  /\ rtc' = UpdateCameraCapture(rtc)
  /\ UNCHANGED <<gui, toService, toGui, online, sig, disco, open, calls, sids, died, agreed, overlap, astray>>

\* The camera's thread.
CameraThread ==
  /\ rtc # Nil
  /\ CameraTurns(rtc, rtc') \/ CameraFails(rtc, rtc')
  /\ UNCHANGED <<gui, toService, toGui, online, sig, disco, open, calls, sids, died, agreed, overlap, astray>>

Network ==
  /\ online' = ~online
  /\ UNCHANGED <<gui, toService, toGui, sig, rtc, disco, open, calls, sids, died, agreed, overlap, astray>>

-----------------------------------------------------------------------------
User ==
  \/ \E p \in Peers : RequestCall(p)
  \/ \E video \in BOOLEAN : StartCall(video)
  \/ Accept \/ DeclineCall \/ CloseWindow
  \/ \E a \in prompts : PermissionAnswered(a)

Gui == ProposeShown \/ TerminateShown

Service ==
  PrepareService \/ StartService \/ AcceptService \/ EndService \/ RejectService

Peer ==
  \/ \E p \in Peers, video \in BOOLEAN : ProposeReceived(p, video)
  \/ \E r \in open : \/ AcceptReceived(r) \/ AnswerReceived(r)
                     \/ CandidateReceived(r) \/ TerminateReceived(r)
                     \/ \E video \in BOOLEAN : OfferReceived(r, video)
  \/ ServicesReceived

Media == OfferReady \/ AnswerReady \/ CandidateFound \/ ConnectionChanged \/ CameraThread

\* A process that used a null pointer does nothing any more.
CallsNext == ~died /\ (User \/ Gui \/ Service \/ Peer \/ Media \/ Network)

CallsSpec == CallsInit /\ [][CallsNext]_callsVars

-----------------------------------------------------------------------------
Commands == [op : {"prepare", "start", "accept", "end", "reject"},
             to : Peers \cup {Nil}, video : BOOLEAN]

\* The types of the variables; a call is only started for somebody.
CallsTypeOK ==
  /\ mic \in {"granted", "undetermined", "denied"}
  /\ cam \in {"granted", "undetermined", "denied"}
  /\ prompts \subseteq [stage : {"mic", "camera"}, cmd : Commands, live : BOOLEAN]
  /\ vm \in [open : BOOLEAN, incoming : BOOLEAN, started : BOOLEAN, accepted : BOOLEAN,
             receiver : Peers \cup {Nil}, video : BOOLEAN]
  /\ toService \in Seq(Commands) /\ Len(toService) <= Backlog
  /\ \A i \in 1..Len(toService) : toService[i].op = "start" => toService[i].to \in Peers
  /\ toGui \in Seq([signal : {"propose", "terminate"}, video : BOOLEAN])
  /\ sig \in [recipient : Peers \cup {Nil}, full : BOOLEAN, video : BOOLEAN, started : BOOLEAN,
              from : Peers \cup {Nil}, partner : Peers \cup {Nil}, sid : 0..MaxSids,
              with : Peers \cup {Nil}]
  /\ rtc \in Clients \cup {Nil}
  /\ disco \in Seq(Peers)
  /\ open \subseteq [t : {"proposed", "accepted", "offered", "session"}, peer : Peers, id : 0..MaxSids]
  /\ calls \in 0..MaxCalls /\ sids \in 0..MaxSids
  /\ online \in BOOLEAN /\ died \in BOOLEAN
  /\ agreed \in BOOLEAN /\ overlap \in BOOLEAN
  /\ astray \subseteq {"offer", "answer", "candidate", "terminate", "early"}

\* The camera is on only in a call for which the user chose video, as long as
\* calls do not overlap: not while it rings, and not because of an offer alone.
CameraAgreed == rtc # Nil /\ rtc.capture = "on" => agreed \/ overlap

\* What is said about a connection is said to the party it is with, and the end of a call
\* to the party of that call, as long as calls do not overlap: the members that hold the
\* addresses are shared by all calls.  One stanza is not kept to it by the code: the end of
\* a call that was accepted and whose session-initiate has not come.
NothingAstray == CallsTypeOK /\ (~overlap => astray \subseteq {"early"})

\* There is a connection only in a call, as long as calls do not overlap: a
\* party that answers a call that ended finds nobody.
ConnectedInCall == rtc # Nil /\ rtc.peer # Nil => sig.started \/ overlap

\* Neither the other side nor an answer that comes late turns on what the user
\* did not ask for: the conjunction of the two.
OnlyInCall == CameraAgreed /\ ConnectedInCall

\* Quiet: no call, no connection and no camera.
Quiet == ~sig.started /\ (rtc # Nil => rtc.peer = Nil /\ ~rtc.camera /\ rtc.capture # "on")

\* With the window closed and nothing on its way between the threads, all is
\* quiet, however late permissions were answered.
QuietWhenClosed ==
  ~vm.open /\ toService = <<>> /\ toGui = <<>> => Quiet

\* The client is used without one only for a candidate of the current session
\* that arrives after the call ended here and before it ended there.
DiesOnlyByCandidate ==
  died => ~sig.started /\ rtc = Nil /\ \E r \in open : r.t = "session" /\ r.id = sig.sid
=============================================================================
