------------------------------- MODULE Outbox -------------------------------
(***************************************************************************)
(* What the send queue promises: messages leave in the order in which they *)
(* were accepted, each at most once, and a message that was withdrawn      *)
(* never leaves.  A message may also be dropped, but only from the front.  *)
(***************************************************************************)
EXTENDS Naturals, Sequences

CONSTANT Jobs

VARIABLES
  line,       \* accepted and neither sent nor dropped, in order
  sent,       \* in the order they left
  withdrawn   \* the user was told they will not be sent

vars == <<line, sent, withdrawn>>

Init == line = <<>> /\ sent = <<>> /\ withdrawn = {}

Members(s) == {s[i] : i \in 1..Len(s)}
From(s, n) == SubSeq(s, n + 1, Len(s))

\* A new message goes to the end, never a second time.  Messages that will not
\* be sent may leave the front at the same time.
Accept(j) ==
  /\ j \notin Members(line) \cup Members(sent)
  /\ \E n \in 0..(Len(line) + 1) : line' = From(Append(line, j), n)
  /\ UNCHANGED <<sent, withdrawn>>

Drop ==
  /\ \E n \in 0..Len(line) : line' = From(line, n)
  /\ UNCHANGED <<sent, withdrawn>>

Send ==
  /\ line # <<>> /\ line[1] \notin withdrawn
  /\ sent' = Append(sent, line[1])
  /\ line' = From(line, 1)
  /\ UNCHANGED withdrawn

Withdraw(j) ==
  /\ j \notin Members(sent)
  /\ withdrawn' = withdrawn \cup {j}
  /\ UNCHANGED <<line, sent>>

Next ==
  \/ \E j \in Jobs : Accept(j) \/ Withdraw(j)
  \/ Drop \/ Send

Spec == Init /\ [][Next]_vars
=============================================================================
