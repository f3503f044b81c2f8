-------------------------- MODULE SessionRegister ---------------------------
(***************************************************************************)
(* What AuthStorage promises: one saved session, replaced as a whole by a  *)
(* save, changed by an update only while it exists, and gone for good after *)
(* a clear.  A request takes effect at one instant or not at all.          *)
(***************************************************************************)
CONSTANTS Sessions, NoSession
VARIABLES session, request

vars == <<session, request>>

NoRequest == [kind |-> "none", session |-> NoSession]

Init == session \in Sessions \cup {NoSession} /\ request = NoRequest

Begin ==
  /\ request = NoRequest
  /\ \/ \E s \in Sessions : request' = [kind |-> "save", session |-> s]
     \/ request' = [kind |-> "clear", session |-> NoSession]
     \/ /\ session # NoSession
        /\ \E s \in Sessions : /\ s.account = session.account
                               /\ request' = [kind |-> "update", session |-> s]
  /\ UNCHANGED session

Apply == request # NoRequest /\ session' = request.session /\ UNCHANGED request

\* The request ends, whether it was applied or not.
End == request # NoRequest /\ request' = NoRequest /\ UNCHANGED session

Next == Begin \/ Apply \/ End

Spec == Init /\ [][Next]_vars
=============================================================================
