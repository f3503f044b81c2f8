----------------------------- MODULE RecordStore -----------------------------
(***************************************************************************)
(* What LocalStorage promises its callers: a file of records that changes  *)
(* by whole inserts, updates and removals.  A request either takes effect  *)
(* at one instant or is abandoned without any effect.                      *)
(***************************************************************************)
CONSTANTS RecordIds, Contents, None
VARIABLES records, request

vars == <<records, request>>

Init == records = [r \in RecordIds |-> None] /\ request = None

\* A request names the record it is about; an insert has none yet.
Sensible(req) == req.kind \in {"update", "remove"} => records[req.id] # None

Begin ==
  /\ request = None
  /\ request' # None /\ Sensible(request')
  /\ UNCHANGED records

Content == [tag |-> request.tag, data |-> request.data]

Insert(id) ==
  /\ request.kind = "insert" /\ records[id] = None
  /\ Content \in Contents
  /\ records' = [records EXCEPT ![id] = Content]

Update(id) ==
  /\ request.kind = "update" /\ request.id = id
  /\ records[id].tag = request.tag
  /\ records' = [records EXCEPT ![id] = Content]

Remove(id) ==
  /\ request.kind = "remove" /\ request.id = id
  /\ records' = [records EXCEPT ![id] = None]

\* The request takes effect; another may follow at once, when the removal of a
\* record also changes the directory.
Apply ==
  /\ request # None
  /\ \E id \in RecordIds : Insert(id) \/ Update(id) \/ Remove(id)
  /\ request' = None \/ request'.kind \in {"insert", "update"}

Abandon == request # None /\ request' = None /\ UNCHANGED records

Next == Begin \/ Apply \/ Abandon

Spec == Init /\ [][Next]_vars
=============================================================================
