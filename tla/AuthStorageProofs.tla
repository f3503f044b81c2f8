-------------------------- MODULE AuthStorageProofs --------------------------
(***************************************************************************)
(* AuthStorage implements SessionRegister, for every set of accounts,      *)
(* tokens and legacy files, as long as the index can be read when it is    *)
(* there.                                                                  *)
(***************************************************************************)
EXTENDS AuthStorage, TLAPS

\* A snapshot is filed under its own account.
SnapshotsFiled == \A a \in Accounts : snap[a] \in Sessions => snap[a].account = a

\* The index as writeSession() and clear() found it is still there.
IndexKnown == op.previous = IF index = Damaged THEN Absent ELSE index

\* What an operation relies on when it touches its next file.
WriteSound ==
  op.step \in {"snapshot", "index", "undo"} =>
    /\ op.kind \in {"save", "update", "migrate"}
    /\ op.session \in Sessions
    /\ IndexKnown
    /\ op.step # "snapshot" =>
         op.previous # op.session.account /\ snap[op.session.account] = op.session
    /\ op.kind = "migrate" => index = Absent /\ FirstLegacy = op.session
    /\ op.kind = "update" => op.previous = op.session.account

StepSound ==
  /\ op.kind = "none" => op = Idle
  /\ op.step = "none" => op.kind = "none"
  /\ op.step = "logout" => op.kind = "clear" /\ op.session = NoSession
  /\ op.step = "previous" => op.previous \in Accounts /\ op.previous # index
  /\ op.step \in {"previous", "legacies"} => index # Absent
  /\ op.then # NoSession =>
       /\ op.kind = "migrate" /\ op.then.account = op.session.account
       /\ op.step \in {"snapshot", "index", "undo", "previous", "legacies"}
       /\ op.session \in Sessions
       /\ op.step \in {"previous", "legacies"} => index = op.session.account

AuthInv == TypeOK /\ IndexNamesSnapshot /\ SnapshotsFiled /\ WriteSound /\ StepSound

-----------------------------------------------------------------------------
\* A legacy snapshot that is found is a session.
LEMMA FirstLegacyType == TypeOK => FirstLegacy \in Sessions \cup {NoSession}
  <1> SUFFICES ASSUME TypeOK PROVE FirstLegacy \in Sessions \cup {NoSession}
    OBVIOUS
  <1> DEFINE present == {l \in LegacyPaths : legacy[l] # NoSession}
             first == CHOOSE l \in present : \A m \in present : l <= m
  <1>1. CASE \E l \in present : (\A m \in present : l <= m) /\ legacy[l] # Damaged
    <2>1. PICK l \in present : (\A m \in present : l <= m) /\ legacy[l] # Damaged
      BY <1>1
    <2>2. first \in present /\ \A m \in present : first <= m
      BY <2>1
    <2>3. first = l
      <3>1. first \in Nat /\ l \in Nat
        BY <2>1, <2>2, AuthAssumption
      <3>2. first <= l /\ l <= first
        BY <2>1, <2>2
      <3>3. QED BY <3>1, <3>2
    <2>4. legacy[first] \in Sessions
      BY <2>1, <2>3 DEF TypeOK, Snapshots
    <2>5. QED BY <1>1, <2>4 DEF FirstLegacy
  <1>2. CASE ~\E l \in present : (\A m \in present : l <= m) /\ legacy[l] # Damaged
    BY <1>2 DEF FirstLegacy
  <1>3. QED BY <1>1, <1>2

\* What is stored is a session of the account the index names.
LEMMA StoredType ==
  ASSUME AuthInv
  PROVE  /\ Stored \in Sessions \cup {NoSession}
         /\ index \in Accounts /\ Stored # NoSession => Stored.account = index
  <1>1. CASE index = Absent
    <2>1. Stored = FirstLegacy /\ index \notin Accounts
      BY <1>1, AuthAssumption DEF Stored
    <2>2. QED BY <2>1, FirstLegacyType DEF AuthInv
  <1>2. CASE index \in Accounts
    <2>1. Stored = IF snap[index] = Damaged THEN NoSession ELSE snap[index]
      BY <1>2, AuthAssumption DEF Stored
    <2>2. snap[index] \in Sessions \cup {Damaged}
      BY <1>2 DEF AuthInv, TypeOK, Snapshots, IndexNamesSnapshot
    <2>3. QED BY <1>2, <2>1, <2>2 DEF AuthInv, SnapshotsFiled
  <1>3. CASE index \notin Accounts /\ index # Absent
    <2>1. Stored = NoSession
      BY <1>3 DEF Stored
    <2>2. QED BY <1>3, <2>1
  <1>4. QED BY <1>1, <1>2, <1>3

\* A new installation satisfies the invariant.
LEMMA InitAuth == Init => AuthInv
  <1> SUFFICES ASSUME Init PROVE AuthInv
    OBVIOUS
  <1>1. TypeOK
    BY DEF Init, TypeOK, IndexValues, Snapshots, Idle, OpOf, Ops, Steps
  <1>2. IndexNamesSnapshot /\ SnapshotsFiled
    BY AuthAssumption DEF Init, IndexNamesSnapshot, SnapshotsFiled
  <1>3. WriteSound /\ StepSound
    BY DEF Init, WriteSound, StepSound, Idle, OpOf
  <1>4. QED BY <1>1, <1>2, <1>3 DEF AuthInv
\* Beginning an operation touches no file; writeSession() and clear() know the
\* index they found.
LEMMA BeginAuth ==
  ASSUME AuthInv, UnreadableIndex = FALSE,
         Read \/ Clear \/ (\E t \in Tokens : Update(t))
           \/ \E s \in Sessions, p \in IndexValues : Save(s, p)
  PROVE  AuthInv'
  <1> USE DEF AuthInv
  <1>0. /\ UNCHANGED <<index, snap, legacy>>
        /\ FirstLegacy' = FirstLegacy
    <2>1. UNCHANGED <<index, snap, legacy>>
      BY DEF Read, Clear, Update, Save
    <2>2. QED BY <2>1 DEF FirstLegacy
  <1>1. IndexNamesSnapshot' /\ SnapshotsFiled'
    BY <1>0 DEF IndexNamesSnapshot, SnapshotsFiled
  <1>2. SUFFICES op' \in Ops /\ WriteSound' /\ StepSound'
    BY <1>0, <1>1 DEF TypeOK
  <1>3. CASE Read
    <2>1. FirstLegacy \in Sessions
      BY <1>3, FirstLegacyType DEF Read
    <2>2. op' = OpOf("migrate", "snapshot", FirstLegacy, Absent, NoSession) /\ index = Absent
      BY <1>3 DEF Read
    <2>3. op' \in Ops
      BY <2>1, <2>2 DEF Ops, OpOf, Steps, IndexValues
    <2>4. WriteSound' /\ StepSound'
      BY <1>0, <2>1, <2>2, AuthAssumption DEF OpOf, WriteSound, StepSound, IndexKnown
    <2>5. QED BY <2>3, <2>4
  <1>4. CASE Clear
    <2>1. op' = OpOf("clear", "logout", NoSession, index, NoSession)
      BY <1>4 DEF Clear
    <2>2. op' \in Ops
      BY <2>1 DEF Ops, OpOf, Steps, TypeOK
    <2>3. WriteSound' /\ StepSound'
      BY <2>1 DEF OpOf, WriteSound, StepSound
    <2>4. QED BY <2>2, <2>3
  <1>5. ASSUME NEW t \in Tokens, Update(t) PROVE op' \in Ops /\ WriteSound' /\ StepSound'
    <2> DEFINE new == [Stored EXCEPT !.token = t]
    <2>1. Stored \in Sessions
      BY <1>5, StoredType DEF Update
    <2>2. new \in Sessions /\ new.account = Stored.account
      BY <2>1 DEF Sessions
    <2>3. CASE index = Absent
      <3>1. op' = OpOf("migrate", "snapshot", Stored, Absent, new) /\ Stored = FirstLegacy
        BY <1>5, <2>3 DEF Update, Stored
      <3>2. op' \in Ops
        BY <2>1, <2>2, <3>1 DEF Ops, OpOf, Steps, IndexValues
      <3>3. WriteSound' /\ StepSound'
        BY <1>0, <2>1, <2>2, <2>3, <3>1, AuthAssumption
           DEF OpOf, WriteSound, StepSound, IndexKnown
      <3>4. QED BY <3>2, <3>3
    <2>4. CASE index # Absent
      <3>1. op' = OpOf("update", "snapshot", new, index, NoSession)
        BY <1>5, <2>4 DEF Update
      <3>2. index \in Accounts /\ Stored.account = index
        BY <1>5, <2>4, StoredType DEF Update, Stored
      <3>3. op' \in Ops
        BY <2>2, <3>1 DEF Ops, OpOf, Steps, TypeOK
      <3>4. WriteSound' /\ StepSound'
        BY <1>0, <2>2, <3>1, <3>2, AuthAssumption DEF OpOf, WriteSound, StepSound, IndexKnown
      <3>5. QED BY <3>3, <3>4
    <2>5. QED BY <2>3, <2>4
  <1>6. ASSUME NEW s \in Sessions, NEW p \in IndexValues, Save(s, p)
        PROVE  op' \in Ops /\ WriteSound' /\ StepSound'
    <2>1. /\ op' = OpOf("save", "snapshot", s, p, NoSession)
          /\ p = IF index = Damaged THEN Absent ELSE index
      BY <1>6 DEF Save, Previous
    <2>2. op' \in Ops
      BY <2>1 DEF Ops, OpOf, Steps
    <2>3. WriteSound' /\ StepSound'
      BY <1>0, <2>1, AuthAssumption DEF OpOf, WriteSound, StepSound, IndexKnown
    <2>4. QED BY <2>2, <2>3
  <1>7. QED BY <1>3, <1>4, <1>5, <1>6

\* The type of the operation survives a change of its step.
LEMMA GotoType ==
  ASSUME TypeOK, NEW step \in Steps, Goto(step)
  PROVE  /\ op' \in Ops /\ op'.step = step /\ op'.kind = op.kind
         /\ op'.session = op.session /\ op'.previous = op.previous /\ op'.then = op.then
  BY DEF TypeOK, Goto, Ops

\* The account of a session.
LEMMA SessionAccount == \A s \in Sessions : s.account \in Accounts
  BY DEF Sessions

\* Committing a snapshot: only the account's own snapshot changes.
LEMMA SnapshotAuth == ASSUME AuthInv, WriteSnapshot PROVE AuthInv'
  <1> USE DEF AuthInv
  <1> DEFINE a == op.session.account
             next == IF op.previous = a THEN "legacies" ELSE "index"
  <1>1. /\ op.step = "snapshot" /\ op.session \in Sessions /\ a \in Accounts
        /\ op.kind \in {"save", "update", "migrate"} /\ IndexKnown
        /\ op.kind = "migrate" => index = Absent /\ FirstLegacy = op.session
        /\ op.kind = "update" => op.previous = a
    BY SessionAccount DEF WriteSnapshot, WriteSound
  <1>2. /\ snap' = [snap EXCEPT ![a] = op.session] /\ index' = index /\ legacy' = legacy
        /\ FirstLegacy' = FirstLegacy /\ next \in Steps
    BY DEF WriteSnapshot, FirstLegacy, Steps
  <1>3. /\ op' \in Ops /\ op'.step = next /\ op'.kind = op.kind
        /\ op'.session = op.session /\ op'.previous = op.previous /\ op'.then = op.then
    BY <1>2, GotoType DEF WriteSnapshot
  <1>4. TypeOK'
    BY <1>1, <1>2, <1>3 DEF TypeOK, Snapshots
  <1>5. snap'[a] = op.session /\ \A b \in Accounts : b # a => snap'[b] = snap[b]
    BY <1>1, <1>2 DEF TypeOK
  <1>6. IndexNamesSnapshot'
    BY <1>1, <1>2, <1>5, AuthAssumption DEF IndexNamesSnapshot
  <1>7. SnapshotsFiled'
    BY <1>1, <1>5 DEF SnapshotsFiled
  <1>8. WriteSound'
    BY <1>1, <1>2, <1>3, <1>5 DEF WriteSound, IndexKnown
  <1>9. op.previous = a => index = a
    BY <1>1, AuthAssumption DEF IndexKnown
  <1>10. StepSound'
    BY <1>1, <1>2, <1>3, <1>9, AuthAssumption DEF StepSound
  <1>11. QED BY <1>4, <1>6, <1>7, <1>8, <1>10

\* Committing the index: it names an account whose snapshot was just written.
LEMMA IndexAuth == ASSUME AuthInv, WriteIndex \/ WriteLogout PROVE AuthInv'
  <1> USE DEF AuthInv
  <1>1. AfterIndex \in Steps /\ AfterIndex \in {"previous", "legacies"}
        /\ (AfterIndex = "previous" => op.previous \in Accounts)
    BY DEF AfterIndex, Steps
  <1>2. /\ op' \in Ops /\ op'.step = AfterIndex /\ op'.kind = op.kind
        /\ op'.session = op.session /\ op'.previous = op.previous /\ op'.then = op.then
        /\ snap' = snap /\ legacy' = legacy
    BY <1>1, GotoType DEF WriteIndex, WriteLogout
  <1>3. WriteSound'
    BY <1>1, <1>2 DEF WriteSound
  <1>4. CASE WriteIndex
    <2>1. /\ op.step = "index" /\ op.session \in Sessions /\ index' = op.session.account
          /\ op.session.account \in Accounts /\ op.previous # op.session.account
          /\ snap[op.session.account] = op.session
          /\ op.kind \in {"save", "update", "migrate"}
      BY <1>4, SessionAccount DEF WriteIndex, WriteSound
    <2>2. TypeOK' /\ IndexNamesSnapshot' /\ SnapshotsFiled'
      BY <1>2, <2>1, AuthAssumption DEF TypeOK, IndexValues, IndexNamesSnapshot, SnapshotsFiled
    <2>3. StepSound'
      BY <1>1, <1>2, <2>1, AuthAssumption DEF StepSound
    <2>4. QED BY <1>3, <2>2, <2>3
  <1>5. CASE WriteLogout
    <2>1. op.step = "logout" /\ index' = LoggedOut /\ op.kind = "clear"
      BY <1>5 DEF WriteLogout, StepSound
    <2>2. TypeOK' /\ IndexNamesSnapshot' /\ SnapshotsFiled'
      BY <1>2, <2>1, AuthAssumption DEF TypeOK, IndexValues, IndexNamesSnapshot, SnapshotsFiled
    <2>3. StepSound'
      BY <1>1, <1>2, <2>1, AuthAssumption DEF StepSound
    <2>4. QED BY <1>3, <2>2, <2>3
  <1>6. QED BY <1>4, <1>5

\* Removing a snapshot: never the one the index names.
LEMMA RemoveAuth == ASSUME AuthInv, UndoSnapshot \/ RemovePrevious PROVE AuthInv'
  <1> USE DEF AuthInv
  <1>1. index' = index /\ legacy' = legacy
    BY DEF UndoSnapshot, RemovePrevious
  <1>2. ASSUME NEW a \in Accounts, a # index, snap' \in {snap, [snap EXCEPT ![a] = NoSession]}
        PROVE  /\ snap' \in [Accounts -> Snapshots] /\ IndexNamesSnapshot' /\ SnapshotsFiled'
    <2>1. snap' \in [Accounts -> Snapshots]
      BY <1>2 DEF TypeOK, Snapshots
    <2>2. \A b \in Accounts : snap'[b] = snap[b] \/ (b = a /\ snap'[b] = NoSession)
      BY <1>2 DEF TypeOK
    <2>3. QED BY <1>1, <1>2, <2>1, <2>2, AuthAssumption DEF IndexNamesSnapshot, SnapshotsFiled
  <1>3. CASE UndoSnapshot
    <2>1. /\ op.session.account \in Accounts /\ op.session.account # index
          /\ snap' = [snap EXCEPT ![op.session.account] = NoSession] /\ op' = Idle
      BY <1>3, SessionAccount, AuthAssumption DEF UndoSnapshot, WriteSound, IndexKnown
    <2>2. op' \in Ops /\ WriteSound' /\ StepSound'
      BY <2>1 DEF Idle, OpOf, Ops, Steps, IndexValues, WriteSound, StepSound
    <2>3. QED BY <1>1, <1>2, <2>1, <2>2 DEF TypeOK
  <1>4. CASE RemovePrevious
    <2>1. /\ op.previous \in Accounts /\ op.previous # index /\ op.step = "previous"
          /\ snap' \in {snap, [snap EXCEPT ![op.previous] = NoSession]}
      BY <1>4 DEF RemovePrevious, StepSound
    <2>2. /\ op' \in Ops /\ op'.step = "legacies" /\ op'.kind = op.kind
          /\ op'.session = op.session /\ op'.previous = op.previous /\ op'.then = op.then
      BY <1>4, GotoType DEF RemovePrevious, Steps
    <2>3. WriteSound' /\ StepSound'
      BY <1>1, <2>1, <2>2 DEF WriteSound, StepSound, Idle, OpOf
    <2>4. QED BY <1>1, <1>2, <2>1, <2>2, <2>3 DEF TypeOK
  <1>5. QED BY <1>3, <1>4

\* The legacy files go once an index is there; an update then goes on.
LEMMA LegaciesAuth == ASSUME AuthInv, RemoveLegacies PROVE AuthInv'
  <1> USE DEF AuthInv
  <1>1. op.step = "legacies" /\ index' = index /\ snap' = snap /\ index # Absent
    BY DEF RemoveLegacies, StepSound
  <1>2. legacy' \in [LegacyPaths -> Snapshots]
    BY DEF RemoveLegacies, TypeOK, Snapshots
  <1>3. IndexNamesSnapshot' /\ SnapshotsFiled'
    BY <1>1 DEF IndexNamesSnapshot, SnapshotsFiled
  <1>4. CASE op.then = NoSession
    <2>1. op' = Idle BY <1>4 DEF RemoveLegacies
    <2>2. op' \in Ops /\ WriteSound' /\ StepSound'
      BY <2>1 DEF Idle, OpOf, Ops, Steps, IndexValues, WriteSound, StepSound
    <2>3. QED BY <1>1, <1>2, <1>3, <2>2 DEF TypeOK
  <1>5. CASE op.then # NoSession
    <2>1. op' = OpOf("update", "snapshot", op.then, index, NoSession)
      BY <1>5 DEF RemoveLegacies
    <2>2. op.then \in Sessions /\ index = op.then.account
      BY <1>1, <1>5 DEF StepSound, TypeOK, Ops
    <2>3. op' \in Ops
      BY <2>1, <2>2 DEF OpOf, Ops, Steps, TypeOK
    <2>4. WriteSound' /\ StepSound'
      BY <1>1, <2>1, <2>2, SessionAccount, AuthAssumption
         DEF OpOf, WriteSound, StepSound, IndexKnown
    <2>5. QED BY <1>1, <1>2, <1>3, <2>3, <2>4 DEF TypeOK
  <1>6. QED BY <1>4, <1>5

\* Failing and dying change no file.
LEMMA StopAuth == ASSUME AuthInv, Interrupted \/ IndexFails PROVE AuthInv'
  <1> USE DEF AuthInv
  <1>1. index' = index /\ snap' = snap /\ legacy' = legacy /\ FirstLegacy' = FirstLegacy
    <2>1. UNCHANGED <<index, snap, legacy>>
      BY DEF Interrupted, IndexFails
    <2>2. QED BY <2>1 DEF FirstLegacy
  <1>2. IndexNamesSnapshot' /\ SnapshotsFiled'
    BY <1>1 DEF IndexNamesSnapshot, SnapshotsFiled
  <1>3. CASE Interrupted
    <2>1. op' = Idle BY <1>3 DEF Interrupted
    <2>2. op' \in Ops /\ WriteSound' /\ StepSound'
      BY <2>1 DEF Idle, OpOf, Ops, Steps, IndexValues, WriteSound, StepSound
    <2>3. QED BY <1>1, <1>2, <2>2 DEF TypeOK
  <1>4. CASE IndexFails
    <2>1. /\ op' \in Ops /\ op'.step = "undo" /\ op'.kind = op.kind /\ op.step = "index"
          /\ op'.session = op.session /\ op'.previous = op.previous /\ op'.then = op.then
      BY <1>4, GotoType DEF IndexFails, Steps
    <2>2. WriteSound' /\ StepSound'
      BY <1>1, <2>1 DEF WriteSound, StepSound, IndexKnown
    <2>3. QED BY <1>1, <1>2, <2>1, <2>2 DEF TypeOK
  <1>5. QED BY <1>3, <1>4

\* Every step keeps the invariant when the index can be read.
LEMMA NextAuth == ASSUME UnreadableIndex = FALSE PROVE AuthInv /\ [Next]_vars => AuthInv'
  <1> SUFFICES ASSUME AuthInv, [Next]_vars PROVE AuthInv'
    OBVIOUS
  <1>1. CASE UNCHANGED vars
    BY <1>1 DEF vars, AuthInv, TypeOK, IndexNamesSnapshot, SnapshotsFiled, WriteSound, StepSound,
                IndexKnown, FirstLegacy
  <1>2. CASE Next
    BY <1>2, BeginAuth, SnapshotAuth, IndexAuth, RemoveAuth, LegaciesAuth, StopAuth DEF Next
  <1>3. QED BY <1>1, <1>2

\* AuthInv holds in every reachable state.
THEOREM AuthInductive == ASSUME UnreadableIndex = FALSE PROVE Spec => []AuthInv
  BY InitAuth, NextAuth, PTL DEF Spec

\* Every variable keeps its type.
THEOREM AuthTypeCorrect == ASSUME UnreadableIndex = FALSE PROVE Spec => []TypeOK
  <1>1. AuthInv => TypeOK BY DEF AuthInv
  <1>2. QED BY <1>1, AuthInductive, PTL

\* writeSession() and clear() order their file operations so that the index
\* never names a missing snapshot.
THEOREM IndexAlwaysNamesSnapshot ==
  ASSUME UnreadableIndex = FALSE PROVE Spec => []IndexNamesSnapshot
  <1>1. AuthInv => IndexNamesSnapshot BY DEF AuthInv
  <1>2. QED BY <1>1, AuthInductive, PTL

\* Whenever the process dies, the files of the saved login fit together.
THEOREM LoginAlwaysConsistent ==
  ASSUME UnreadableIndex = FALSE PROVE Spec => []LoginConsistent
  <1>1. AuthInv => LoginConsistent BY DEF AuthInv, LoginConsistent
  <1>2. QED BY <1>1, AuthInductive, PTL

-----------------------------------------------------------------------------
(* The refinement                                                          *)

\* Beginning an operation begins a request; a migration without one stutters.
LEMMA BeginRefines ==
  ASSUME AuthInv,
         Read \/ Clear \/ (\E t \in Tokens : Update(t))
           \/ \E s \in Sessions, p \in IndexValues : Save(s, p)
  PROVE  [Register!Next]_(Register!vars)
  <1>1. UNCHANGED <<index, snap, legacy>> /\ op = Idle
    BY DEF Read, Clear, Update, Save
  <1>2. FirstLegacy' = FirstLegacy
    BY <1>1 DEF FirstLegacy
  <1>3. Stored' = Stored
    BY <1>1, <1>2 DEF Stored
  <1>4. Request = Register!NoRequest
    BY <1>1 DEF Request, Idle, OpOf, Register!NoRequest
  <1>5. CASE Read
    <2>1. Request' = Request
      BY <1>4, <1>5 DEF Read, Request, OpOf, Register!NoRequest
    <2>2. QED BY <1>3, <2>1 DEF Register!vars
  <1>6. CASE Clear
    <2>1. Request' = [kind |-> "clear", session |-> NoSession]
      BY <1>6 DEF Clear, Request, OpOf
    <2>2. QED BY <1>3, <1>4, <2>1 DEF Register!Begin, Register!Next
  <1>7. ASSUME NEW t \in Tokens, Update(t) PROVE [Register!Next]_(Register!vars)
    <2> DEFINE new == [Stored EXCEPT !.token = t]
    <2>1. Stored \in Sessions /\ Stored # NoSession
      BY <1>7, StoredType DEF Update
    <2>2. new \in Sessions /\ new.account = Stored.account /\ new # NoSession
      BY <2>1, AuthAssumption DEF Sessions
    <2>3. Request' = [kind |-> "update", session |-> new]
      <3>1. CASE index = Absent
        <4>1. op' = OpOf("migrate", "snapshot", Stored, Absent, new)
          BY <1>7, <3>1 DEF Update
        <4>2. QED BY <2>2, <4>1 DEF Request, OpOf
      <3>2. CASE index # Absent
        <4>1. op' = OpOf("update", "snapshot", new, index, NoSession)
          BY <1>7, <3>2 DEF Update
        <4>2. QED BY <4>1 DEF Request, OpOf
      <3>3. QED BY <3>1, <3>2
    <2>4. QED BY <1>3, <1>4, <2>1, <2>2, <2>3 DEF Register!Begin, Register!Next
  <1>8. ASSUME NEW s \in Sessions, NEW p \in IndexValues, Save(s, p)
        PROVE  [Register!Next]_(Register!vars)
    <2>1. Request' = [kind |-> "save", session |-> s]
      BY <1>8 DEF Save, Request, OpOf
    <2>2. QED BY <1>3, <1>4, <2>1 DEF Register!Begin, Register!Next
  <1>9. QED BY <1>5, <1>6, <1>7, <1>8

\* A request is there whenever an operation other than a plain migration is.
LEMMA RequestKept ==
  ASSUME TypeOK, op'.kind = op.kind, op'.session = op.session, op'.then = op.then
  PROVE  Request' = Request
  BY DEF Request

\* Committing a snapshot or an index applies the request or changes nothing.
LEMMA CommitRefines ==
  ASSUME AuthInv, WriteSnapshot \/ WriteIndex \/ WriteLogout
  PROVE  [Register!Next]_(Register!vars)
  <1> USE DEF AuthInv
  <1> DEFINE a == op.session.account
  <1>0. legacy' = legacy
    BY DEF WriteSnapshot, WriteIndex, WriteLogout
  <1>1. FirstLegacy' = FirstLegacy
    BY <1>0 DEF FirstLegacy
  <1>2. Request' = Request
    <2>1. op'.kind = op.kind /\ op'.session = op.session /\ op'.then = op.then
      BY DEF WriteSnapshot, WriteIndex, WriteLogout, Goto, TypeOK, Ops
    <2>2. QED BY <2>1, RequestKept
  <1>3. SUFFICES Stored' = Stored \/ (Request # Register!NoRequest /\ Stored' = Request.session)
    BY <1>2 DEF Register!Apply, Register!Next, Register!vars
  <1>4. CASE WriteSnapshot
    <2>1. /\ op.session \in Sessions /\ a \in Accounts /\ IndexKnown
          /\ op.kind \in {"save", "update", "migrate"}
          /\ op.kind = "migrate" => index = Absent
          /\ snap' = [snap EXCEPT ![a] = op.session] /\ index' = index
      BY <1>4, SessionAccount DEF WriteSnapshot, WriteSound
    <2>2. snap'[a] = op.session /\ \A b \in Accounts : b # a => snap'[b] = snap[b]
      BY <2>1 DEF TypeOK
    <2>3. CASE index = a
      <3>1. op.kind \in {"save", "update"}
        BY <2>1, <2>3, AuthAssumption
      <3>2. Request = [kind |-> op.kind, session |-> op.session]
        BY <3>1 DEF Request
      <3>3. Stored' = op.session
        BY <2>1, <2>2, <2>3, AuthAssumption DEF Stored
      <3>4. QED BY <3>1, <3>2, <3>3 DEF Register!NoRequest
    <2>4. CASE index # a
      <3>1. Stored' = Stored
        BY <1>1, <2>1, <2>2, <2>4 DEF Stored
      <3>2. QED BY <3>1
    <2>5. QED BY <2>3, <2>4
  <1>5. CASE WriteIndex
    <2>1. /\ op.session \in Sessions /\ a \in Accounts /\ snap[a] = op.session
          /\ op.kind \in {"save", "update", "migrate"}
          /\ op.kind = "migrate" => index = Absent /\ FirstLegacy = op.session
          /\ snap' = snap /\ index' = a
      BY <1>5, SessionAccount DEF WriteIndex, WriteSound
    <2>2. Stored' = op.session
      BY <2>1, AuthAssumption DEF Stored
    <2>3. CASE op.kind = "migrate"
      BY <2>1, <2>2, <2>3 DEF Stored
    <2>4. CASE op.kind # "migrate"
      <3>1. Request = [kind |-> op.kind, session |-> op.session]
        BY <2>1, <2>4 DEF Request
      <3>2. QED BY <2>1, <2>2, <3>1 DEF Register!NoRequest
    <2>5. QED BY <2>3, <2>4
  <1>6. CASE WriteLogout
    <2>1. op.kind = "clear" /\ op.session = NoSession /\ index' = LoggedOut
      BY <1>6 DEF WriteLogout, StepSound
    <2>2. Stored' = NoSession
      BY <2>1, AuthAssumption DEF Stored
    <2>3. Request = [kind |-> "clear", session |-> NoSession]
      BY <2>1 DEF Request
    <2>4. QED BY <2>2, <2>3 DEF Register!NoRequest
  <1>7. QED BY <1>4, <1>5, <1>6

\* Removing files and ending an operation never change what is stored.
LEMMA CleanupRefines ==
  ASSUME AuthInv, IndexFails \/ UndoSnapshot \/ RemovePrevious \/ RemoveLegacies \/ Interrupted
  PROVE  [Register!Next]_(Register!vars)
  <1> USE DEF AuthInv
  <1>1. Stored' = Stored
    <2>1. CASE IndexFails \/ Interrupted
      <3>1. UNCHANGED <<index, snap, legacy>>
        BY <2>1 DEF IndexFails, Interrupted
      <3>2. FirstLegacy' = FirstLegacy
        BY <3>1 DEF FirstLegacy
      <3>3. QED BY <3>1, <3>2 DEF Stored
    <2>2. CASE UndoSnapshot
      <3>1. index' = index /\ legacy' = legacy /\ op.session.account # index
            /\ snap' = [snap EXCEPT ![op.session.account] = NoSession]
        BY <2>2, SessionAccount, AuthAssumption DEF UndoSnapshot, WriteSound, IndexKnown
      <3>2. index \in Accounts => snap'[index] = snap[index]
        BY <3>1 DEF TypeOK
      <3>3. FirstLegacy' = FirstLegacy
        BY <3>1 DEF FirstLegacy
      <3>4. QED BY <3>1, <3>2, <3>3 DEF Stored
    <2>3. CASE RemovePrevious
      <3>1. index' = index /\ legacy' = legacy /\ op.previous # index
            /\ snap' \in {snap, [snap EXCEPT ![op.previous] = NoSession]}
        BY <2>3 DEF RemovePrevious, StepSound
      <3>2. index \in Accounts => snap'[index] = snap[index]
        BY <3>1 DEF TypeOK
      <3>3. FirstLegacy' = FirstLegacy
        BY <3>1 DEF FirstLegacy
      <3>4. QED BY <3>1, <3>2, <3>3 DEF Stored
    <2>4. CASE RemoveLegacies
      BY <2>4 DEF RemoveLegacies, StepSound, Stored
    <2>5. QED BY <2>1, <2>2, <2>3, <2>4
  <1>2. Request' = Request \/ Request' = Register!NoRequest
    <2>1. CASE IndexFails \/ RemovePrevious
      <3>1. op'.kind = op.kind /\ op'.session = op.session /\ op'.then = op.then
        BY <2>1 DEF IndexFails, RemovePrevious, Goto, TypeOK, Ops
      <3>2. QED BY <3>1, RequestKept
    <2>2. CASE op' = Idle
      BY <2>2 DEF Request, Idle, OpOf, Register!NoRequest
    <2>3. CASE RemoveLegacies /\ op.then # NoSession
      <3>1. op' = OpOf("update", "snapshot", op.then, index, NoSession) /\ op.kind = "migrate"
        BY <2>3 DEF RemoveLegacies, StepSound
      <3>2. QED BY <2>3, <3>1 DEF Request, OpOf
    <2>4. QED BY <2>1, <2>2, <2>3 DEF UndoSnapshot, Interrupted, RemoveLegacies
  <1>3. QED BY <1>1, <1>2 DEF Register!End, Register!Next, Register!vars

\* AuthStorage implements the register of one session.
THEOREM RefinesSessionRegister ==
  ASSUME UnreadableIndex = FALSE PROVE Spec => ImplementsSessionRegister
  <1>1. Init => Register!Init
    <2> SUFFICES ASSUME Init PROVE Register!Init
      OBVIOUS
    <2>1. Stored \in Sessions \cup {NoSession}
      BY InitAuth, StoredType
    <2>2. Request = Register!NoRequest
      BY DEF Init, Request, Idle, OpOf, Register!NoRequest
    <2>3. QED BY <2>1, <2>2 DEF Register!Init
  <1>2. AuthInv /\ [Next]_vars => [Register!Next]_(Register!vars)
    <2> SUFFICES ASSUME AuthInv, [Next]_vars PROVE [Register!Next]_(Register!vars)
      OBVIOUS
    <2>1. CASE UNCHANGED vars
      BY <2>1 DEF vars, Stored, FirstLegacy, Request, Register!vars
    <2>2. CASE Next
      BY <2>2, BeginRefines, CommitRefines, CleanupRefines DEF Next
    <2>3. QED BY <2>1, <2>2
  <1>3. QED BY <1>1, <1>2, AuthInductive, PTL DEF Spec, Register!Spec, ImplementsSessionRegister
=============================================================================
