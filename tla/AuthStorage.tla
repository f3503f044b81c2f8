----------------------------- MODULE AuthStorage -----------------------------
(***************************************************************************)
(* The saved login (core/storage/auth_storage.cpp).  An index file names   *)
(* the active account, and each account has a snapshot file; versions      *)
(* before the index kept one snapshot under a fixed name.  Every operation *)
(* holds storeMutex, and replaces or removes one file at a time: the       *)
(* process may die, and a write or a removal may fail, at each of them.    *)
(*                                                                         *)
(* QSaveFile::commit() is atomic.  A snapshot is built in a temporary file *)
(* first, so it is either absent, complete or (a disk error) damaged.      *)
(***************************************************************************)
EXTENDS Integers

CONSTANTS
  Accounts,        \* accountFileName(): one file name for each account
  Tokens,          \* what distinguishes two sessions of one account
  LegacyPaths,     \* 1..n, in the order of legacyPaths()
  UnreadableIndex, \* whether opening the index may fail for a moment
  Absent,          \* the index file does not exist
  LoggedOut,       \* the index file is empty, the logout marker
  Damaged,         \* the file exists and cannot be decoded
  NoSession        \* the snapshot file does not exist

Sessions == [account : Accounts, token : Tokens]
IndexValues == Accounts \cup {Absent, LoggedOut, Damaged}
Snapshots == Sessions \cup {NoSession, Damaged}

ASSUME AuthAssumption ==
  /\ LegacyPaths \subseteq Nat
  /\ UnreadableIndex \in BOOLEAN
  /\ Absent \notin Accounts /\ LoggedOut \notin Accounts /\ Damaged \notin Accounts
  /\ Absent # LoggedOut /\ Absent # Damaged /\ LoggedOut # Damaged
  /\ NoSession \notin Sessions /\ Damaged \notin Sessions /\ NoSession # Damaged

VARIABLES
  index,   \* the file active_auth
  snap,    \* the snapshot file of each account
  legacy,  \* the snapshots under the fixed names
  op       \* the operation that holds storeMutex

vars == <<index, snap, legacy, op>>

\* kind of the operation; the file it touches next; the session it writes; the
\* index it found; and the session an update writes after a migration.
OpOf(kind, step, session, previous, then) ==
  [kind |-> kind, step |-> step, session |-> session, previous |-> previous, then |-> then]
Idle == OpOf("none", "none", NoSession, Absent, NoSession)
Steps == {"none", "snapshot", "index", "undo", "logout", "previous", "legacies"}
Ops == [kind : {"none", "save", "update", "migrate", "clear"}, step : Steps,
        session : Sessions \cup {NoSession}, previous : IndexValues,
        then : Sessions \cup {NoSession}]

\* A new installation, or one of an earlier version with a fixed name; what is
\* there may have been damaged.
Init ==
  /\ index \in {Absent, Damaged}
  /\ snap = [a \in Accounts |-> NoSession]
  /\ legacy \in [LegacyPaths -> Snapshots]
  /\ op = Idle

-----------------------------------------------------------------------------
(* What is stored                                                          *)

\* The first legacy snapshot there is, unless it cannot be decoded.
FirstLegacy ==
  LET present == {l \in LegacyPaths : legacy[l] # NoSession}
  IN  IF \E l \in present : (\A m \in present : l <= m) /\ legacy[l] # Damaged
      THEN legacy[CHOOSE l \in present : \A m \in present : l <= m]
      ELSE NoSession

\* What readSession() finds in the files.
Stored ==
  IF index = Absent THEN FirstLegacy
  ELSE IF index \in Accounts /\ snap[index] # Damaged THEN snap[index]
  ELSE NoSession

-----------------------------------------------------------------------------
(* Operations begin                                                        *)

\* writeSession(): the index it believes to be there.  An index that cannot be
\* read or decoded counts as absent.
Previous(p) ==
  \/ p = IF index = Damaged THEN Absent ELSE index
  \/ UnreadableIndex /\ p = Absent

Save(s, p) ==
  /\ op = Idle /\ Previous(p)
  /\ op' = OpOf("save", "snapshot", s, p, NoSession)
  /\ UNCHANGED <<index, snap, legacy>>

\* Mutant: the migration also runs after a logout.
ReadMigratesAlways ==
  /\ op = Idle
  /\ index \notin Accounts /\ FirstLegacy # NoSession
  /\ op' = OpOf("migrate", "snapshot", FirstLegacy, Absent, NoSession)
  /\ UNCHANGED <<index, snap, legacy>>

\* read() upgrades a snapshot with a fixed name; otherwise it changes nothing.
Read ==
  /\ op = Idle
  /\ index = Absent /\ FirstLegacy # NoSession
  /\ op' = OpOf("migrate", "snapshot", FirstLegacy, Absent, NoSession)
  /\ UNCHANGED <<index, snap, legacy>>

\* update(): readSession(), which may migrate, and then writeSession().
Update(t) ==
  /\ op = Idle /\ Stored # NoSession
  /\ LET new == [Stored EXCEPT !.token = t]
     IN  op' = IF index = Absent
               THEN OpOf("migrate", "snapshot", Stored, Absent, new)
               ELSE OpOf("update", "snapshot", new, index, NoSession)
  /\ UNCHANGED <<index, snap, legacy>>

\* Mutant: clear() removes the snapshot before it commits the logout.
ClearSnapshotFirst ==
  /\ op = Idle /\ index \in Accounts
  /\ op' = OpOf("clear", "previous", NoSession, index, NoSession)
  /\ UNCHANGED <<index, snap, legacy>>

\* clear() gives up when the index cannot be read.
Clear ==
  /\ op = Idle /\ index # Damaged
  /\ op' = OpOf("clear", "logout", NoSession, index, NoSession)
  /\ UNCHANGED <<index, snap, legacy>>

-----------------------------------------------------------------------------
(* Files are written and removed                                           *)

Goto(step) == op' = [op EXCEPT !.step = step]

\* writeSnapshot(); a save of the active account leaves the index alone.
WriteSnapshot ==
  /\ op.step = "snapshot"
  /\ snap' = [snap EXCEPT ![op.session.account] = op.session]
  /\ Goto(IF op.previous = op.session.account THEN "legacies" ELSE "index")
  /\ UNCHANGED <<index, legacy>>

AfterIndex == IF op.previous \in Accounts THEN "previous" ELSE "legacies"

\* writeActiveName(name) commits the new account ...
WriteIndex ==
  /\ op.step = "index"
  /\ index' = op.session.account
  /\ Goto(AfterIndex)
  /\ UNCHANGED <<snap, legacy>>

\* ... or fails, and the snapshot written before is removed.
IndexFails ==
  /\ op.step = "index"
  /\ Goto("undo")
  /\ UNCHANGED <<index, snap, legacy>>

UndoSnapshot ==
  /\ op.step = "undo"
  /\ snap' = [snap EXCEPT ![op.session.account] = NoSession]
  /\ op' = Idle
  /\ UNCHANGED <<index, legacy>>

\* clear(): the empty index comes first.
WriteLogout ==
  /\ op.step = "logout"
  /\ index' = LoggedOut
  /\ Goto(AfterIndex)
  /\ UNCHANGED <<snap, legacy>>

\* The snapshot of the account that was active before; a failed removal is not
\* noticed.
RemovePrevious ==
  /\ op.step = "previous"
  /\ snap' \in {snap, [snap EXCEPT ![op.previous] = NoSession]}
  /\ Goto("legacies")
  /\ UNCHANGED <<index, legacy>>

\* The legacy snapshots, some of which may stay; an update continues.
RemoveLegacies ==
  /\ op.step = "legacies"
  /\ \E kept \in SUBSET LegacyPaths :
       legacy' = [l \in LegacyPaths |-> IF l \in kept THEN legacy[l] ELSE NoSession]
  /\ op' = IF op.then = NoSession THEN Idle
           ELSE OpOf("update", "snapshot", op.then, index, NoSession)
  /\ UNCHANGED <<index, snap>>

\* A write fails and the operation returns false, or the process dies.
Interrupted ==
  /\ op # Idle
  /\ op' = Idle
  /\ UNCHANGED <<index, snap, legacy>>

Next ==
  \/ \E s \in Sessions, p \in IndexValues : Save(s, p)
  \/ Read \/ Clear \/ \E t \in Tokens : Update(t)
  \/ WriteSnapshot \/ WriteIndex \/ IndexFails \/ UndoSnapshot
  \/ WriteLogout \/ RemovePrevious \/ RemoveLegacies \/ Interrupted

Spec == Init /\ [][Next]_vars

-----------------------------------------------------------------------------
(* Properties                                                              *)

TypeOK ==
  /\ index \in IndexValues
  /\ snap \in [Accounts -> Snapshots]
  /\ legacy \in [LegacyPaths -> Snapshots]
  /\ op \in Ops

\* Whenever the process dies, the index names an account only if its snapshot
\* is there: a login writes the snapshot before the index, a logout and a login
\* of another account change the index before they remove a snapshot.
IndexNamesSnapshot == index \in Accounts => snap[index] # NoSession

\* The files of the saved login are consistent at every instant, and so after a
\* crash between any two writes of saveSession(), clearSession() and the migration.
LoginConsistent == TypeOK /\ IndexNamesSnapshot

\* What the operation in progress asks of the store; a migration asks nothing.
Request ==
  IF op.kind = "none" \/ (op.kind = "migrate" /\ op.then = NoSession)
  THEN [kind |-> "none", session |-> NoSession]
  ELSE IF op.kind = "migrate" THEN [kind |-> "update", session |-> op.then]
  ELSE [kind |-> op.kind, session |-> op.session]

Register == INSTANCE SessionRegister WITH session <- Stored, request <- Request

\* Saving, updating and clearing the session each take effect at one instant,
\* and nothing else changes what readSession() returns: a failed save keeps the
\* previous login, a logged-out session never comes back, and migrating a legacy
\* snapshot is invisible.
ImplementsSessionRegister == Register!Spec
=============================================================================
