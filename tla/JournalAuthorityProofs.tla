---------------------- MODULE JournalAuthorityProofs ----------------------
(***************************************************************************)
(* What the journal guarantees to those that rely on it, for every set of  *)
(* processes and operations: outcomes are final, an unreadable history     *)
(* fails closed, recovery is never wedged, a joined child has the          *)
(* workspace to itself, and the journal implements LifecycleAuthority and, *)
(* with DraftAgreed, SignedOperations.                                     *)
(***************************************************************************)
EXTENDS MutationJournalProofs

-----------------------------------------------------------------------------
(* The inductive invariant about records and the pointer.                  *)

\* `d` may be signed after `r`: a settled record is followed only by an
\* acknowledgement of the same outcome.
After(r, d) ==
    r.status # Active => /\ d.status = r.status /\ d.phase = r.phase
                         /\ d.pending < r.pending

\* No settled record names a phase in which a child may join.
JoinsWhileActive(r) == r.status # Active => r.phase \notin JoinPhase

\* The records of one operation: a first one exists, and whatever is signed
\* after a settled record acknowledges it.
RecordsFinal ==
    /\ \A r, q \in hist : r.op = q.op /\ q.seq < r.seq => After(q, r)
    /\ \A r \in hist : /\ JoinsWhileActive(r)
                       /\ r.seq = 1 => r.prev = 0
                       /\ \E q \in hist : q.op = r.op /\ q.seq = 1

\* A draft not yet installed may be signed after the record it follows, every
\* other history is readable, and the pointer is where the Session left it.
DraftLegal ==
    \A p \in Proc : mode[p] = "writing" =>
        /\ JoinsWhileActive(draft[p])
        /\ draft[p].seq = 1 => draft[p].prev = 0
        /\ rec[p] = NoRec => draft[p].status = Active /\ ~Blocked(pointer)
        /\ rec[p] # NoRec => /\ After(rec[p], draft[p])
                             /\ pointer = rec[p]
                             /\ \A o \in dirs : ~Unreadable(o)

\* An operation that is prepared found the journal readable and unblocked.
PreparedOnReadable ==
    \A p \in Proc : mode[p] = "preparing" =>
        ~Blocked(pointer) /\ \A o \in dirs : ~Unreadable(o)

\* The pointer copies an installed record, and one that blocks belongs to the
\* unsettled operation.
PointerInstalledOnce ==
    /\ pointer # NoRec => pointer \in hist
    /\ Blocked(pointer) => \A o \in Op : Unsettled(o) => o = pointer.op

\* An installed draft belongs to the only operation that may be unsettled.
WrittenOwns ==
    \A p \in Proc : mode[p] = "written" =>
        \A o \in Op : Unsettled(o) => o = draft[p].op

AuthorityInv ==
    /\ RecordsFinal
    /\ DraftLegal
    /\ PreparedOnReadable
    /\ PointerInstalledOnce
    /\ WrittenOwns

-----------------------------------------------------------------------------
(* The inductive invariant about joined children.                          *)

\* A Session past its first record, and a child, work under installed records;
\* nothing but the Session's operation is unsettled meanwhile.
Owns(q) ==
    /\ mode[q] \in SessionMode \cup ChildMode /\ rec[q] # NoRec => rec[q] \in hist
    /\ mode[q] \in {"open", "admitting", "joining", "waiting"} =>
          \A o \in Op : Unsettled(o) => o = rec[q].op
    /\ mode[q] \in {"writing", "written"} /\ rec[q] # NoRec =>
          rec[q].op = draft[q].op
    /\ mode[q] = "written" /\ rec[q] # NoRec => rec[q] = draft[q]
    /\ mode[q] = "admitting" => IsLatest(hist, rec[q].op, rec[q])
    /\ mode[q] \in ChildMode \cup {"joining"} => Joins(rec[q])

SessionOwns == \A q \in Proc : Owns(q)

\* Child `c` is not admitted by a record newer than that of Session `q`; if it
\* is admitted by the Session's own record it is the child the Session waits
\* for, or is kept from executing by the Session's recovery claim lock.
Behind(q, c) ==
    /\ rec[q] = NoRec /\ mode[q] \in {"writing", "written"} =>
          rec[c].op # draft[q].op
    /\ rec[q] # NoRec /\ rec[c].op = rec[q].op =>
          /\ rec[c].seq <= rec[q].seq
          /\ rec[c].seq = rec[q].seq =>
                \/ mode[q] = "admitting"
                \/ mode[q] = "waiting" /\ child[q] = {c}
                \/ mode[q] \in {"open", "writing"} /\ q \in claimLock[rec[q].op]

ChildrenBehind ==
    \A q, c \in Proc : mode[q] \in SessionMode /\ mode[c] \in ChildMode => Behind(q, c)

\* A claim lock has one holder; a child that took it keeps it until it
\* executes, and executes under it or under a claim of the older custody.
ClaimCustody ==
    /\ \A o \in Op : \A p, q \in claimLock[o] : p = q
    /\ \A c \in Proc : mode[c] = "locked" => c \in claimLock[rec[c].op]
    /\ \A c \in Proc : mode[c] = "executing" =>
          /\ \E k \in Custody : Claimed(rec[c], k)
          /\ c \in claimLock[rec[c].op] \/ Claimed(rec[c], "")

ChildInv ==
    /\ SessionOwns
    /\ ChildrenBehind
    /\ ClaimCustody
    /\ JoinedChildExclusive

-----------------------------------------------------------------------------
(* What a step of the journal may write.                                   *)

\* No record is signed and no draft begun.
Quiet ==
    /\ hist' = hist /\ dirs' = dirs
    /\ \A q \in Proc : mode'[q] = "writing" =>
          mode[q] = "writing" /\ draft'[q] = draft[q] /\ rec'[q] = rec[q]

\* A Session begins to persist the first record of an operation.
StartsOperation(p) ==
    /\ mode[p] = "preparing" /\ rec[p] = NoRec
    /\ draft'[p].status = Active /\ draft'[p].prev = 0
    /\ draft'[p].op \in Op \ dirs /\ dirs' = dirs \cup {draft'[p].op}

\* A Session begins to persist a successor of the record the journal holds.
StartsSuccessor(p) ==
    /\ mode[p] = "open" /\ Unchanged(p) /\ dirs' = dirs
    /\ rec[p] \in Record /\ draft'[p].op = rec[p].op
    /\ draft'[p].seq = rec[p].seq + 1
    /\ After(rec[p], draft'[p])
    /\ JoinsWhileActive(rec[p]) => JoinsWhileActive(draft'[p])

Starts(p) ==
    /\ StartsOperation(p) \/ StartsSuccessor(p)
    /\ hist' = hist /\ pointer' = pointer
    /\ mode' = [mode EXCEPT ![p] = "writing"] /\ rec' = rec
    /\ UNCHANGED <<claimLock, claims, child>>
    /\ \A q \in Proc : q # p => draft'[q] = draft[q]

\* The record a Session drafted is installed.
Installs(p) ==
    /\ mode[p] = "writing"
    /\ hist' = hist \cup {draft[p]} /\ dirs' = dirs /\ pointer' = pointer
    /\ UNCHANGED <<claimLock, claims, child>>
    /\ \A q \in Proc : q # p => /\ mode'[q] = mode[q] /\ rec'[q] = rec[q]
                                /\ draft'[q] = draft[q]
    /\ \/ mode'[p] = "written" /\ draft'[p] = draft[p]
          /\ rec'[p] = IF rec[p] = NoRec THEN NoRec ELSE draft[p]
       \/ mode'[p] = Idle /\ rec[p] = NoRec /\ rec'[p] = NoRec
       \/ mode'[p] = "open" /\ rec[p] # NoRec /\ rec'[p] = rec[p]

(* An operation of a Session that persists a record.                        *)
LEMMA SessionWrites ==
  ASSUME JournalInv, NEW p \in Proc,
         \/ \E o \in Op : BeginPrepared(p, o)
         \/ \E next \in Phase : Transition(p, next) \/ BeginForwardJoin(p, next)
         \/ RecordRestoreControls(p)
         \/ \E n \in 1..MaxGroups : RecordRestoreAppGroups(p, n)
         \/ \E s \in {Succeeded, Recovered} : Complete(p, s)
         \/ AcknowledgeRestoreAppGroupClose(p)
  PROVE  Starts(p)
  <1>1. ASSUME NEW r, StartPersist(p, r),
               \/ /\ mode[p] = "preparing" /\ r.status = Active /\ r.prev = 0
                  /\ r.op \in Op \ dirs
               \/ /\ mode[p] = "open" /\ Unchanged(p) /\ rec[p] \in Record
                  /\ r.op = rec[p].op /\ r.seq = rec[p].seq + 1
                  /\ After(rec[p], r)
                  /\ JoinsWhileActive(rec[p]) => JoinsWhileActive(r)
        PROVE  Starts(p)
    <2>1. /\ draft'[p] = r /\ dirs' = dirs \cup {r.op}
          /\ \A q \in Proc : q # p => draft'[q] = draft[q]
      BY <1>1 DEF StartPersist, JournalInv, TypeOK
    <2>2. mode[p] = "preparing" => rec[p] = NoRec
      BY DEF JournalInv, SessionShape
    <2>3. ASSUME mode[p] = "open", Unchanged(p), rec[p] \in Record
          PROVE  rec[p].op \in dirs
      <3>1. pointer = rec[p] /\ pointer # NoRec /\ LoadOK(hist, dirs, pointer)
        BY <2>3 DEF Unchanged, Record, NoRec
      <3> QED
        BY <3>1 DEF LoadOK
    <2> QED
      BY <1>1, <2>1, <2>2, <2>3
         DEF Starts, StartsOperation, StartsSuccessor, StartPersist, Goto
  <1>2. ASSUME mode[p] = "open"
        PROVE  /\ rec[p] \in Record /\ Successor(p) \in Record
               /\ Successor(p).op = rec[p].op
               /\ Successor(p).seq = rec[p].seq + 1
               /\ Successor(p).pending = rec[p].pending
               /\ Successor(p).status = rec[p].status
               /\ Successor(p).phase = rec[p].phase
    <2>1. rec[p] \in Record
      BY <1>2 DEF JournalInv, SessionShape
    <2> QED
      BY <2>1, SuccessorType DEF Successor, Record
  <1>3. ASSUME NEW o \in Op, BeginPrepared(p, o) PROVE Starts(p)
    BY <1>1, <1>3 DEF BeginPrepared
  <1>4. ASSUME NEW next \in Phase, Transition(p, next) \/ BeginForwardJoin(p, next)
        PROVE  Starts(p)
    <2> DEFINE r == [Successor(p) EXCEPT !.phase = next]
    <2>1. /\ mode[p] = "open" /\ Unchanged(p) /\ StartPersist(p, r)
          /\ rec[p].status = Active
      BY <1>4 DEF Transition, BeginForwardJoin, InActiveSession
    <2>2. r.op = rec[p].op /\ r.seq = rec[p].seq + 1 /\ r.status = Active
      BY <1>2, <2>1 DEF Record
    <2> HIDE DEF r
    <2> QED
      BY <1>1, <1>2, <2>1, <2>2 DEF After, JoinsWhileActive
  <1>5. CASE RecordRestoreControls(p)
    <2>1. /\ mode[p] = "open" /\ Unchanged(p) /\ StartPersist(p, Successor(p))
          /\ rec[p].status = Active
      BY <1>5 DEF RecordRestoreControls, InActiveSession
    <2> QED
      BY <1>1, <1>2, <2>1 DEF After, JoinsWhileActive
  <1>6. ASSUME NEW n \in 1..MaxGroups, RecordRestoreAppGroups(p, n)
        PROVE  Starts(p)
    <2> DEFINE r == [Successor(p) EXCEPT !.pending = n]
    <2>1. /\ mode[p] = "open" /\ Unchanged(p) /\ StartPersist(p, r)
          /\ rec[p].status = Active
      BY <1>6 DEF RecordRestoreAppGroups, InActiveSession
    <2>2. r.op = rec[p].op /\ r.seq = rec[p].seq + 1 /\ r.status = Active
      BY <1>2, <2>1 DEF Record
    <2> HIDE DEF r
    <2> QED
      BY <1>1, <1>2, <2>1, <2>2 DEF After, JoinsWhileActive
  <1>7. ASSUME NEW s \in {Succeeded, Recovered}, Complete(p, s)
        PROVE  Starts(p)
    <2> DEFINE r == [Successor(p) EXCEPT !.status = s]
    <2>1. /\ mode[p] = "open" /\ Unchanged(p) /\ StartPersist(p, r)
          /\ rec[p].status = Active
          /\ rec[p].phase \in {"commit-succeeded", "rollback-succeeded", "prepared"}
      BY <1>7 DEF Complete, InActiveSession
    <2>2. /\ r.op = rec[p].op /\ r.seq = rec[p].seq + 1
          /\ r.phase = rec[p].phase
      BY <1>2, <2>1 DEF Record
    <2> HIDE DEF r
    <2> QED
      BY <1>1, <1>2, <2>1, <2>2 DEF After, JoinsWhileActive, JoinPhase
  <1>8. CASE AcknowledgeRestoreAppGroupClose(p)
    <2> DEFINE r == [Successor(p) EXCEPT !.pending = @ - 1]
    <2>1. /\ mode[p] = "open" /\ Unchanged(p) /\ StartPersist(p, r)
          /\ rec[p].status # Active
      BY <1>8 DEF AcknowledgeRestoreAppGroupClose
    <2>2. /\ r.op = rec[p].op /\ r.seq = rec[p].seq + 1
          /\ r.phase = rec[p].phase /\ r.status = rec[p].status
          /\ r.pending = rec[p].pending - 1 /\ rec[p].pending \in Nat
      BY <1>2, <2>1 DEF Record
    <2> HIDE DEF r
    <2> QED
      BY <1>1, <1>2, <2>1, <2>2 DEF After, JoinsWhileActive
  <1> QED
    BY <1>3, <1>4, <1>5, <1>6, <1>7, <1>8

(* A step that changes no history, no draft and no record.                  *)
LEMMA QuietSteps ==
  ASSUME JournalInv, NEW p \in Proc,
         \/ WithIdleMutation(p) \/ Begin(p) \/ Stop(p)
         \/ HistoryFails(p) \/ PointerFails(p)
         \/ PointerInstalled(p) \/ PointerInstalledUnconfirmed(p)
         \/ (\E o \in Op : OpenRecovery(p, o))
         \/ acquireRecoveryClaimLock(p) \/ ReconcileForRecovery(p)
         \/ (\E c \in Proc : SpawnChild(p, c)) \/ ChildStep(p)
  PROVE  Quiet
  <1> USE DEF Quiet, durable, Goto
  <1>1. CASE WithIdleMutation(p) \/ Begin(p)
    BY <1>1 DEF WithIdleMutation, Begin, JournalInv, TypeOK
  <1>2. CASE Stop(p)
    BY <1>2 DEF Stop, JournalInv, TypeOK, Idle
  <1>3. CASE HistoryFails(p) \/ PointerFails(p)
    BY <1>2, <1>3 DEF HistoryFails, PointerFails, PersistFails, JournalInv, TypeOK
  <1>4. CASE PointerInstalled(p) \/ PointerInstalledUnconfirmed(p)
    BY <1>4 DEF PointerInstalled, PointerInstalledUnconfirmed, JournalInv, TypeOK,
                Idle
  <1>5. CASE \E o \in Op : OpenRecovery(p, o)
    BY <1>5 DEF OpenRecovery, JournalInv, TypeOK
  <1>6. CASE acquireRecoveryClaimLock(p)
    BY <1>6 DEF acquireRecoveryClaimLock, JournalInv, TypeOK
  <1>7. CASE ReconcileForRecovery(p)
    BY <1>7 DEF ReconcileForRecovery, JournalInv, TypeOK
  <1>8. CASE \E c \in Proc : SpawnChild(p, c)
    BY <1>8 DEF SpawnChild, JournalInv, TypeOK
  <1>9. CASE ChildStep(p)
    BY <1>9 DEF ChildStep, inspectJoin, claimJoinLock, claimJoin, JournalInv, TypeOK
  <1> QED
    BY <1>1, <1>2, <1>3, <1>4, <1>5, <1>6, <1>7, <1>8, <1>9

(* The history write, confirmed or not, installs the draft.                 *)
LEMMA InstallSteps ==
  ASSUME JournalInv, NEW p \in Proc,
         HistoryInstalled(p) \/ HistoryInstalledUnconfirmed(p)
  PROVE  Installs(p)
  BY DEF Installs, HistoryInstalled, HistoryInstalledUnconfirmed, Goto,
         JournalInv, TypeOK

(* Every step of the journal is quiet, begins to persist or installs.       *)
LEMMA StepShape ==
  ASSUME JournalInv, Next
  PROVE  Quiet \/ \E p \in Proc : Starts(p) \/ Installs(p)
  <1>1. PICK p \in Proc : WithIdleMutation(p) \/ Stop(p) \/ PersistStep(p)
                            \/ SessionStep(p) \/ ChildStep(p)
    BY DEF Next
  <1>2. CASE WithIdleMutation(p) \/ Stop(p) \/ ChildStep(p)
    BY <1>2, QuietSteps
  <1>3. CASE PersistStep(p)
    BY <1>3, QuietSteps, InstallSteps DEF PersistStep
  <1>4. CASE SessionStep(p)
    BY <1>4, QuietSteps, SessionWrites DEF SessionStep
  <1> QED
    BY <1>1, <1>2, <1>3, <1>4

-----------------------------------------------------------------------------
(* The invariant about records and the pointer is preserved.               *)

(* Whoever loads or recovers the journal has read every history of it.      *)
LEMMA ReadableHistories ==
  ASSUME JournalInv, Readable(hist, dirs), NEW o \in dirs
  PROVE  ~Unreadable(o)
  <1>1. WellFormed(hist, o)
    BY DEF Readable
  <1>2. Histories(hist, o) # {} /\ \A r \in Histories(hist, o) : r.seq <= HistoryLimit
    BY <1>1 DEF WellFormed
  <1>3. \A r \in Histories(hist, o) : r.seq \in Nat
    BY DEF Histories, JournalInv, TypeOK, Record
  <1> QED
    BY <1>2, <1>3, JournalAssumption DEF Unreadable

(* Nothing but the pointer and the modes of Sessions past writing changes.  *)
LEMMA PointerMovesKeep ==
  ASSUME JournalInv, AuthorityInv, NEW p \in Proc,
         \/ PointerInstalled(p) \/ PointerInstalledUnconfirmed(p)
         \/ (\E o \in Op : OpenRecovery(p, o)) \/ ReconcileForRecovery(p)
  PROVE  AuthorityInv'
  <1>1. Quiet
    BY QuietSteps
  <1>2. /\ \A o : Unsettled(o)' <=> Unsettled(o)
        /\ RecordsFinal'
    BY <1>1 DEF Quiet, AuthorityInv, RecordsFinal, Unsettled, IsLatest, Histories
  <1>3. \A q \in Proc : q # p => mode[q] \notin SessionMode
    <2>1. CASE mode[p] \in SessionMode
      BY <2>1, OneLockHolder
    <2>2. CASE lock = {}
      BY <2>2 DEF JournalInv, LockHeld
    <2> QED
      BY <2>1, <2>2 DEF PointerInstalled, PointerInstalledUnconfirmed, OpenRecovery,
                        openLocked, ReconcileForRecovery, SessionMode
  <1>4. \A q \in Proc : mode'[q] \notin {"writing", "written", "preparing"}
    <2>1. /\ mode'[p] \notin {"writing", "written", "preparing"}
          /\ \A q \in Proc : q # p => mode'[q] = mode[q]
      BY DEF PointerInstalled, PointerInstalledUnconfirmed, OpenRecovery, Goto,
             ReconcileForRecovery, JournalInv, TypeOK, Idle
    <2> QED
      BY <1>3, <2>1 DEF SessionMode
  <1>5. PointerInstalledOnce'
    <2>1. CASE PointerInstalled(p) \/ PointerInstalledUnconfirmed(p)
      <3>1. pointer' = draft[p] /\ mode[p] = "written"
        BY <2>1 DEF PointerInstalled, PointerInstalledUnconfirmed
      <3>2. draft[p] \in hist /\ \A o \in Op : Unsettled(o) => o = draft[p].op
        BY <3>1 DEF JournalInv, DraftInstalled, IsLatest, Histories, AuthorityInv,
                    WrittenOwns
      <3> QED
        BY <1>1, <1>2, <3>1, <3>2 DEF PointerInstalledOnce, Quiet
    <2>2. ASSUME NEW o, RecoverOK(hist, dirs, pointer, o), pointer' = Latest(hist, o)
          PROVE  PointerInstalledOnce'
      <3>1. Latest(hist, o) \in hist
        BY <2>2, RecoveredRecord
      <3>2. WellFormed(hist, o)
        BY <2>2 DEF RecoverOK, Readable
      <3>3. PICK r \in hist : r.op = o
        BY <3>2 DEF WellFormed, Histories
      <3>4. Latest(hist, o).op = o
        BY <3>3, LatestChosen DEF JournalInv, IsLatest, Histories
      <3>5. \A a \in Op : Unsettled(a) => a = o
        BY <2>2, UnsettledIsActiveHead DEF RecoverOK, JournalInv
      <3> QED
        BY <1>1, <1>2, <2>2, <3>1, <3>4, <3>5 DEF PointerInstalledOnce, Quiet
    <2> QED
      BY <2>1, <2>2 DEF OpenRecovery, ReconcileForRecovery
  <1> QED
    BY <1>2, <1>4, <1>5 DEF AuthorityInv, DraftLegal, PreparedOnReadable, WrittenOwns

(* A quiet step that leaves the pointer alone and prepares nothing new.     *)
LEMMA QuietKeeps ==
  ASSUME JournalInv, AuthorityInv, Quiet, pointer' = pointer,
         \A q \in Proc : /\ mode'[q] = "preparing" => mode[q] = "preparing"
                         /\ mode'[q] = "written" => /\ mode[q] = "written"
                                                    /\ draft'[q] = draft[q]
  PROVE  AuthorityInv'
  <1>1. /\ \A o : Unsettled(o)' <=> Unsettled(o)
        /\ \A o : Unreadable(o)' <=> Unreadable(o)
        /\ RecordsFinal'
    BY DEF Quiet, AuthorityInv, RecordsFinal, Unsettled, Unreadable, IsLatest,
           Histories
  <1>2. DraftLegal'
    BY <1>1 DEF Quiet, AuthorityInv, DraftLegal
  <1>3. PreparedOnReadable' /\ PointerInstalledOnce' /\ WrittenOwns'
    BY <1>1 DEF Quiet, AuthorityInv, PreparedOnReadable, PointerInstalledOnce,
                WrittenOwns
  <1> QED
    BY <1>1, <1>2, <1>3 DEF AuthorityInv

(* An operation is prepared only on a journal that loads.                   *)
LEMMA BeginKeeps ==
  ASSUME JournalInv, AuthorityInv, NEW p \in Proc, Begin(p)
  PROVE  AuthorityInv'
  <1> USE DEF Begin, openLocked, durable, Goto
  <1>1. Quiet
    BY QuietSteps
  <1>2. \A o \in dirs : ~Unreadable(o)
    BY ReadableHistories DEF LoadOK
  <1>3. /\ \A o : Unsettled(o)' <=> Unsettled(o)
        /\ \A o : Unreadable(o)' <=> Unreadable(o)
        /\ RecordsFinal'
    BY DEF AuthorityInv, RecordsFinal, Unsettled, Unreadable, IsLatest, Histories
  <1>4. \A q \in Proc : mode'[q] \notin {"writing", "written"}
    <2>1. \A q \in Proc : mode[q] \notin SessionMode
      BY DEF JournalInv, LockHeld
    <2> QED
      BY <2>1 DEF JournalInv, TypeOK, SessionMode
  <1>5. PreparedOnReadable' /\ PointerInstalledOnce'
    BY <1>2, <1>3 DEF AuthorityInv, PreparedOnReadable, PointerInstalledOnce
  <1> QED
    BY <1>3, <1>4, <1>5 DEF AuthorityInv, DraftLegal, WrittenOwns

(* A Session begins to persist a record.                                    *)
LEMMA StartsKeeps ==
  ASSUME JournalInv, AuthorityInv, NEW p \in Proc, Starts(p), JournalInv'
  PROVE  AuthorityInv'
  <1> USE DEF Starts
  <1>1. mode[p] \in SessionMode
    BY DEF StartsOperation, StartsSuccessor, SessionMode
  <1>2. \A q \in Proc : q # p => mode[q] \notin SessionMode
    BY <1>1, OneLockHolder
  <1>3. /\ mode'[p] = "writing"
        /\ \A q \in Proc : q # p => mode'[q] \notin {"writing", "written", "preparing"}
    BY <1>2 DEF JournalInv, TypeOK, SessionMode
  <1>4. /\ \A o : Unsettled(o)' <=> Unsettled(o)
        /\ \A o : Unreadable(o)' <=> Unreadable(o)
        /\ RecordsFinal'
    BY DEF AuthorityInv, RecordsFinal, Unsettled, Unreadable, IsLatest, Histories
  <1>5. PreparedOnReadable' /\ PointerInstalledOnce' /\ WrittenOwns'
    BY <1>3, <1>4 DEF AuthorityInv, PreparedOnReadable, PointerInstalledOnce,
                      WrittenOwns
  <1>6. DraftLegal'
    <2>1. CASE StartsOperation(p)
      <3>1. rec[p] = NoRec /\ ~Blocked(pointer) /\ draft'[p].status = Active
        BY <2>1 DEF StartsOperation, AuthorityInv, PreparedOnReadable
      <3> QED
        BY <1>3, <2>1, <3>1 DEF DraftLegal, StartsOperation, JoinsWhileActive
    <2>2. CASE StartsSuccessor(p)
      <3>1. /\ rec[p] \in Record /\ rec[p] # NoRec /\ pointer = rec[p]
            /\ LoadOK(hist, dirs, pointer)
        BY <2>2 DEF StartsSuccessor, Unchanged, Record, NoRec
      <3>2. \A o \in dirs : ~Unreadable(o)
        BY <3>1, ReadableHistories DEF LoadOK
      <3>3. JoinsWhileActive(rec[p])
        BY <3>1 DEF AuthorityInv, RecordsFinal, PointerInstalledOnce
      <3>4. draft'[p].seq # 1
        BY <2>2, <3>1 DEF StartsSuccessor, Record
      <3> QED
        BY <1>3, <1>4, <2>2, <3>1, <3>2, <3>3, <3>4 DEF DraftLegal, StartsSuccessor
    <2> QED
      BY <2>1, <2>2
  <1> QED
    BY <1>4, <1>5, <1>6 DEF AuthorityInv

(* A draft is installed: it follows the newest record of its operation, so  *)
(* it follows every other settled record too.                               *)
LEMMA InstallsKeeps ==
  ASSUME JournalInv, AuthorityInv, NEW p \in Proc, Installs(p)
  PROVE  AuthorityInv'
  <1> USE DEF Installs
  <1> DEFINE d == draft[p]
  <1>1. /\ LinearHistory' /\ IsLatest(hist', d.op, d)
        /\ \A o \in Op : Unsettled(o)' => o = d.op
    BY InstallDraft
  <1>2. /\ d \in Record
        /\ rec[p] = NoRec => (\A r \in hist : r.op # d.op) /\ d.seq = 1
        /\ rec[p] # NoRec => /\ IsLatest(hist, d.op, rec[p])
                             /\ d.seq = rec[p].seq + 1
    BY DEF JournalInv, DraftExtends
  <1>3. /\ JoinsWhileActive(d) /\ (d.seq = 1 => d.prev = 0)
        /\ rec[p] = NoRec => d.status = Active /\ ~Blocked(pointer)
        /\ rec[p] # NoRec => After(rec[p], d) /\ pointer = rec[p]
    BY DEF AuthorityInv, DraftLegal
  <1>4. hist \subseteq Record /\ d.seq \in Nat /\ d.pending \in Nat
    BY <1>2 DEF JournalInv, TypeOK, Record
  <1>5. \A q \in Proc : q # p => mode'[q] \notin SessionMode
    <2>1. \A q \in Proc : q # p => mode[q] \notin SessionMode
      BY OneLockHolder DEF SessionMode
    <2> QED
      BY <2>1
  <1>6. \A q \in hist : q.op = d.op => q.seq < d.seq /\ After(q, d)
    <2> SUFFICES ASSUME NEW q \in hist, q.op = d.op PROVE q.seq < d.seq /\ After(q, d)
      OBVIOUS
    <2>1. rec[p] # NoRec
      BY <1>2
    <2>2. rec[p] \in hist /\ rec[p].op = d.op /\ q.seq <= rec[p].seq
      BY <1>2, <2>1 DEF IsLatest, Histories
    <2>3. q.seq \in Nat /\ rec[p].seq \in Nat /\ q.pending \in Nat /\ rec[p].pending \in Nat
      BY <1>4, <2>2 DEF Record
    <2>4. q.seq < d.seq
      BY <1>2, <2>1, <2>2, <2>3
    <2>5. CASE q.seq = rec[p].seq
      <3>1. q = rec[p]
        BY <2>2, <2>5 DEF JournalInv, LinearHistory
      <3> QED
        BY <1>3, <2>1, <2>4, <3>1
    <2>6. CASE q.seq < rec[p].seq
      <3>1. After(q, rec[p])
        BY <2>2, <2>6 DEF AuthorityInv, RecordsFinal
      <3> QED
        BY <1>3, <1>4, <2>1, <2>3, <2>4, <3>1 DEF After
    <2> QED
      BY <2>2, <2>3, <2>5, <2>6
  <1>7. RecordsFinal'
    <2>1. \A r, q \in hist' : r.op = q.op /\ q.seq < r.seq => After(q, r)
      <3> SUFFICES ASSUME NEW r \in hist', NEW q \in hist', r.op = q.op, q.seq < r.seq
                   PROVE  After(q, r)
        OBVIOUS
      <3>1. CASE r \in hist /\ q \in hist
        BY <3>1 DEF AuthorityInv, RecordsFinal
      <3>2. CASE r = d /\ q \in hist
        BY <1>6, <3>2
      <3>3. CASE q = d
        <4>1. r \in hist
          BY <1>4, <3>3
        <4>2. r.seq < d.seq /\ r.seq \in Nat
          BY <1>4, <1>6, <3>3, <4>1 DEF Record
        <4> QED
          BY <1>4, <3>3, <4>2
      <3> QED
        BY <3>1, <3>2, <3>3
    <2>2. ASSUME NEW r \in hist'
          PROVE  /\ JoinsWhileActive(r) /\ (r.seq = 1 => r.prev = 0)
                 /\ \E q \in hist' : q.op = r.op /\ q.seq = 1
      <3>1. CASE r \in hist
        BY <3>1 DEF AuthorityInv, RecordsFinal
      <3>2. CASE r = d /\ rec[p] = NoRec
        BY <1>2, <1>3, <3>2
      <3>3. CASE r = d /\ rec[p] # NoRec
        <4>1. rec[p] \in hist /\ rec[p].op = d.op
          BY <1>2, <3>3 DEF IsLatest, Histories
        <4>2. PICK q \in hist : q.op = d.op /\ q.seq = 1
          BY <4>1 DEF AuthorityInv, RecordsFinal
        <4> QED
          BY <1>3, <3>3, <4>2
      <3> QED
        BY <3>1, <3>2, <3>3
    <2> QED
      BY <2>1, <2>2 DEF RecordsFinal
  <1>8. DraftLegal' /\ PreparedOnReadable' /\ WrittenOwns'
    <2>1. \A q \in Proc : mode'[q] \notin {"writing", "preparing"}
      BY <1>5 DEF SessionMode, Idle
    <2>2. WrittenOwns'
      BY <1>1, <1>5 DEF WrittenOwns, SessionMode, Idle
    <2> QED
      BY <2>1, <2>2 DEF DraftLegal, PreparedOnReadable
  <1>9. PointerInstalledOnce'
    <2>1. pointer' # NoRec => pointer' \in hist'
      BY DEF AuthorityInv, PointerInstalledOnce
    <2>2. ASSUME Blocked(pointer), NEW o \in Op, Unsettled(o)' PROVE o = pointer.op
      <3>1. rec[p] # NoRec /\ pointer = rec[p]
        BY <1>3, <2>2
      <3>2. pointer.op = d.op
        BY <1>2, <3>1 DEF IsLatest, Histories
      <3> QED
        BY <1>1, <2>2, <3>2
    <2> QED
      BY <2>1, <2>2 DEF PointerInstalledOnce, Blocked
  <1> QED
    BY <1>7, <1>8, <1>9 DEF AuthorityInv

(* The remaining quiet steps move no pointer and begin nothing.             *)
LEMMA OtherQuietStepsKeep ==
  ASSUME JournalInv, AuthorityInv, NEW p \in Proc,
         \/ WithIdleMutation(p) \/ Stop(p) \/ HistoryFails(p) \/ PointerFails(p)
         \/ acquireRecoveryClaimLock(p)
         \/ (\E c \in Proc : SpawnChild(p, c)) \/ ChildStep(p)
  PROVE  AuthorityInv'
  <1>1. Quiet
    BY QuietSteps
  <1>2. /\ pointer' = pointer
        /\ \A q \in Proc : /\ mode'[q] = "preparing" => mode[q] = "preparing"
                           /\ mode'[q] = "written" => /\ mode[q] = "written"
                                                      /\ draft'[q] = draft[q]
    <2> USE DEF durable, Goto, JournalInv, TypeOK, Idle
    <2>1. CASE WithIdleMutation(p)
      BY <2>1 DEF WithIdleMutation
    <2>2. CASE Stop(p)
      BY <2>2 DEF Stop
    <2>3. CASE HistoryFails(p) \/ PointerFails(p)
      BY <2>2, <2>3 DEF HistoryFails, PointerFails, PersistFails
    <2>4. CASE acquireRecoveryClaimLock(p)
      BY <2>4 DEF acquireRecoveryClaimLock
    <2>5. CASE \E c \in Proc : SpawnChild(p, c)
      BY <2>5 DEF SpawnChild
    <2>6. CASE ChildStep(p)
      BY <2>6 DEF ChildStep, inspectJoin, claimJoinLock, claimJoin
    <2> QED
      BY <2>1, <2>2, <2>3, <2>4, <2>5, <2>6
  <1> QED
    BY <1>1, <1>2, QuietKeeps

(* A fresh workspace satisfies the invariant.                               *)
LEMMA AuthorityInvInit == Init => AuthorityInv
  BY DEF Init, AuthorityInv, RecordsFinal, DraftLegal, PreparedOnReadable,
         PointerInstalledOnce, WrittenOwns, Blocked, Idle

(* Every step of the journal keeps it.                                      *)
LEMMA AuthorityInvNext ==
  JournalInv /\ JournalInv' /\ AuthorityInv /\ [Next]_vars => AuthorityInv'
  <1> SUFFICES ASSUME JournalInv, JournalInv', AuthorityInv, [Next]_vars
               PROVE  AuthorityInv'
    OBVIOUS
  <1>1. CASE UNCHANGED vars
    BY <1>1, QuietKeeps DEF vars, Quiet
  <1>2. ASSUME NEW p \in Proc,
               WithIdleMutation(p) \/ Stop(p) \/ PersistStep(p)
                 \/ SessionStep(p) \/ ChildStep(p)
        PROVE  AuthorityInv'
    <2>1. CASE WithIdleMutation(p) \/ Stop(p) \/ ChildStep(p)
      BY <2>1, OtherQuietStepsKeep
    <2>2. CASE PersistStep(p)
      BY <2>2, InstallSteps, InstallsKeeps, PointerMovesKeep, OtherQuietStepsKeep
         DEF PersistStep
    <2>3. CASE SessionStep(p)
      BY <2>3, BeginKeeps, SessionWrites, StartsKeeps, PointerMovesKeep,
         OtherQuietStepsKeep
         DEF SessionStep
    <2> QED
      BY <1>2, <2>1, <2>2, <2>3
  <1> QED
    BY <1>1, <1>2 DEF Next

(* AuthorityInv is an invariant: a settled record is followed only by       *)
(* acknowledgements, and the pointer never names a blocking record of       *)
(* another operation than the unsettled one.                                *)
THEOREM AuthorityInvariant == Spec => []AuthorityInv
  BY JournalInvariant, AuthorityInvInit, AuthorityInvNext, PTL DEF Spec

-----------------------------------------------------------------------------

(* What a step adds to the history keeps every settled outcome.             *)
LEMMA FinalStep ==
  ASSUME JournalInv, AuthorityInv, AuthorityInv', [Next]_vars
  PROVE  /\ hist \subseteq hist'
         /\ \A r \in hist' \ hist, q \in hist :
              q.op = r.op /\ q.status # Active =>
                  /\ r.status = q.status /\ r.phase = q.phase
                  /\ r.pending < q.pending
  <1>1. CASE hist' = hist
    BY <1>1
  <1>2. ASSUME NEW p \in Proc, Installs(p)
        PROVE  /\ hist \subseteq hist'
               /\ \A r \in hist' \ hist, q \in hist :
                    q.op = r.op /\ q.status # Active =>
                        /\ r.status = q.status /\ r.phase = q.phase
                        /\ r.pending < q.pending
    <2>1. hist' = hist \cup {draft[p]} /\ mode[p] = "writing" /\ dirs' = dirs
      BY <1>2 DEF Installs
    <2>2. IsLatest(hist', draft[p].op, draft[p]) /\ LinearHistory'
      BY <2>1, InstallDraft
    <2>3. ASSUME NEW r \in hist' \ hist, NEW q \in hist, q.op = r.op, q.status # Active
          PROVE  After(q, r)
      <3>1. r = draft[p]
        BY <2>1, <2>3
      <3>2. q.seq <= r.seq /\ q \in hist' /\ r \in hist'
        BY <2>1, <2>2, <2>3, <3>1 DEF IsLatest, Histories
      <3>3. q.seq # r.seq
        BY <2>2, <2>3, <3>2 DEF LinearHistory
      <3>4. q.seq \in Nat /\ r.seq \in Nat
        BY <2>1, <2>3, <3>1 DEF JournalInv, TypeOK, DraftExtends, Record
      <3> QED
        BY <2>3, <3>2, <3>3, <3>4 DEF AuthorityInv, RecordsFinal
    <2> QED
      BY <2>1, <2>3 DEF After
  <1> QED
    BY <1>1, <1>2, StepShape DEF Quiet, Starts, vars

(* History is append-only and a settled outcome is final: whatever process  *)
(* recovers, retries or acknowledges, no later record of the operation has  *)
(* another status or phase, and each owes fewer closes than the one before. *)
THEOREM OutcomeIsFinal == Spec => SettledIsFinal
  <1>1. JournalInv /\ AuthorityInv /\ AuthorityInv' /\ [Next]_vars =>
          [/\ hist \subseteq hist'
           /\ \A r \in hist' \ hist, q \in hist :
                q.op = r.op /\ q.status # Active =>
                    /\ r.status = q.status /\ r.phase = q.phase
                    /\ r.pending < q.pending]_vars
    BY FinalStep
  <1> QED
    BY <1>1, JournalInvariant, AuthorityInvariant, PTL DEF Spec, SettledIsFinal

(* Who may start anything, and who may sign, reads every history first.     *)
LEMMA UnreadableStep ==
  ASSUME JournalInv, AuthorityInv, [Next]_vars, NEW o \in dirs, Unreadable(o)
  PROVE  /\ \A p \in Proc : mode'[p] # mode[p] =>
               mode'[p] \notin {"mutating", "preparing", "admitting",
                                "executing", "writing"}
         /\ \A r \in hist' \ hist : r.seq = 1 /\ r.op \in dirs
  <1>1. ~Readable(hist, dirs)
    BY ReadableHistories
  <1>2. ~LoadOK(hist, dirs, pointer)
    BY <1>1 DEF LoadOK
  <1>3. ASSUME NEW p \in Proc PROVE ~Starts(p)
    BY <1>2 DEF Starts, StartsOperation, StartsSuccessor, Unchanged, AuthorityInv,
                PreparedOnReadable
  <1>4. \A r \in hist' \ hist : r.seq = 1 /\ r.op \in dirs
    <2>1. ASSUME NEW p \in Proc, Installs(p), NEW r \in hist' \ hist
          PROVE  r.seq = 1 /\ r.op \in dirs
      <3>1. r = draft[p] /\ mode[p] = "writing"
        BY <2>1 DEF Installs
      <3>2. rec[p] = NoRec
        BY <3>1 DEF AuthorityInv, DraftLegal
      <3> QED
        BY <3>1, <3>2 DEF JournalInv, DraftExtends
    <2> QED
      BY <1>3, <2>1, StepShape DEF Quiet, vars
  <1>5. ASSUME NEW q \in Proc, mode'[q] # mode[q],
               mode'[q] \in {"mutating", "preparing", "admitting", "executing",
                             "writing"}
        PROVE  FALSE
    <2>1. PICK p \in Proc : WithIdleMutation(p) \/ Stop(p) \/ PersistStep(p)
                              \/ SessionStep(p) \/ ChildStep(p)
      BY <1>5 DEF Next, vars
    <2> USE DEF Goto, JournalInv, TypeOK, Idle
    <2>2. CASE WithIdleMutation(p) \/ Begin(p)
      BY <1>2, <2>2 DEF WithIdleMutation, Begin
    <2>3. CASE Stop(p)
      BY <1>5, <2>3 DEF Stop
    <2>4. CASE PersistStep(p)
      BY <1>5, <2>3, <2>4
         DEF PersistStep, HistoryInstalled, HistoryInstalledUnconfirmed, HistoryFails,
             PointerInstalled, PointerInstalledUnconfirmed, PointerFails, PersistFails
    <2>5. CASE \E a \in Op : OpenRecovery(p, a)
      BY <1>1, <2>5 DEF OpenRecovery, RecoverOK
    <2>6. CASE acquireRecoveryClaimLock(p) \/ ReconcileForRecovery(p)
                 \/ \E c \in Proc : SpawnChild(p, c)
      BY <1>5, <2>6 DEF acquireRecoveryClaimLock, ReconcileForRecovery, SpawnChild
    <2>7. CASE ChildStep(p)
      BY <1>2, <1>5, <2>7 DEF ChildStep, inspectJoin, claimJoinLock, claimJoin
    <2>8. CASE SessionStep(p)
      BY <1>3, <2>2, <2>5, <2>6, <2>8, SessionWrites DEF SessionStep
    <2> QED
      BY <2>1, <2>2, <2>3, <2>4, <2>7, <2>8
  <1> QED
    BY <1>4, <1>5

(* A crash that left an empty directory, or a history at its limit, fails   *)
(* closed: nothing starts and nothing but a first record is signed.         *)
THEOREM UnreadableIsClosed == Spec => UnreadableFailsClosed
  <1>1. JournalInv /\ AuthorityInv /\ [Next]_vars =>
          [(\E o \in dirs : Unreadable(o)) =>
             /\ \A p \in Proc : mode'[p] # mode[p] =>
                   mode'[p] \notin {"mutating", "preparing", "admitting",
                                    "executing", "writing"}
             /\ \A r \in hist' \ hist : r.seq = 1 /\ r.op \in dirs]_vars
    BY UnreadableStep
  <1> QED
    BY <1>1, JournalInvariant, AuthorityInvariant, PTL
       DEF Spec, UnreadableFailsClosed

-----------------------------------------------------------------------------

(* A directory that has records has an active head exactly when its         *)
(* operation is unsettled.                                                  *)
LEMMA ActiveHeadIsUnsettled ==
  ASSUME JournalInv, NEW o \in dirs, Histories(hist, o) # {},
         ActiveHead(hist, dirs, o)
  PROVE  Unsettled(o)
  <1>1. PICK r \in hist : r.op = o
    BY DEF Histories
  <1>2. IsLatest(hist, o, Latest(hist, o))
    BY <1>1, LatestChosen DEF JournalInv
  <1> QED
    BY <1>2 DEF ActiveHead, Unsettled, IsLatest, Histories

(* Histories within the limit are read back whole.                          *)
LEMMA ReadableJournal ==
  ASSUME JournalInv, AuthorityInv, HistoriesReadable
  PROVE  Readable(hist, dirs)
  <1>1. ASSUME NEW o \in dirs PROVE WellFormed(hist, o)
    <2>1. PICK r \in hist : r.op = o
      BY DEF HistoriesReadable, Histories
    <2>2. \E q \in Histories(hist, o) : q.seq = 1
      BY <2>1 DEF AuthorityInv, RecordsFinal, Histories
    <2>3. ASSUME NEW q \in Histories(hist, o)
          PROVE  /\ q.seq <= HistoryLimit
                 /\ q.seq = 1 => q.prev = 0
                 /\ q.seq > 1 => \E x \in Histories(hist, o) :
                                    x.seq = q.seq - 1 /\ x.id = q.prev
                 /\ \A x \in Histories(hist, o) : x.seq = q.seq => x = q
      <3>1. q \in hist /\ q.op = o
        BY DEF Histories
      <3>2. q.seq <= HistoryLimit /\ (q.seq = 1 => q.prev = 0)
        BY <3>1 DEF HistoriesReadable, AuthorityInv, RecordsFinal
      <3>3. /\ q.seq > 1 => \E x \in hist : /\ x.op = o /\ x.seq = q.seq - 1
                                            /\ x.id = q.prev
            /\ \A x \in hist : x.op = o /\ x.seq = q.seq => x = q
        BY <3>1 DEF JournalInv, LinearHistory
      <3> QED
        BY <3>2, <3>3 DEF Histories
    <2> QED
      BY <2>2, <2>3 DEF WellFormed
  <1>2. ASSUME NEW a \in dirs, NEW b \in dirs,
               ActiveHead(hist, dirs, a), ActiveHead(hist, dirs, b)
        PROVE  a = b
    <2>1. Unsettled(a) /\ Unsettled(b)
      BY <1>2, ActiveHeadIsUnsettled DEF HistoriesReadable
    <2> QED
      BY <2>1 DEF JournalInv, TypeOK, OneUnsettledOperation
  <1> QED
    BY <1>1, <1>2 DEF Readable

(* Whoever finds the journal lock free can always recover the unsettled     *)
(* operation, and with none unsettled the journal loads or recovering the   *)
(* operation its pointer names repairs it.                                  *)
LEMMA RecoveryOpen ==
  ASSUME JournalInv, AuthorityInv
  PROVE  RecoveryReaches
  <1> SUFFICES ASSUME HistoriesReadable
               PROVE  /\ \A o \in Op : Unsettled(o) => RecoverOK(hist, dirs, pointer, o)
                      /\ LoadOK(hist, dirs, pointer)
                           \/ \E o \in Op : RecoverOK(hist, dirs, pointer, o)
    BY DEF RecoveryReaches
  <1>1. Readable(hist, dirs)
    BY ReadableJournal
  <1>2. \A a \in dirs : ActiveHead(hist, dirs, a) => Unsettled(a)
    BY ActiveHeadIsUnsettled DEF HistoriesReadable
  <1>3. ASSUME NEW o \in Op, Unsettled(o) PROVE RecoverOK(hist, dirs, pointer, o)
    <2>1. o \in dirs
      BY <1>3, UnsettledIsActiveHead DEF JournalInv
    <2>2. \A a \in dirs : ActiveHead(hist, dirs, a) => a = o
      BY <1>2, <1>3 DEF JournalInv, TypeOK, OneUnsettledOperation
    <2>3. Blocked(pointer) => pointer.op = o
      BY <1>3 DEF AuthorityInv, PointerInstalledOnce
    <2> QED
      BY <1>1, <2>1, <2>2, <2>3 DEF RecoverOK
  <1>4. CASE \E o \in Op : Unsettled(o)
    BY <1>3, <1>4
  <1>5. CASE \A o \in Op : ~Unsettled(o)
    <2>1. \A a \in dirs : ~ActiveHead(hist, dirs, a)
      BY <1>2, <1>5 DEF JournalInv, TypeOK
    <2>2. CASE pointer = NoRec
      BY <1>1, <1>3, <2>1, <2>2 DEF LoadOK
    <2>3. CASE pointer # NoRec
      <3>1. pointer.op \in dirs /\ pointer.op \in Op
        BY <2>3 DEF AuthorityInv, PointerInstalledOnce, JournalInv, TypeOK, HistoryShape
      <3>2. RecoverOK(hist, dirs, pointer, pointer.op)
        BY <1>1, <2>1, <3>1 DEF RecoverOK
      <3> QED
        BY <1>3, <3>1, <3>2
    <2> QED
      BY <2>2, <2>3
  <1> QED
    BY <1>3, <1>4, <1>5

(* The journal is never wedged: lost pointer writes, stale pointers and     *)
(* unconfirmed records leave every unsettled operation open to recovery.    *)
THEOREM NeverWedged == Spec => []RecoveryReaches
  BY JournalInvariant, AuthorityInvariant, RecoveryOpen, PTL

-----------------------------------------------------------------------------
(* The journal implements LifecycleAuthority.                              *)

Mutating == {p \in Proc : mode[p] = "mutating"}

(* Records of a decided operation agree on its outcome.                     *)
LEMMA OutcomeAgrees ==
  ASSUME JournalInv, AuthorityInv, NEW r \in hist, r.status # Active,
         NEW q \in hist, q.op = r.op, q.status # Active
  PROVE  q.status = r.status
  <1>1. r.seq \in Nat /\ q.seq \in Nat
    BY DEF JournalInv, TypeOK, Record
  <1>2. CASE q.seq = r.seq
    BY <1>2 DEF JournalInv, LinearHistory
  <1>3. CASE q.seq # r.seq
    BY <1>1, <1>3 DEF AuthorityInv, RecordsFinal, After
  <1> QED
    BY <1>2, <1>3

\* The abstract outcome of an operation is the status of its settled records,
\* and undecided while it has none.
OutcomeKnown ==
    \A o \in Op :
        /\ \A r \in hist : r.op = o /\ r.status # Active =>
              AuthorityOutcome[o] = r.status
        /\ (\A r \in hist : r.op = o => r.status = Active) =>
              AuthorityOutcome[o] = "undecided"

(* Both hold by the agreement of the settled records.                       *)
LEMMA OutcomeIs == JournalInv /\ AuthorityInv => OutcomeKnown
  <1> SUFFICES ASSUME JournalInv, AuthorityInv, NEW o \in Op
               PROVE  /\ \A r \in hist : r.op = o /\ r.status # Active =>
                            AuthorityOutcome[o] = r.status
                      /\ (\A r \in hist : r.op = o => r.status = Active) =>
                            AuthorityOutcome[o] = "undecided"
    BY DEF OutcomeKnown
  <1>1. ASSUME NEW r \in hist, r.op = o, r.status # Active
        PROVE  AuthorityOutcome[o] = r.status
    <2> DEFINE x == CHOOSE y \in hist : y.op = o /\ y.status # Active
    <2>1. x \in hist /\ x.op = o /\ x.status # Active
      BY <1>1
    <2>2. x.status = r.status
      BY <1>1, <2>1, OutcomeAgrees
    <2> QED
      BY <1>1, <2>2 DEF AuthorityOutcome
  <1> QED
    BY <1>1 DEF AuthorityOutcome

(* A new workspace is a new authority.                                      *)
LEMMA AuthorityStarts == Init => Authority!AuthorityInit
  <1> SUFFICES ASSUME Init PROVE Authority!AuthorityInit
    OBVIOUS
  <1>1. AuthorityStatus = [o \in Op |-> "new"]
    BY DEF Init, AuthorityStatus, Histories
  <1>2. AuthorityOutcome = [o \in Op |-> "undecided"]
    BY DEF Init, AuthorityOutcome
  <1>3. Mutating = {}
    BY DEF Init, Mutating, Idle
  <1> QED
    BY <1>1, <1>2, <1>3 DEF Authority!AuthorityInit, Authority!Undecided, Mutating

(* Without a new record neither the status nor the outcome of an operation  *)
(* changes.                                                                 *)
LEMMA SameHistory ==
  ASSUME hist' = hist
  PROVE  AuthorityStatus' = AuthorityStatus /\ AuthorityOutcome' = AuthorityOutcome
  BY DEF AuthorityStatus, AuthorityOutcome, Unsettled, IsLatest, Histories

\* The newest record of an operation decides whether it is open.
StatusKnown ==
    \A o \in Op : \A r \in hist : IsLatest(hist, o, r) =>
        AuthorityStatus[o] = IF recordBlocksMutation(r) THEN "open" ELSE "settled"

(* It does, because the newest record is unique.                            *)
LEMMA StatusIs == JournalInv => StatusKnown
  <1> SUFFICES ASSUME JournalInv, NEW o \in Op, NEW r \in hist, IsLatest(hist, o, r)
               PROVE  AuthorityStatus[o] =
                        IF recordBlocksMutation(r) THEN "open" ELSE "settled"
    BY DEF StatusKnown
  <1>1. Histories(hist, o) # {}
    BY DEF IsLatest
  <1>2. Unsettled(o) <=> recordBlocksMutation(r)
    BY LatestUnique DEF Unsettled, JournalInv, TypeOK
  <1> QED
    BY <1>1, <1>2 DEF AuthorityStatus

(* Installing a record opens its operation, decides it, releases it, or     *)
(* says nothing new.                                                        *)
LEMMA InstallImplements ==
  ASSUME JournalInv, AuthorityInv, JournalInv', AuthorityInv',
         NEW p \in Proc, Installs(p)
  PROVE  [Authority!AuthorityNext]_(Authority!authorityVars)
  <1> DEFINE d == draft[p]
             o == draft[p].op
  <1>0. OutcomeKnown /\ OutcomeKnown' /\ StatusKnown /\ StatusKnown'
    BY OutcomeIs, StatusIs, PTL
  <1>1. /\ mode[p] = "writing" /\ hist' = hist \cup {d} /\ dirs' = dirs
        /\ d \in Record /\ o \in Op
        /\ \A a \in Op : Unsettled(a) => a = o
    BY DEF Installs, JournalInv, DraftExtends, Record
  <1>2. IsLatest(hist', o, d) /\ LinearHistory' /\ hist' \subseteq Record
    BY <1>1, InstallDraft DEF JournalInv, TypeOK
  <1>3. Mutating = {} /\ Mutating' = {}
    <2>1. \A q \in Proc : q # p => mode[q] # "mutating"
      BY <1>1, OneLockHolder DEF SessionMode
    <2> QED
      BY <1>1, <2>1 DEF Mutating, Installs, Idle
  <1>4. ASSUME NEW a \in Op, a # o
        PROVE  /\ AuthorityStatus'[a] = AuthorityStatus[a]
               /\ AuthorityOutcome'[a] = AuthorityOutcome[a]
    <2>1. Histories(hist', a) = Histories(hist, a)
      BY <1>1, <1>4 DEF Histories
    <2>2. Unsettled(a)' <=> Unsettled(a)
      BY <1>1, <2>1 DEF Unsettled, IsLatest, Histories
    <2>3. \A r : r \in hist' /\ r.op = a /\ r.status # Active
                   <=> r \in hist /\ r.op = a /\ r.status # Active
      BY <1>1, <1>4
    <2>4. AuthorityStatus'[a] = AuthorityStatus[a]
      BY <2>1, <2>2 DEF AuthorityStatus
    <2>5. AuthorityOutcome'[a] = AuthorityOutcome[a]
      <3>1. CASE \E r \in hist : r.op = a /\ r.status # Active
        <4>1. PICK r \in hist : r.op = a /\ r.status # Active
          BY <3>1
        <4>2. AuthorityOutcome[a] = r.status
          BY <1>0, <4>1 DEF OutcomeKnown
        <4>3. AuthorityOutcome'[a] = r.status
          BY <1>0, <1>1, <4>1 DEF OutcomeKnown
        <4> QED
          BY <4>2, <4>3
      <3>2. CASE \A r \in hist : r.op = a => r.status = Active
        BY <2>3, <3>2 DEF AuthorityOutcome
      <3> QED
        BY <3>1, <3>2
    <2> QED
      BY <2>4, <2>5
  <1>5. AuthorityStatus'[o] = IF recordBlocksMutation(d) THEN "open" ELSE "settled"
    BY <1>0, <1>1, <1>2 DEF StatusKnown
  <1>6. /\ AuthorityStatus \in [Op -> {"new", "open", "settled"}]
        /\ AuthorityStatus' \in [Op -> {"new", "open", "settled"}]
        /\ DOMAIN AuthorityOutcome = Op /\ DOMAIN AuthorityOutcome' = Op
        /\ AuthorityOutcome = [a \in Op |-> AuthorityOutcome[a]]
        /\ AuthorityOutcome' = [a \in Op |-> AuthorityOutcome'[a]]
    BY DEF AuthorityStatus, AuthorityOutcome
  <1>7. d.status # Active => AuthorityOutcome'[o] = d.status
    BY <1>0, <1>1 DEF OutcomeKnown
  <1>8. CASE rec[p] = NoRec
    <2>1. (\A r \in hist : r.op # o) /\ d.status = Active
      BY <1>1, <1>8 DEF JournalInv, DraftExtends, AuthorityInv, DraftLegal
    <2>2. AuthorityStatus[o] = "new" /\ ~Unsettled(o)
      BY <1>1, <2>1 DEF AuthorityStatus, Histories, Unsettled, IsLatest
    <2>3. \A a \in Op : AuthorityStatus[a] # "open"
      BY <1>1, <2>2 DEF AuthorityStatus
    <2>4. AuthorityStatus' = [AuthorityStatus EXCEPT ![o] = "open"]
      BY <1>1, <1>4, <1>5, <1>6, <2>1 DEF recordBlocksMutation
    <2>5. AuthorityOutcome'[o] = AuthorityOutcome[o]
      BY <1>1, <2>1 DEF AuthorityOutcome
    <2>6. AuthorityOutcome' = AuthorityOutcome
      BY <1>4, <1>6, <2>5
    <2>7. Authority!Open(o)
      BY <1>3, <2>2, <2>3, <2>4, <2>6 DEF Authority!Open, Authority!Unowned, Mutating
    <2> QED
      BY <1>1, <2>7 DEF Authority!AuthorityNext
  <1>9. CASE rec[p] # NoRec
    <2>1. /\ IsLatest(hist, o, rec[p]) /\ After(rec[p], d)
          /\ rec[p] \in hist /\ rec[p].op = o
      BY <1>1, <1>9 DEF JournalInv, DraftExtends, AuthorityInv, DraftLegal, IsLatest,
                        Histories
    <2>2. rec[p].pending \in Nat /\ d.pending \in Nat /\ rec[p] \in Record
      BY <1>1, <2>1 DEF JournalInv, TypeOK, Record
    <2>3. recordBlocksMutation(rec[p])
      BY <2>1, <2>2 DEF After, recordBlocksMutation
    <2>4. AuthorityStatus[o] = "open"
      BY <1>0, <1>1, <2>1, <2>3 DEF StatusKnown
    <2>5. CASE rec[p].status = Active
      <3>1. ASSUME NEW r \in hist, r.op = o PROVE r.status = Active
        <4>1. r.seq <= rec[p].seq /\ r.seq \in Nat /\ rec[p].seq \in Nat
          BY <2>1, <2>2, <3>1 DEF IsLatest, Histories, JournalInv, TypeOK, Record
        <4>2. CASE r.seq = rec[p].seq
          BY <2>1, <2>5, <3>1, <4>2 DEF JournalInv, LinearHistory
        <4>3. CASE r.seq < rec[p].seq
          BY <2>1, <2>5, <3>1, <4>3 DEF AuthorityInv, RecordsFinal, After
        <4> QED
          BY <4>1, <4>2, <4>3
      <3>2. AuthorityOutcome[o] = "undecided"
        BY <1>0, <1>1, <3>1 DEF OutcomeKnown
      <3>3. CASE d.status = Active
        <4>1. AuthorityOutcome'[o] = "undecided"
          BY <1>1, <3>1, <3>3 DEF AuthorityOutcome
        <4>2. AuthorityStatus'[o] = "open"
          BY <1>5, <3>3 DEF recordBlocksMutation
        <4>3. AuthorityOutcome' = AuthorityOutcome /\ AuthorityStatus' = AuthorityStatus
          BY <1>4, <1>6, <2>4, <3>2, <4>1, <4>2
        <4> QED
          BY <1>3, <4>3 DEF Authority!authorityVars, Mutating
      <3>4. CASE d.status # Active
        <4>1. d.status \in {Succeeded, Recovered}
          BY <1>1, <3>4 DEF Record, Status
        <4>2. AuthorityOutcome' = [AuthorityOutcome EXCEPT ![o] = d.status]
          BY <1>1, <1>4, <1>6, <1>7, <3>4
        <4>3. AuthorityStatus' \in {AuthorityStatus,
                                    [AuthorityStatus EXCEPT ![o] = "settled"]}
          <5>1. CASE recordBlocksMutation(d)
            BY <1>4, <1>5, <1>6, <2>4, <5>1
          <5>2. CASE ~recordBlocksMutation(d)
            BY <1>1, <1>4, <1>5, <1>6, <5>2
          <5> QED
            BY <5>1, <5>2
        <4>4. Authority!Decide(o, d.status)
          BY <1>3, <2>4, <3>2, <4>2, <4>3
             DEF Authority!Decide, Authority!Undecided, Mutating
        <4> QED
          BY <1>1, <4>1, <4>4 DEF Authority!AuthorityNext
      <3> QED
        BY <3>3, <3>4
    <2>6. CASE rec[p].status # Active
      <3>1. AuthorityOutcome[o] = rec[p].status /\ AuthorityOutcome'[o] = d.status
            /\ d.status = rec[p].status
        BY <1>0, <1>1, <1>7, <2>1, <2>6 DEF OutcomeKnown, After
      <3>2. AuthorityOutcome' = AuthorityOutcome
        BY <1>4, <1>6, <3>1
      <3>3. CASE recordBlocksMutation(d)
        <4>1. AuthorityStatus' = AuthorityStatus
          BY <1>4, <1>5, <1>6, <2>4, <3>3
        <4> QED
          BY <1>3, <3>2, <4>1 DEF Authority!authorityVars, Mutating
      <3>4. CASE ~recordBlocksMutation(d)
        <4>1. AuthorityStatus' = [AuthorityStatus EXCEPT ![o] = "settled"]
          BY <1>1, <1>4, <1>5, <1>6, <3>4
        <4>2. AuthorityOutcome[o] # "undecided"
          BY <2>2, <2>6, <3>1 DEF Record, Status, Succeeded, Recovered, Active
        <4>3. Authority!Release(o)
          BY <1>3, <2>4, <3>2, <4>1, <4>2
             DEF Authority!Release, Authority!Undecided, Mutating
        <4> QED
          BY <1>1, <4>3 DEF Authority!AuthorityNext
      <3> QED
        BY <3>3, <3>4
    <2> QED
      BY <2>5, <2>6
  <1> QED
    BY <1>8, <1>9

(* An ordinary mutation begins only while no operation is open, and ends    *)
(* with its process.                                                        *)
LEMMA MutationImplements ==
  ASSUME JournalInv, NEW p \in Proc, WithIdleMutation(p) \/ Stop(p)
  PROVE  [Authority!AuthorityNext]_(Authority!authorityVars)
  <1>1. AuthorityStatus' = AuthorityStatus /\ AuthorityOutcome' = AuthorityOutcome
    BY SameHistory DEF WithIdleMutation, Stop, durable
  <1>2. CASE WithIdleMutation(p)
    <2>1. \A o \in Op : ~Unsettled(o)
      BY <1>2, LoadedIdle DEF WithIdleMutation, JournalInv
    <2>2. \A o \in Op : AuthorityStatus[o] # "open"
      BY <2>1 DEF AuthorityStatus
    <2>3. \A q \in Proc : mode[q] # "mutating"
      BY <1>2 DEF WithIdleMutation, openLocked, JournalInv, LockHeld
    <2>4. Mutating = {} /\ Mutating' = {p}
      BY <1>2, <2>3 DEF Mutating, WithIdleMutation, Goto, JournalInv, TypeOK
    <2>5. Authority!Mutate(p)
      BY <1>1, <2>2, <2>4 DEF Authority!Mutate, Authority!Unowned, Mutating
    <2> QED
      BY <2>5 DEF Authority!AuthorityNext
  <1>3. CASE Stop(p)
    <2>1. \A q \in Proc : q # p => (mode'[q] = "mutating" <=> mode[q] = "mutating")
      BY <1>3 DEF Stop, JournalInv, TypeOK, SessionShape
    <2>2. mode'[p] # "mutating"
      BY <1>3 DEF Stop, Idle
    <2>3. CASE mode[p] = "mutating"
      <3>1. \A q \in Proc : q # p => mode[q] # "mutating"
        BY <2>3, OneLockHolder
      <3>2. Mutating' = {}
        BY <2>1, <2>2, <3>1 DEF Mutating
      <3> QED
        BY <1>1, <3>2 DEF Authority!AuthorityNext, Authority!MutationEnds, Mutating
    <2>4. CASE mode[p] # "mutating"
      <3>1. Mutating' = Mutating
        BY <2>1, <2>2, <2>4 DEF Mutating
      <3> QED
        BY <1>1, <3>1 DEF Authority!authorityVars, Mutating
    <2> QED
      BY <2>3, <2>4
  <1> QED
    BY <1>2, <1>3

(* Every other step is one the authority does not see.                      *)
LEMMA OtherStepsImplement ==
  ASSUME JournalInv, NEW p \in Proc,
         \/ Begin(p) \/ Starts(p)
         \/ PointerInstalled(p) \/ PointerInstalledUnconfirmed(p)
         \/ (rec[p] # NoRec /\ (HistoryFails(p) \/ PointerFails(p)))
         \/ (\E o \in Op : OpenRecovery(p, o))
         \/ acquireRecoveryClaimLock(p) \/ ReconcileForRecovery(p)
         \/ (\E c \in Proc : SpawnChild(p, c)) \/ ChildStep(p)
  PROVE  UNCHANGED Authority!authorityVars
  <1>1. hist' = hist
    BY QuietSteps DEF Quiet, Starts
  <1>2. \A q \in Proc : mode'[q] = "mutating" <=> mode[q] = "mutating"
    <2> USE DEF Goto, JournalInv, TypeOK, Idle
    <2>1. CASE Begin(p) \/ Starts(p)
      BY <2>1 DEF Begin, openLocked, Starts, StartsOperation, StartsSuccessor
    <2>2. CASE PointerInstalled(p) \/ PointerInstalledUnconfirmed(p)
      BY <2>2 DEF PointerInstalled, PointerInstalledUnconfirmed
    <2>3. CASE rec[p] # NoRec /\ (HistoryFails(p) \/ PointerFails(p))
      BY <2>3 DEF HistoryFails, PointerFails, PersistFails
    <2>4. CASE \E o \in Op : OpenRecovery(p, o)
      BY <2>4 DEF OpenRecovery, openLocked
    <2>5. CASE acquireRecoveryClaimLock(p) \/ ReconcileForRecovery(p)
      BY <2>5 DEF acquireRecoveryClaimLock, ReconcileForRecovery
    <2>6. CASE \E c \in Proc : SpawnChild(p, c)
      BY <2>6 DEF SpawnChild
    <2>7. CASE ChildStep(p)
      BY <2>7 DEF ChildStep, inspectJoin, claimJoinLock, claimJoin
    <2> QED
      BY <2>1, <2>2, <2>3, <2>4, <2>5, <2>6, <2>7
  <1> QED
    BY <1>1, <1>2, SameHistory DEF Authority!authorityVars

(* Every step of the journal is a step of the authority or a stutter.       *)
LEMMA StepImplements ==
  JournalInv /\ AuthorityInv /\ JournalInv' /\ AuthorityInv' /\ [Next]_vars =>
    [Authority!AuthorityNext]_(Authority!authorityVars)
  <1> SUFFICES ASSUME JournalInv, AuthorityInv, JournalInv', AuthorityInv', [Next]_vars
               PROVE  [Authority!AuthorityNext]_(Authority!authorityVars)
    OBVIOUS
  <1>1. CASE UNCHANGED vars
    BY <1>1, SameHistory DEF vars, Authority!authorityVars
  <1>2. ASSUME NEW p \in Proc,
               WithIdleMutation(p) \/ Stop(p) \/ PersistStep(p)
                 \/ SessionStep(p) \/ ChildStep(p)
        PROVE  [Authority!AuthorityNext]_(Authority!authorityVars)
    <2>1. CASE WithIdleMutation(p) \/ Stop(p)
      BY <2>1, MutationImplements
    <2>2. CASE HistoryFails(p) \/ PointerFails(p)
      BY <2>2, MutationImplements, OtherStepsImplement
         DEF HistoryFails, PointerFails, PersistFails
    <2>3. CASE PersistStep(p)
      BY <2>2, <2>3, InstallSteps, InstallImplements, OtherStepsImplement
         DEF PersistStep
    <2>4. CASE SessionStep(p)
      BY <2>4, SessionWrites, OtherStepsImplement DEF SessionStep
    <2>5. CASE ChildStep(p)
      BY <2>5, OtherStepsImplement
    <2> QED
      BY <1>2, <2>1, <2>3, <2>4, <2>5
  <1> QED
    BY <1>1, <1>2 DEF Next

(* The journal implements the abstract authority: over every interleaving,  *)
(* crash, unconfirmed write and recovery, operations own the workspace one  *)
(* at a time, decide once, and exclude ordinary mutations.                  *)
THEOREM JournalImplementsAuthority == Spec => ImplementsAuthority
  BY JournalInvariant, AuthorityInvariant, AuthorityStarts, StepImplements, PTL
     DEF Spec, ImplementsAuthority, Authority!AuthoritySpec

-----------------------------------------------------------------------------
(* The invariant about joined children is preserved.                       *)

(* A child was admitted by an active record; if that is the newest of its   *)
(* operation, the operation is unsettled.                                   *)
LEMMA ChildIsAdmitted ==
  ASSUME JournalInv, AuthorityInv, ChildInv, NEW c \in Proc, mode[c] \in ChildMode
  PROVE  /\ rec[c] \in hist /\ rec[c] \in Record /\ rec[c].op \in Op
         /\ rec[c] # NoRec /\ rec[c].seq \in Nat
         /\ IsLatest(hist, rec[c].op, rec[c]) => Unsettled(rec[c].op)
  <1>1. rec[c] \in Record /\ rec[c] # NoRec
    BY DEF JournalInv, SessionShape, Record, NoRec
  <1>2. rec[c] \in hist /\ Joins(rec[c])
    BY <1>1 DEF ChildInv, SessionOwns, Owns
  <1>3. rec[c].status = Active
    BY <1>2 DEF AuthorityInv, RecordsFinal, JoinsWhileActive, Joins
  <1> QED
    BY <1>1, <1>2, <1>3 DEF Unsettled, recordBlocksMutation, Record

(* While a Session is neither admitting nor waiting no child executes.      *)
LEMMA SessionExcludesChild ==
  ASSUME ChildInv, NEW p \in Proc, mode[p] \in SessionMode \ {"admitting", "waiting"},
         NEW c \in Proc
  PROVE  mode[c] # "executing"
  BY DEF ChildInv, JoinedChildExclusive

(* A mutation or a new operation finds no child executing.                  *)
LEMMA ChildAdmission ==
  ASSUME JournalInv, AuthorityInv, ChildInv, NEW p \in Proc,
         WithIdleMutation(p) \/ Begin(p)
  PROVE  ChildInv'
  <1> USE DEF WithIdleMutation, Begin, openLocked, Goto, durable
  <1>1. \A o \in Op : ~Unsettled(o)
    BY LoadedIdle DEF JournalInv
  <1>2. \A c \in Proc : mode[c] # "executing"
    BY <1>1, ChildIsAdmitted DEF ChildInv, JoinedChildExclusive, ChildMode
  <1>3. /\ mode'[p] \in {"mutating", "preparing"} /\ rec[p] = NoRec
        /\ \A q \in Proc : q # p => mode'[q] = mode[q]
    BY DEF JournalInv, TypeOK, SessionShape
  <1>4. \A q \in Proc : q # p => mode[q] \notin SessionMode
    BY DEF JournalInv, LockHeld
  <1>5. SessionOwns'
    <2>1. hist' = hist /\ \A o : Unsettled(o)' <=> Unsettled(o)
      BY DEF Unsettled, IsLatest, Histories
    <2>2. Owns(p)'
      BY <1>3 DEF Owns, SessionMode, ChildMode
    <2>3. ASSUME NEW q \in Proc, q # p PROVE Owns(q)'
      BY <1>3, <1>4, <2>1, <2>3
         DEF ChildInv, SessionOwns, Owns, SessionMode, ChildMode
    <2> QED
      BY <2>2, <2>3 DEF SessionOwns
  <1>6. ChildrenBehind'
    BY <1>3, <1>4 DEF ChildrenBehind, Behind
  <1>7. ClaimCustody' /\ JoinedChildExclusive'
    <2>1. \A c \in Proc : mode'[c] # "executing" /\ (mode'[c] = "locked" => mode[c] = "locked")
      BY <1>2, <1>3
    <2> QED
      BY <2>1 DEF ChildInv, ClaimCustody, JoinedChildExclusive
  <1> QED
    BY <1>5, <1>6, <1>7 DEF ChildInv

(* Close or a crash: a parent that goes on has no other child.              *)
LEMMA ChildStop ==
  ASSUME JournalInv, AuthorityInv, ChildInv, NEW p \in Proc, Stop(p)
  PROVE  ChildInv'
  <1>1. hist' = hist /\ claims' = claims /\ \A o : Unsettled(o)' <=> Unsettled(o)
    BY DEF Stop, durable, Unsettled, IsLatest, Histories
  <1>2. /\ mode'[p] = Idle
        /\ \A q \in Proc : q # p =>
              /\ rec'[q] = rec[q] /\ draft'[q] = draft[q] /\ child'[q] = child[q] \ {p}
              /\ \/ mode'[q] = mode[q]
                 \/ mode[q] = "waiting" /\ mode'[q] = "open" /\ child[q] = {p}
        /\ \A o \in Op : claimLock'[o] = claimLock[o] \ {p}
    BY DEF Stop, JournalInv, TypeOK, SessionShape
  <1>3. p \notin {q \in Proc : mode'[q] \in SessionMode \cup ChildMode}
    BY <1>2 DEF SessionMode, ChildMode, Idle
  <1>4. SessionOwns'
    BY <1>1, <1>2, <1>3 DEF ChildInv, SessionOwns, Owns, SessionMode, ChildMode,
                            IsLatest, Idle
  <1>5. ChildrenBehind'
    <2> SUFFICES ASSUME NEW q \in Proc, NEW c \in Proc,
                        mode'[q] \in SessionMode, mode'[c] \in ChildMode
                 PROVE  Behind(q, c)'
      BY DEF ChildrenBehind
    <2>1. q # p /\ c # p
      BY <1>3
    <2>2. /\ mode[q] \in SessionMode /\ mode[c] = mode'[c] /\ rec'[q] = rec[q]
          /\ rec'[c] = rec[c] /\ draft'[q] = draft[q] /\ child'[q] = child[q] \ {p}
      BY <1>2, <2>1 DEF SessionMode, ChildMode
    <2>3. mode'[q] \in {"writing", "written"} => mode[q] = mode'[q]
      BY <1>2, <2>1
    <2>4. ASSUME rec[q] # NoRec, rec[c].op = rec[q].op
          PROVE  /\ rec[c].seq <= rec[q].seq
                 /\ rec[c].seq = rec[q].seq =>
                       \/ mode[q] = "admitting"
                       \/ mode[q] = "waiting" /\ child[q] = {c}
                       \/ mode[q] \in {"open", "writing"} /\ q \in claimLock[rec[q].op]
      BY <2>2, <2>4 DEF ChildInv, ChildrenBehind, Behind
    <2>5. rec[q] = NoRec /\ mode[q] \in {"writing", "written"} => rec[c].op # draft[q].op
      BY <2>2 DEF ChildInv, ChildrenBehind, Behind
    <2>6. rec[q] # NoRec => rec[q].op \in Op
      BY DEF JournalInv, TypeOK, Record
    <2>7. \/ mode'[q] = mode[q]
          \/ mode[q] = "waiting" /\ mode'[q] = "open" /\ child[q] = {p}
      BY <1>2, <2>1
    <2>8. child[q] = {c} => child'[q] = {c} /\ child[q] # {p}
      BY <2>1, <2>2
    <2>9. rec[q] # NoRec /\ q \in claimLock[rec[q].op] => q \in claimLock'[rec[q].op]
      BY <1>2, <2>1, <2>6
    <2> QED
      BY <2>2, <2>3, <2>4, <2>5, <2>7, <2>8, <2>9 DEF Behind
  <1>6. ClaimCustody'
    <2>0. \A o \in Op : \A a, b \in claimLock[o] : a = b
      BY DEF ChildInv, ClaimCustody
    <2>1. ASSUME NEW o \in Op, NEW a \in claimLock'[o], NEW b \in claimLock'[o]
          PROVE  a = b
      <3>1. a \in claimLock[o] /\ b \in claimLock[o]
        BY <1>2, <2>1
      <3> QED
        BY <2>0, <3>1
    <2>2. ASSUME NEW c \in Proc, mode'[c] \in {"locked", "executing"}
          PROVE  /\ c # p /\ mode[c] = mode'[c] /\ rec'[c] = rec[c]
                 /\ rec[c].op \in Op
                 /\ c \in claimLock[rec[c].op] => c \in claimLock'[rec[c].op]
      <3>1. c # p /\ mode[c] = mode'[c] /\ rec'[c] = rec[c]
        BY <1>2, <2>2 DEF Idle
      <3>2. rec[c].op \in Op
        BY <2>2, <3>1, ChildIsAdmitted DEF ChildMode
      <3> QED
        BY <1>2, <3>1, <3>2
    <2> QED
      BY <1>1, <2>1, <2>2 DEF ChildInv, ClaimCustody, Claimed
  <1>7. JoinedChildExclusive'
    <2> SUFFICES ASSUME NEW c \in Proc, mode'[c] = "executing"
                 PROVE  /\ IsLatest(hist', rec'[c].op, rec'[c])
                        /\ \A q \in Proc \ {c} : mode'[q] \notin {"executing", "mutating"}
                        /\ \A q \in Proc : mode'[q] \in SessionMode \ {"admitting"} =>
                              mode'[q] = "waiting" /\ child'[q] = {c}
      BY DEF JoinedChildExclusive
    <2>1. c # p /\ mode[c] = "executing" /\ rec'[c] = rec[c]
      BY <1>2 DEF Idle
    <2>2. /\ IsLatest(hist, rec[c].op, rec[c])
          /\ \A q \in Proc \ {c} : mode[q] \notin {"executing", "mutating"}
          /\ \A q \in Proc : mode[q] \in SessionMode \ {"admitting"} =>
                mode[q] = "waiting" /\ child[q] = {c}
      BY <2>1 DEF ChildInv, JoinedChildExclusive
    <2>3. \A q \in Proc \ {c} : mode'[q] \notin {"executing", "mutating"}
      BY <1>2, <2>2 DEF Idle
    <2>4. ASSUME NEW q \in Proc, mode'[q] \in SessionMode \ {"admitting"}
          PROVE  mode'[q] = "waiting" /\ child'[q] = {c}
      <3>1. q # p
        BY <1>3, <2>4
      <3>2. mode[q] \in SessionMode \ {"admitting"}
        BY <1>2, <2>4, <3>1 DEF SessionMode
      <3>3. mode[q] = "waiting" /\ child[q] = {c}
        BY <2>2, <3>2
      <3> QED
        BY <1>2, <2>1, <3>1, <3>3
    <2> QED
      BY <1>1, <2>1, <2>2, <2>3, <2>4
  <1> QED
    BY <1>4, <1>5, <1>6, <1>7 DEF ChildInv

(* A step of the process `p` that holds the journal lock, or takes it, and  *)
(* leaves every child alone.                                                *)
LEMMA SessionStepKeepsChildren ==
  ASSUME JournalInv, AuthorityInv, ChildInv, NEW p \in Proc,
         mode[p] \in SessionMode \/ lock = {},
         hist \subseteq hist', claims' = claims,
         \A q \in Proc : q # p => mode'[q] = mode[q] /\ rec'[q] = rec[q],
         mode'[p] \notin ChildMode \cup {"mutating"},
         \A o \in Op : \/ claimLock'[o] = claimLock[o]
                       \/ claimLock'[o] = claimLock[o] \ {p}
                       \/ claimLock[o] = {} /\ claimLock'[o] = {p},
         \/ \A c \in Proc : mode[c] # "executing"
         \/ hist' = hist /\ mode'[p] = "admitting",
         Owns(p)',
         \A c \in Proc : mode'[c] \in ChildMode => Behind(p, c)'
  PROVE  ChildInv'
  <1>1. \A q \in Proc : q # p => mode[q] \notin SessionMode
    BY OneLockHolder DEF JournalInv, LockHeld
  <1>2. SessionOwns'
    <2> SUFFICES ASSUME NEW q \in Proc, q # p PROVE Owns(q)'
      BY DEF SessionOwns
    <2>1. mode'[q] \notin SessionMode /\ mode'[q] = mode[q] /\ rec'[q] = rec[q]
      BY <1>1
    <2>2. mode[q] \in ChildMode /\ rec[q] # NoRec => rec[q] \in hist
      BY DEF ChildInv, SessionOwns, Owns
    <2>3. mode[q] \in ChildMode => Joins(rec[q])
      BY DEF ChildInv, SessionOwns, Owns
    <2>4. Joins(rec[q])' = Joins(rec[q])
      BY <2>1 DEF Joins
    <2> QED
      BY <2>1, <2>2, <2>3, <2>4 DEF Owns, SessionMode
  <1>3. ChildrenBehind'
    BY <1>1 DEF ChildrenBehind
  <1>4. ClaimCustody'
    <2>0. \A o \in Op : \A a, b \in claimLock[o] : a = b
      BY DEF ChildInv, ClaimCustody
    <2>1. ASSUME NEW o \in Op, NEW a \in claimLock'[o], NEW b \in claimLock'[o]
          PROVE  a = b
      BY <2>0, <2>1
    <2>2. ASSUME NEW c \in Proc, mode'[c] \in {"locked", "executing"}
          PROVE  /\ mode[c] = mode'[c] /\ rec'[c] = rec[c]
                 /\ c \in claimLock[rec[c].op] => c \in claimLock'[rec[c].op]
      <3>1. c # p /\ mode[c] = mode'[c] /\ rec'[c] = rec[c]
        BY <2>2 DEF ChildMode
      <3>2. rec[c].op \in Op
        BY <2>2, <3>1, ChildIsAdmitted DEF ChildMode
      <3> QED
        BY <3>1, <3>2
    <2>3. ASSUME NEW c \in Proc, mode'[c] = "locked" PROVE c \in claimLock'[rec'[c].op]
      BY <2>2, <2>3 DEF ChildInv, ClaimCustody
    <2>4. ASSUME NEW c \in Proc, mode'[c] = "executing"
          PROVE  /\ \E k \in Custody : Claimed(rec[c], k)
                 /\ c \in claimLock'[rec[c].op] \/ Claimed(rec[c], "")
                 /\ rec'[c] = rec[c]
      BY <2>2, <2>4 DEF ChildInv, ClaimCustody
    <2> QED
      BY <2>1, <2>3, <2>4 DEF ClaimCustody, Claimed
  <1>5. JoinedChildExclusive'
    <2>1. CASE \A c \in Proc : mode[c] # "executing"
      BY <2>1 DEF JoinedChildExclusive, ChildMode
    <2>2. CASE hist' = hist /\ mode'[p] = "admitting"
      <3> SUFFICES ASSUME NEW c \in Proc, mode'[c] = "executing"
                   PROVE  /\ IsLatest(hist', rec'[c].op, rec'[c])
                          /\ \A q \in Proc \ {c} : mode'[q] \notin {"executing", "mutating"}
                          /\ \A q \in Proc : mode'[q] \in SessionMode \ {"admitting"} =>
                                mode'[q] = "waiting" /\ child'[q] = {c}
        BY DEF JoinedChildExclusive
      <3>1. c # p /\ mode[c] = "executing" /\ rec'[c] = rec[c]
        BY DEF ChildMode
      <3>2. /\ IsLatest(hist, rec[c].op, rec[c])
            /\ \A q \in Proc \ {c} : mode[q] \notin {"executing", "mutating"}
        BY <3>1 DEF ChildInv, JoinedChildExclusive
      <3> QED
        BY <1>1, <2>2, <3>1, <3>2
    <2> QED
      BY <2>1, <2>2
  <1> QED
    BY <1>2, <1>3, <1>4, <1>5 DEF ChildInv

(* A Session begins to persist a record: a first one belongs to no child.   *)
LEMMA ChildStarts ==
  ASSUME JournalInv, AuthorityInv, ChildInv, NEW p \in Proc, Starts(p)
  PROVE  ChildInv'
  <1>1. /\ mode[p] \in {"preparing", "open"} /\ mode'[p] = "writing"
        /\ hist' = hist /\ claims' = claims /\ claimLock' = claimLock /\ rec' = rec
        /\ \A q \in Proc : q # p => mode'[q] = mode[q]
    BY DEF Starts, StartsOperation, StartsSuccessor, JournalInv, TypeOK
  <1>2. mode[p] \in SessionMode /\ \A c \in Proc : mode[c] # "executing"
    BY <1>1, SessionExcludesChild DEF SessionMode
  <1>3. Owns(p)'
    <2>1. rec[p] # NoRec => rec[p] \in hist
      BY <1>2 DEF ChildInv, SessionOwns, Owns
    <2>2. rec[p] # NoRec => rec[p].op = draft'[p].op
      BY DEF Starts, StartsOperation, StartsSuccessor
    <2> QED
      BY <1>1, <2>1, <2>2 DEF Owns, ChildMode
  <1>4. ASSUME NEW c \in Proc, mode'[c] \in ChildMode PROVE Behind(p, c)'
    <2>1. c # p /\ mode[c] \in ChildMode
      BY <1>1, <1>4 DEF ChildMode
    <2>2. rec[c] \in hist
      BY <2>1, ChildIsAdmitted
    <2>3. CASE StartsOperation(p)
      <3>1. rec[p] = NoRec /\ draft'[p].op \notin dirs
        BY <2>3 DEF StartsOperation
      <3>2. rec[c].op \in dirs
        BY <2>2 DEF JournalInv, HistoryShape
      <3> QED
        BY <1>1, <3>1, <3>2 DEF Behind
    <2>4. CASE StartsSuccessor(p)
      <3>1. Behind(p, c) /\ mode[p] = "open"
        BY <1>2, <2>1, <2>4 DEF ChildInv, ChildrenBehind, StartsSuccessor
      <3>2. rec[p] # NoRec
        BY <2>4 DEF StartsSuccessor, Record, NoRec
      <3> QED
        BY <1>1, <3>1, <3>2 DEF Behind
    <2> QED
      BY <2>3, <2>4 DEF Starts
  <1> QED
    BY <1>1, <1>2, <1>3, <1>4, SessionStepKeepsChildren DEF ChildMode

(* The new record is newer than that of every child.                        *)
LEMMA ChildInstalls ==
  ASSUME JournalInv, AuthorityInv, ChildInv, NEW p \in Proc, Installs(p)
  PROVE  ChildInv'
  <1>1. /\ mode[p] = "writing" /\ hist' = hist \cup {draft[p]} /\ dirs' = dirs
        /\ claims' = claims /\ claimLock' = claimLock
        /\ \A q \in Proc : q # p => mode'[q] = mode[q] /\ rec'[q] = rec[q]
        /\ \/ mode'[p] = "written" /\ draft'[p] = draft[p]
              /\ rec'[p] = IF rec[p] = NoRec THEN NoRec ELSE draft[p]
           \/ mode'[p] = Idle /\ rec[p] = NoRec /\ rec'[p] = NoRec
           \/ mode'[p] = "open" /\ rec[p] # NoRec /\ rec'[p] = rec[p]
    BY DEF Installs
  <1>2. mode[p] \in SessionMode /\ \A c \in Proc : mode[c] # "executing"
    BY <1>1, SessionExcludesChild DEF SessionMode
  <1>3. /\ draft[p] \in Record
        /\ rec[p] # NoRec => /\ rec[p] \in hist /\ rec[p].op = draft[p].op
                             /\ draft[p].seq = rec[p].seq + 1
                             /\ rec[p].seq \in Nat
    BY <1>1 DEF JournalInv, DraftExtends, IsLatest, Histories, TypeOK, Record
  <1>4. \A o \in Op : Unsettled(o)' => o = draft[p].op
    BY <1>1, InstallDraft
  <1>5. Owns(p)'
    BY <1>1, <1>3, <1>4 DEF Owns, SessionMode, ChildMode, Idle
  <1>6. ASSUME NEW c \in Proc, mode'[c] \in ChildMode PROVE Behind(p, c)'
    <2>1. c # p /\ mode[c] \in ChildMode /\ rec'[c] = rec[c]
      BY <1>1, <1>6 DEF ChildMode, Idle
    <2>2. rec[c].seq \in Nat
      BY <2>1, ChildIsAdmitted
    <2>3. Behind(p, c)
      BY <1>2, <2>1 DEF ChildInv, ChildrenBehind
    <2>4. NoRec \notin Record
      BY DEF NoRec, Record
    <2> QED
      BY <1>1, <1>3, <2>1, <2>2, <2>3, <2>4 DEF Behind, Idle
  <1>7. mode'[p] \notin ChildMode \cup {"mutating"} /\ hist \subseteq hist'
    BY <1>1 DEF ChildMode, Idle
  <1> QED
    BY <1>1, <1>2, <1>5, <1>6, <1>7, SessionStepKeepsChildren

(* A pointer write or a failed write ends what the Session was writing.     *)
LEMMA ChildPersist ==
  ASSUME JournalInv, AuthorityInv, ChildInv, NEW p \in Proc,
         \/ PointerInstalled(p) \/ PointerInstalledUnconfirmed(p)
         \/ (rec[p] # NoRec /\ (HistoryFails(p) \/ PointerFails(p)))
  PROVE  ChildInv'
  <1> USE DEF HistoryFails, PointerFails, PersistFails, PointerInstalled,
              PointerInstalledUnconfirmed, Goto, durable
  <1>1. /\ mode[p] \in {"writing", "written"} /\ hist' = hist /\ claims' = claims
        /\ \A q \in Proc : q # p => mode'[q] = mode[q] /\ rec'[q] = rec[q]
    BY DEF JournalInv, TypeOK
  <1>2. mode[p] \in SessionMode /\ \A c \in Proc : mode[c] # "executing"
    BY <1>1, SessionExcludesChild DEF SessionMode
  <1>3. \/ /\ mode'[p] = "joining" /\ rec'[p] = draft[p] /\ mode[p] = "written"
           /\ Joins(draft[p])
           /\ claimLock' = [claimLock EXCEPT ![draft[p].op] = @ \ {p}]
        \/ /\ mode'[p] = "open" /\ rec'[p] = draft[p] /\ mode[p] = "written"
           /\ claimLock' = claimLock
        \/ mode'[p] = "open" /\ rec[p] # NoRec /\ rec' = rec /\ claimLock' = claimLock
        \/ mode'[p] = Idle /\ rec'[p] = NoRec /\ claimLock' = claimLock
    BY DEF JournalInv, TypeOK
  <1>4. mode[p] = "written" => /\ draft[p] \in hist /\ draft[p] \in Record
                               /\ \A o \in Op : Unsettled(o) => o = draft[p].op
                               /\ rec[p] # NoRec => rec[p] = draft[p]
    BY DEF JournalInv, DraftInstalled, IsLatest, Histories, AuthorityInv, WrittenOwns,
           ChildInv, SessionOwns, Owns
  <1>5. rec[p] # NoRec => /\ rec[p] \in hist
                          /\ \A o \in Op : Unsettled(o) => o = rec[p].op
    <2>1. CASE mode[p] = "written"
      BY <1>4, <2>1
    <2>2. CASE mode[p] = "writing"
      BY <2>2 DEF JournalInv, DraftExtends, IsLatest, Histories
    <2> QED
      BY <1>1, <2>1, <2>2
  <1>6. \A o : Unsettled(o)' <=> Unsettled(o)
    BY <1>1 DEF Unsettled, IsLatest, Histories
  <1> HIDE DEF HistoryFails, PointerFails, PersistFails, PointerInstalled,
               PointerInstalledUnconfirmed
  <1>7. Owns(p)'
    BY <1>1, <1>3, <1>4, <1>5, <1>6 DEF Owns, SessionMode, ChildMode, Idle, Joins
  <1>8. ASSUME NEW c \in Proc, mode'[c] \in ChildMode PROVE Behind(p, c)'
    <2>1. c # p /\ mode[c] \in ChildMode /\ rec'[c] = rec[c]
      BY <1>1, <1>3, <1>8 DEF ChildMode, Idle
    <2>2. rec[c].seq \in Nat
      BY <2>1, ChildIsAdmitted
    <2>3. Behind(p, c)
      BY <1>2, <2>1 DEF ChildInv, ChildrenBehind
    <2> QED
      BY <1>1, <1>3, <1>4, <2>1, <2>2, <2>3 DEF Behind, Idle
  <1>9. /\ mode'[p] \notin ChildMode \cup {"mutating"}
        /\ \A o \in Op : claimLock'[o] = claimLock[o] \/ claimLock'[o] = claimLock[o] \ {p}
    BY <1>3 DEF ChildMode, Idle, JournalInv, TypeOK
  <1> QED
    BY <1>1, <1>2, <1>7, <1>8, <1>9, SessionStepKeepsChildren

(* Recovery reads the newest record, so no child is admitted by a newer one. *)
LEMMA ChildRecovery ==
  ASSUME JournalInv, AuthorityInv, ChildInv, NEW p \in Proc,
         (\E o \in Op : OpenRecovery(p, o)) \/ ReconcileForRecovery(p)
  PROVE  ChildInv'
  <1>1. PICK o \in Op :
          /\ RecoverOK(hist, dirs, pointer, o) /\ rec'[p] = Latest(hist, o)
          /\ \/ /\ mode[p] = Idle /\ lock = {} /\ mode'[p] = "admitting"
             \/ /\ mode[p] = "open" /\ mode'[p] = "open" /\ o = rec[p].op
          /\ hist' = hist /\ claims' = claims /\ claimLock' = claimLock
          /\ \A q \in Proc : q # p => mode'[q] = mode[q] /\ rec'[q] = rec[q]
    <2>1. ASSUME NEW o \in Op, OpenRecovery(p, o)
          PROVE  /\ RecoverOK(hist, dirs, pointer, o) /\ rec'[p] = Latest(hist, o)
                 /\ mode[p] = Idle /\ lock = {} /\ mode'[p] = "admitting"
                 /\ hist' = hist /\ claims' = claims /\ claimLock' = claimLock
                 /\ \A q \in Proc : q # p => mode'[q] = mode[q] /\ rec'[q] = rec[q]
      BY <2>1 DEF OpenRecovery, openLocked, Goto, JournalInv, TypeOK
    <2>2. CASE ReconcileForRecovery(p)
      <3>1. rec[p].op \in Op
        BY <2>2 DEF ReconcileForRecovery, JournalInv, SessionShape, Record
      <3> QED
        BY <2>2, <3>1 DEF ReconcileForRecovery, JournalInv, TypeOK
    <2> QED
      BY <2>1, <2>2
  <1> DEFINE r == Latest(hist, o)
  <1>2. r \in hist /\ r \in Record /\ IsLatest(hist, o, r) /\ r.op = o /\ r # NoRec
    <2>1. r \in hist /\ r \in Record
      BY <1>1, RecoveredRecord
    <2>2. WellFormed(hist, o)
      BY <1>1 DEF RecoverOK, Readable
    <2>3. PICK x \in hist : x.op = o
      BY <2>2 DEF WellFormed, Histories
    <2>4. IsLatest(hist, o, r)
      BY <2>3, LatestChosen DEF JournalInv
    <2> QED
      BY <2>1, <2>4 DEF IsLatest, Histories, Record, NoRec
  <1> HIDE DEF r
  <1>3. \A a \in Op : Unsettled(a)' => a = o
    <2>1. \A a \in Op : Unsettled(a) => a = o
      BY <1>1, UnsettledIsActiveHead DEF RecoverOK, JournalInv
    <2> QED
      BY <1>1, <2>1 DEF Unsettled, IsLatest, Histories
  <1>4. Owns(p)'
    BY <1>1, <1>2, <1>3 DEF Owns, ChildMode, IsLatest, r
  <1>5. ASSUME NEW c \in Proc, mode'[c] \in ChildMode PROVE Behind(p, c)'
    <2>1. c # p /\ mode[c] \in ChildMode /\ rec'[c] = rec[c]
      BY <1>1, <1>5 DEF ChildMode
    <2>2. rec[c] \in hist /\ rec[c].seq \in Nat
      BY <2>1, ChildIsAdmitted
    <2>3. rec[c].op = o => rec[c].seq <= r.seq
      BY <1>2, <2>2 DEF IsLatest, Histories
    <2>4. CASE mode[p] = "open"
      <3>1. Behind(p, c) /\ rec[p] \in hist /\ rec[p].seq \in Nat /\ rec[p] # NoRec
        BY <2>1, <2>4 DEF ChildInv, ChildrenBehind, SessionMode, SessionOwns, Owns,
                          JournalInv, SessionShape, Record, NoRec
      <3>2. rec[p].op = o
        BY <1>1, <2>4 DEF Idle
      <3>3. rec[p].seq <= r.seq /\ r.seq \in Nat
        BY <1>2, <3>1, <3>2 DEF IsLatest, Histories, Record
      <3>4. mode'[p] = "open"
        BY <1>1, <2>4 DEF Idle
      <3> QED
        BY <1>1, <1>2, <2>1, <2>2, <2>3, <2>4, <3>1, <3>2, <3>3, <3>4 DEF Behind, r
    <2>5. CASE mode'[p] = "admitting"
      BY <1>1, <1>2, <2>1, <2>3, <2>5 DEF Behind, r
    <2> QED
      BY <1>1, <2>4, <2>5
  <1>6. (\A c \in Proc : mode[c] # "executing") \/ (hist' = hist /\ mode'[p] = "admitting")
    BY <1>1, SessionExcludesChild DEF SessionMode
  <1>7. (mode[p] \in SessionMode \/ lock = {}) /\ mode'[p] \notin ChildMode \cup {"mutating"}
    BY <1>1 DEF SessionMode, ChildMode
  <1> QED
    BY <1>1, <1>4, <1>5, <1>6, <1>7, SessionStepKeepsChildren

(* Recovery is admitted only when no child can be executing: the claim lock *)
(* is free and a claim of the older custody needs the process table.        *)
LEMMA ChildRecoveryAdmitted ==
  ASSUME JournalInv, AuthorityInv, ChildInv, NEW p \in Proc,
         acquireRecoveryClaimLock(p)
  PROVE  ChildInv'
  <1> USE DEF acquireRecoveryClaimLock, Goto, durable
  <1>1. /\ mode[p] = "admitting" /\ mode'[p] = "open" /\ rec' = rec
        /\ rec[p] \in Record /\ rec[p] \in hist /\ rec[p] # NoRec
        /\ IsLatest(hist, rec[p].op, rec[p])
        /\ \A o \in Op : Unsettled(o) => o = rec[p].op
        /\ \A q \in Proc : q # p => mode'[q] = mode[q]
    <2>1. mode[p] = "admitting" /\ mode[p] \in SessionMode /\ rec[p] \in Record
      BY DEF SessionMode, JournalInv, SessionShape
    <2>2. rec[p] # NoRec
      BY <2>1 DEF Record, NoRec
    <2> QED
      BY <2>1, <2>2 DEF JournalInv, TypeOK, ChildInv, SessionOwns, Owns
  <1>2. rec[p].op \in Op
    BY <1>1 DEF Record
  <1>3. ASSUME NEW c \in Proc, mode[c] = "executing" PROVE FALSE
    <2>1. mode[c] \in ChildMode
      BY <1>3 DEF ChildMode
    <2>2. IsLatest(hist, rec[c].op, rec[c]) /\ rec[c].op \in Op
      BY <1>3, <2>1, ChildIsAdmitted DEF ChildInv, JoinedChildExclusive
    <2>3. rec[c].op = rec[p].op
      BY <1>1, <2>1, <2>2, ChildIsAdmitted
    <2>4. rec[c] = rec[p]
      BY <1>1, <2>2, <2>3, LatestUnique DEF JournalInv, TypeOK
    <2>5. c \in claimLock[rec[c].op] \/ Claimed(rec[c], "")
      BY <1>3 DEF ChildInv, ClaimCustody
    <2>6. Joins(rec[c])
      BY <2>1 DEF ChildInv, SessionOwns, Owns
    <2>7. Claimed(rec[c], "") => NoChildOf(rec[p].op)
      BY <2>4, <2>6 DEF ClaimantGone
    <2> QED
      BY <2>1, <2>3, <2>5, <2>7 DEF NoChildOf
  <1>4. \A o : Unsettled(o)' <=> Unsettled(o)
    BY DEF Unsettled, IsLatest, Histories
  <1>5. Owns(p)'
    BY <1>1, <1>4 DEF Owns, ChildMode
  <1>6. ASSUME NEW c \in Proc, mode'[c] \in ChildMode PROVE Behind(p, c)'
    <2>1. c # p /\ mode[c] \in ChildMode
      BY <1>1, <1>6 DEF ChildMode
    <2>2. Behind(p, c)
      BY <1>1, <2>1 DEF ChildInv, ChildrenBehind, SessionMode
    <2>3. p \in claimLock'[rec[p].op]
      BY <1>2 DEF JournalInv, TypeOK
    <2> QED
      BY <1>1, <2>1, <2>2, <2>3 DEF Behind
  <1>7. \A o \in Op : \/ claimLock'[o] = claimLock[o]
                      \/ claimLock[o] = {} /\ claimLock'[o] = {p}
    BY <1>2 DEF JournalInv, TypeOK
  <1> QED
    BY <1>1, <1>3, <1>5, <1>6, <1>7, SessionStepKeepsChildren DEF SessionMode, ChildMode

(* The parent's record admits the child it starts, and no other child.      *)
LEMMA ChildSpawned ==
  ASSUME JournalInv, AuthorityInv, ChildInv, NEW p \in Proc, NEW c \in Proc,
         SpawnChild(p, c)
  PROVE  ChildInv'
  <1>1. /\ mode[p] = "joining" /\ mode[c] = Idle /\ p # c
        /\ mode'[p] = "waiting" /\ mode'[c] = "spawned"
        /\ child'[p] = {c} /\ rec'[c] = rec[p] /\ rec'[p] = rec[p]
        /\ \A q \in Proc : q # p /\ q # c => /\ mode'[q] = mode[q] /\ rec'[q] = rec[q]
        /\ hist' = hist /\ claims' = claims /\ claimLock' = claimLock
        /\ draft' = draft
    BY DEF SpawnChild, durable, JournalInv, TypeOK, Idle
  <1>2. \A q \in Proc : q # p => mode[q] \notin SessionMode
    BY <1>1 DEF JournalInv, LockHeld, SessionMode
  <1>3. \A q \in Proc : mode[q] # "executing"
    BY <1>1, SessionExcludesChild DEF SessionMode
  <1>4. /\ rec[p] # NoRec /\ rec[p] \in hist /\ Joins(rec[p])
        /\ rec[p].seq \in Nat
        /\ \A o \in Op : Unsettled(o) => o = rec[p].op
    <2>1. rec[p] \in Record /\ rec[p] # NoRec /\ Owns(p)
      BY <1>1 DEF JournalInv, SessionShape, Record, NoRec, ChildInv, SessionOwns
    <2> QED
      BY <1>1, <2>1 DEF Owns, SessionMode, Record
  <1>5. SessionOwns'
    <2>1. \A o : Unsettled(o)' <=> Unsettled(o)
      BY <1>1 DEF Unsettled, IsLatest, Histories
    <2>2. Owns(p)' /\ Owns(c)'
      BY <1>1, <1>4, <2>1 DEF Owns, ChildMode, SessionMode, Joins
    <2>3. ASSUME NEW q \in Proc, q # p, q # c PROVE Owns(q)'
      <3>1. Owns(q)
        BY DEF ChildInv, SessionOwns
      <3> QED
        BY <1>1, <2>1, <2>3, <3>1 DEF Owns, IsLatest, Joins
    <2> QED
      BY <2>2, <2>3 DEF SessionOwns
  <1>6. ChildrenBehind'
    <2> SUFFICES ASSUME NEW q \in Proc, NEW e \in Proc,
                        mode'[q] \in SessionMode, mode'[e] \in ChildMode
                 PROVE  Behind(q, e)'
      BY DEF ChildrenBehind
    <2>1. q = p /\ e # p
      BY <1>1, <1>2 DEF SessionMode, ChildMode
    <2>2. CASE e = c
      BY <1>1, <1>4, <2>1, <2>2 DEF Behind
    <2>3. CASE e # c
      <3>1. mode[e] \in ChildMode /\ rec'[e] = rec[e]
        BY <1>1, <2>1, <2>3
      <3>2. Behind(p, e)
        BY <1>1, <3>1 DEF ChildInv, ChildrenBehind, SessionMode
      <3>3. rec[e].op = rec[p].op => rec[e].seq <= rec[p].seq /\ rec[e].seq # rec[p].seq
        BY <1>1, <1>4, <3>2 DEF Behind
      <3> QED
        BY <1>1, <1>4, <2>1, <3>1, <3>3 DEF Behind
    <2> QED
      BY <2>2, <2>3
  <1>7. ClaimCustody' /\ JoinedChildExclusive'
    <2>1. \A q \in Proc : /\ mode'[q] # "executing"
                          /\ mode'[q] = "locked" => mode[q] = "locked" /\ rec'[q] = rec[q]
      BY <1>1, <1>3
    <2>2. claimLock' = claimLock
      BY <1>1
    <2>3. JoinedChildExclusive'
      BY <2>1 DEF JoinedChildExclusive
    <2> QED
      BY <2>1, <2>2, <2>3 DEF ChildInv, ClaimCustody
  <1> QED
    BY <1>5, <1>6, <1>7 DEF ChildInv

(* A child that reads the journal or takes the claim lock changes no        *)
(* Session's standing.                                                      *)
LEMMA ChildReads ==
  ASSUME JournalInv, AuthorityInv, ChildInv, NEW c \in Proc,
         inspectJoin(c) \/ claimJoinLock(c)
  PROVE  ChildInv'
  <1>1. /\ mode[c] \in {"spawned", "inspected"} /\ mode'[c] \in {"inspected", "locked"}
        /\ \A q \in Proc : q # c => mode'[q] = mode[q]
        /\ rec' = rec /\ draft' = draft /\ child' = child
        /\ hist' = hist /\ claims' = claims
    BY DEF inspectJoin, claimJoinLock, Goto, durable, JournalInv, TypeOK
  <1>2. mode[c] \in ChildMode /\ mode'[c] \in ChildMode
        /\ mode'[c] \notin SessionMode \cup {"mutating", "executing"}
    BY <1>1 DEF ChildMode, SessionMode
  <1>3. rec[c].op \in Op
    BY <1>2, ChildIsAdmitted
  <1>4. \A o \in Op : \/ claimLock'[o] = claimLock[o]
                      \/ claimLock[o] = {} /\ claimLock'[o] = {c}
    BY DEF inspectJoin, claimJoinLock, JournalInv, TypeOK
  <1>5. mode'[c] = "locked" => c \in claimLock'[rec[c].op]
    BY <1>3 DEF inspectJoin, claimJoinLock, Goto, JournalInv, TypeOK
  <1>6. SessionOwns'
    <2>1. \A o : Unsettled(o)' <=> Unsettled(o)
      BY <1>1 DEF Unsettled, IsLatest, Histories
    <2>2. Owns(c) /\ Owns(c)'
      BY <1>1, <1>2, <2>1 DEF ChildInv, SessionOwns, Owns, SessionMode, ChildMode, Joins
    <2>3. ASSUME NEW q \in Proc, q # c PROVE Owns(q)'
      <3>1. Owns(q)
        BY DEF ChildInv, SessionOwns
      <3> QED
        BY <1>1, <2>1, <2>3, <3>1 DEF Owns, IsLatest, Joins
    <2> QED
      BY <2>2, <2>3 DEF SessionOwns
  <1>7. ChildrenBehind'
    <2> SUFFICES ASSUME NEW q \in Proc, NEW e \in Proc,
                        mode'[q] \in SessionMode, mode'[e] \in ChildMode
                 PROVE  Behind(q, e)'
      BY DEF ChildrenBehind
    <2>1. q # c /\ mode[q] = mode'[q] /\ mode[e] \in ChildMode
      BY <1>1, <1>2
    <2>2. Behind(q, e)
      BY <2>1 DEF ChildInv, ChildrenBehind
    <2>3. rec[q] # NoRec /\ q \in claimLock[rec[q].op] => q \in claimLock'[rec[q].op]
      <3>1. rec[q] # NoRec => rec[q].op \in Op
        BY DEF JournalInv, TypeOK, Record
      <3> QED
        BY <1>4, <3>1
    <2> QED
      BY <1>1, <2>1, <2>2, <2>3 DEF Behind
  <1>8. ClaimCustody'
    <2>0. \A o \in Op : \A a, b \in claimLock[o] : a = b
      BY DEF ChildInv, ClaimCustody
    <2>1. ASSUME NEW o \in Op, NEW a \in claimLock'[o], NEW b \in claimLock'[o]
          PROVE  a = b
      <3>1. CASE claimLock'[o] = claimLock[o]
        BY <2>0, <3>1
      <3>2. CASE claimLock'[o] = {c}
        BY <3>2
      <3> QED
        BY <1>4, <3>1, <3>2
    <2>2. ASSUME NEW e \in Proc, e # c, mode[e] \in {"locked", "executing"},
                 e \in claimLock[rec[e].op]
          PROVE  e \in claimLock'[rec[e].op]
      <3>1. rec[e].op \in Op
        BY <2>2, ChildIsAdmitted DEF ChildMode
      <3> QED
        BY <1>4, <2>2, <3>1
    <2>3. \A e \in Proc : mode'[e] = "locked" => e \in claimLock'[rec[e].op]
      BY <1>1, <1>5, <2>2 DEF ChildInv, ClaimCustody
    <2>4. \A e \in Proc : mode'[e] = "executing" => e # c /\ mode[e] = "executing"
      BY <1>1, <1>2
    <2> QED
      BY <1>1, <2>1, <2>2, <2>3, <2>4 DEF ChildInv, ClaimCustody, Claimed
  <1>9. JoinedChildExclusive'
    <2> SUFFICES ASSUME NEW e \in Proc, mode'[e] = "executing"
                 PROVE  /\ IsLatest(hist', rec'[e].op, rec'[e])
                        /\ \A q \in Proc \ {e} : mode'[q] \notin {"executing", "mutating"}
                        /\ \A q \in Proc : mode'[q] \in SessionMode \ {"admitting"} =>
                              mode'[q] = "waiting" /\ child'[q] = {e}
      BY DEF JoinedChildExclusive
    <2>1. mode[e] = "executing"
      BY <1>1, <1>2
    <2>2. /\ IsLatest(hist, rec[e].op, rec[e])
          /\ \A q \in Proc \ {e} : mode[q] \notin {"executing", "mutating"}
          /\ \A q \in Proc : mode[q] \in SessionMode \ {"admitting"} =>
                mode[q] = "waiting" /\ child[q] = {e}
      BY <2>1 DEF ChildInv, JoinedChildExclusive
    <2> QED
      BY <1>1, <1>2, <2>2
  <1> QED
    BY <1>6, <1>7, <1>8, <1>9 DEF ChildInv

(* The claim: the record read under the claim lock is the newest and not    *)
(* yet claimed, so nobody executes, and a Session that could act under it   *)
(* either waits for this child or would hold the claim lock itself.         *)
LEMMA ChildClaims ==
  ASSUME JournalInv, AuthorityInv, ChildInv, NEW c \in Proc, claimJoin(c)
  PROVE  ChildInv'
  <1>1. /\ mode[c] = "locked" /\ mode'[c] = "executing"
        /\ \A q \in Proc : q # c => mode'[q] = mode[q]
        /\ rec' = rec /\ draft' = draft /\ child' = child /\ hist' = hist
        /\ claims \subseteq claims'
        /\ LoadOK(hist, dirs, pointer) /\ pointer = rec[c]
        /\ ~\E k \in Custody : Claimed(rec[c], k)
    BY DEF claimJoin, Goto, JournalInv, TypeOK
  <1>2. /\ mode[c] \in ChildMode /\ mode'[c] \in ChildMode
        /\ mode'[c] \notin SessionMode \cup {"mutating"}
    BY <1>1 DEF ChildMode, SessionMode
  <1>3. /\ rec[c] \in hist /\ rec[c] # NoRec /\ rec[c].op \in Op
        /\ IsLatest(hist, rec[c].op, rec[c])
        /\ Unsettled(rec[c].op)
        /\ \A o \in Op : Unsettled(o) => o = rec[c].op
    BY <1>1, <1>2, ChildIsAdmitted, LoadedPointer DEF JournalInv
  <1>4. c \in claimLock[rec[c].op]
    BY <1>1 DEF ChildInv, ClaimCustody
  <1>5. \A o \in Op : claimLock'[o] = claimLock[o] \/ (o = rec[c].op /\ claimLock'[o] = {})
    BY DEF claimJoin, JournalInv, TypeOK
  <1>6. \A q \in Proc : q # c => q \notin claimLock[rec[c].op]
    BY <1>3, <1>4 DEF ChildInv, ClaimCustody
  <1>7. ASSUME NEW e \in Proc, mode[e] = "executing" PROVE FALSE
    <2>1. IsLatest(hist, rec[e].op, rec[e]) /\ \E k \in Custody : Claimed(rec[e], k)
      BY <1>7 DEF ChildInv, JoinedChildExclusive, ClaimCustody
    <2>2. rec[e].op = rec[c].op
      BY <1>3, <1>7, <2>1, ChildIsAdmitted DEF ChildMode
    <2>3. rec[e] = rec[c]
      BY <1>3, <2>1, <2>2, LatestUnique DEF JournalInv, TypeOK
    <2> QED
      BY <1>1, <2>1, <2>3
  <1>8. ASSUME NEW q \in Proc, mode[q] = "mutating" \/ mode[q] \in SessionMode \ {"admitting"}
        PROVE  mode[q] = "waiting" /\ child[q] = {c}
    <2>1. q # c
      BY <1>1, <1>8 DEF SessionMode
    <2>2. mode[q] \notin {"mutating", "preparing"}
      BY <1>3 DEF JournalInv, NothingUnsettled
    <2>3. mode[q] \in SessionMode \ {"admitting", "preparing"} /\ Behind(q, c) /\ Owns(q)
      BY <1>2, <1>8, <2>2 DEF ChildInv, ChildrenBehind, SessionOwns
    <2>4. mode[q] = "writing" => draft[q].op = rec[c].op
      BY <1>3 DEF JournalInv, DraftExtends
    <2>5. mode[q] = "written" => draft[q].op = rec[c].op
      BY <1>3 DEF AuthorityInv, WrittenOwns
    <2>6. rec[q] # NoRec
      <3>1. CASE mode[q] \in {"writing", "written"}
        BY <2>3, <2>4, <2>5, <3>1 DEF Behind
      <3>2. CASE mode[q] \in {"open", "joining", "waiting"}
        BY <3>2 DEF JournalInv, SessionShape, Record, NoRec
      <3> QED
        BY <2>3, <3>1, <3>2 DEF SessionMode
    <2>7. rec[q].op = rec[c].op /\ rec[q] \in hist
      <3>1. CASE mode[q] \in {"writing", "written"}
        BY <2>3, <2>4, <2>5, <2>6, <3>1 DEF Owns
      <3>2. CASE mode[q] \in {"open", "joining", "waiting"}
        BY <1>3, <2>3, <2>6, <3>2 DEF Owns
      <3> QED
        BY <2>3, <2>6, <3>1, <3>2 DEF SessionMode, Owns
    <2>8. rec[c].seq = rec[q].seq
      <3>1. rec[q].seq <= rec[c].seq /\ rec[c].seq \in Nat /\ rec[q].seq \in Nat
        BY <1>3, <2>7 DEF IsLatest, Histories, JournalInv, TypeOK, Record
      <3>2. rec[c].seq <= rec[q].seq
        BY <2>3, <2>6, <2>7 DEF Behind
      <3> QED
        BY <3>1, <3>2
    <2>9. q \notin claimLock[rec[q].op]
      BY <1>6, <2>1, <2>7
    <2> QED
      BY <2>3, <2>6, <2>7, <2>8, <2>9 DEF Behind
  <1>9. SessionOwns'
    <2>1. \A o : Unsettled(o)' <=> Unsettled(o)
      BY <1>1 DEF Unsettled, IsLatest, Histories
    <2>2. Owns(c)'
      BY <1>1, <1>2, <2>1 DEF ChildInv, SessionOwns, Owns, SessionMode, ChildMode, Joins
    <2>3. ASSUME NEW q \in Proc, q # c PROVE Owns(q)'
      <3>1. Owns(q)
        BY DEF ChildInv, SessionOwns
      <3> QED
        BY <1>1, <2>1, <2>3, <3>1 DEF Owns, IsLatest, Joins
    <2> QED
      BY <2>2, <2>3 DEF SessionOwns
  <1>10. ChildrenBehind'
    <2> SUFFICES ASSUME NEW q \in Proc, NEW e \in Proc,
                        mode'[q] \in SessionMode, mode'[e] \in ChildMode
                 PROVE  Behind(q, e)'
      BY DEF ChildrenBehind
    <2>1. q # c /\ mode[q] = mode'[q] /\ mode[e] \in ChildMode
      BY <1>1, <1>2
    <2>2. Behind(q, e)
      BY <2>1 DEF ChildInv, ChildrenBehind
    <2>3. mode[q] \notin {"open", "writing", "written"}
      BY <1>8, <2>1 DEF SessionMode
    <2> QED
      BY <1>1, <2>1, <2>2, <2>3 DEF Behind
  <1>11. ClaimCustody'
    <2>0. \A o \in Op : \A a, b \in claimLock[o] : a = b
      BY DEF ChildInv, ClaimCustody
    <2>1. ASSUME NEW o \in Op, NEW a \in claimLock'[o], NEW b \in claimLock'[o]
          PROVE  a = b
      BY <1>5, <2>0, <2>1
    <2>2. ASSUME NEW e \in Proc, mode'[e] = "locked"
          PROVE  e \in claimLock'[rec[e].op]
      <3>1. e # c /\ mode[e] = "locked"
        BY <1>1, <2>2
      <3>2. e \in claimLock[rec[e].op] /\ rec[e].op \in Op
        BY <3>1, ChildIsAdmitted DEF ChildInv, ClaimCustody, ChildMode
      <3> QED
        BY <1>5, <1>6, <3>1, <3>2
    <2>3. /\ \E k \in Custody : Claimed(rec[c], k)'
          /\ c \in claimLock'[rec[c].op] \/ Claimed(rec[c], "")'
      <3>1. CASE claims' = claims \cup {[id |-> rec[c].id, custody |-> ""]}
        BY <1>1, <3>1 DEF Claimed, Custody
      <3>2. CASE claims' = claims \cup {[id |-> rec[c].id, custody |-> "lifetime-lock"]}
                 /\ claimLock' = claimLock
        BY <1>1, <1>4, <3>2 DEF Claimed, Custody
      <3> QED
        BY <3>1, <3>2 DEF claimJoin
    <2>4. \A e \in Proc : mode'[e] = "executing" => e = c
      BY <1>1, <1>7
    <2> QED
      BY <1>1, <2>1, <2>2, <2>3, <2>4 DEF ClaimCustody, Claimed
  <1>12. JoinedChildExclusive'
    <2> SUFFICES ASSUME NEW e \in Proc, mode'[e] = "executing"
                 PROVE  /\ IsLatest(hist', rec'[e].op, rec'[e])
                        /\ \A q \in Proc \ {e} : mode'[q] \notin {"executing", "mutating"}
                        /\ \A q \in Proc : mode'[q] \in SessionMode \ {"admitting"} =>
                              mode'[q] = "waiting" /\ child'[q] = {e}
      BY DEF JoinedChildExclusive
    <2>1. e = c
      BY <1>1, <1>7
    <2>2. \A q \in Proc \ {c} : mode'[q] \notin {"executing", "mutating"}
      BY <1>1, <1>7, <1>8
    <2>3. \A q \in Proc : mode'[q] \in SessionMode \ {"admitting"} =>
             mode'[q] = "waiting" /\ child'[q] = {c}
      BY <1>1, <1>2, <1>8
    <2> QED
      BY <1>1, <1>3, <2>1, <2>2, <2>3
  <1> QED
    BY <1>9, <1>10, <1>11, <1>12 DEF ChildInv

(* A fresh workspace has no children.                                       *)
LEMMA ChildInvInit == Init => ChildInv
  <1> SUFFICES ASSUME Init PROVE ChildInv
    OBVIOUS
  <1>1. \A q \in Proc : mode[q] = Idle
    BY DEF Init
  <1>2. \A q \in Proc : mode[q] \notin SessionMode \cup ChildMode
    BY <1>1 DEF Idle, SessionMode, ChildMode
  <1>3. \A o \in Op : claimLock[o] = {}
    BY DEF Init
  <1> QED
    BY <1>2, <1>3 DEF ChildInv, SessionOwns, Owns, ChildrenBehind, ClaimCustody,
       JoinedChildExclusive, SessionMode, ChildMode

(* Every step of the journal keeps the invariant about children.            *)
LEMMA ChildInvNext ==
  JournalInv /\ AuthorityInv /\ ChildInv /\ [Next]_vars => ChildInv'
  <1> SUFFICES ASSUME JournalInv, AuthorityInv, ChildInv, [Next]_vars
               PROVE  ChildInv'
    OBVIOUS
  <1>1. CASE UNCHANGED vars
    <2>1. \A o : Unsettled(o)' <=> Unsettled(o)
      BY <1>1 DEF vars, Unsettled, IsLatest, Histories
    <2>2. SessionOwns'
      BY <1>1, <2>1 DEF vars, ChildInv, SessionOwns, Owns, IsLatest, Joins
    <2>3. ChildrenBehind'
      BY <1>1 DEF vars, ChildInv, ChildrenBehind, Behind
    <2>4. ClaimCustody'
      BY <1>1 DEF vars, ChildInv, ClaimCustody, Claimed
    <2>5. JoinedChildExclusive'
      BY <1>1 DEF vars, ChildInv, JoinedChildExclusive, IsLatest
    <2> QED
      BY <2>2, <2>3, <2>4, <2>5 DEF ChildInv
  <1>2. ASSUME NEW p \in Proc,
               WithIdleMutation(p) \/ Stop(p) \/ PersistStep(p)
                 \/ SessionStep(p) \/ ChildStep(p)
        PROVE  ChildInv'
    <2>1. CASE WithIdleMutation(p) \/ Stop(p)
      BY <2>1, ChildAdmission, ChildStop
    <2>2. CASE ChildStep(p)
      BY <2>2, ChildReads, ChildClaims DEF ChildStep
    <2>3. CASE PersistStep(p)
      <3>1. CASE HistoryFails(p) \/ PointerFails(p)
        <4>1. CASE rec[p] = NoRec
          BY <3>1, <4>1, ChildStop DEF HistoryFails, PointerFails, PersistFails
        <4> QED
          BY <3>1, <4>1, ChildPersist
      <3>2. CASE HistoryInstalled(p) \/ HistoryInstalledUnconfirmed(p)
        BY <3>2, InstallSteps, ChildInstalls
      <3> QED
        BY <2>3, <3>1, <3>2, ChildPersist DEF PersistStep
    <2>4. CASE SessionStep(p)
      BY <2>4, ChildAdmission, SessionWrites, ChildStarts, ChildRecovery,
         ChildRecoveryAdmitted, ChildSpawned
         DEF SessionStep
    <2> QED
      BY <1>2, <2>1, <2>2, <2>3, <2>4
  <1> QED
    BY <1>1, <1>2 DEF Next

(* ChildInv is an invariant: a child is never admitted by a record newer    *)
(* than its Session's, and one admitted by the Session's own record is the  *)
(* child it waits for or is kept out by the recovery claim lock.            *)
THEOREM ChildInvariant == Spec => []ChildInv
  BY JournalInvariant, AuthorityInvariant, ChildInvInit, ChildInvNext, PTL DEF Spec

(* A joined child executes alone, under the newest signed phase, while only *)
(* the parent that waits for it is past admission: JoinedChildExclusive of  *)
(* the journal, over crashed parents, repeated recoveries and the claims of *)
(* an older release, for any number of processes and operations.            *)
THEOREM ChildrenExclusive == Spec => []JoinedChildExclusive
  <1>1. ChildInv => JoinedChildExclusive
    BY DEF ChildInv
  <1> QED
    BY <1>1, ChildInvariant, PTL

-----------------------------------------------------------------------------
(* The journal implements SignedOperations.                                *)

RecordedPhases(o) == {q.phase : q \in Histories(hist, o)}

\* `d` is signed in the next phase of the graph, or in a readmitted one, of an
\* operation whose history recorded the phases `s`.
AgreedPhase(s, r, d) ==
    \/ /\ AllowedTransition(Kind[r.op], r.phase, d.phase)
       /\ (/\ r.phase \in {"rollback-generate-started", "rollback-generate-succeeded"}
           /\ d.phase = "rollback-started") => s \subseteq PreApplyPhase
    \/ /\ Kind[r.op] = Upgrade
       /\ \/ /\ r.phase \in ForwardRecoveryPhase
             /\ d.phase \in {"target-apply-started", "target-generate-started"}
          \/ /\ r.phase \in {"target-generate-started", "target-generate-succeeded"}
             /\ ~(s \subseteq PreApplyPhase) /\ d.phase = "target-generate-started"

\* What the abstract specification asks of the record `d` that follows `r`.
AgreedAfter(s, r, d) ==
    \/ /\ r.status = Active /\ d.status = Active /\ d.pending = r.pending
       /\ AgreedPhase(s, r, d)
    \/ /\ d.phase = r.phase /\ d.status = r.status
       /\ \/ d.pending = r.pending
          \/ /\ r.status = Active /\ Kind[r.op] = RestoreActivation
             /\ r.phase = "quiesce-started" /\ r.pending = 0 /\ d.pending > 0
          \/ r.status # Active /\ r.pending > 0 /\ d.pending = r.pending - 1
    \/ /\ d.phase = r.phase /\ d.pending = r.pending /\ r.status = Active
       /\ \/ d.status = Succeeded /\ r.phase = "commit-succeeded"
          \/ d.status = Recovered /\ r.phase = "rollback-succeeded"
          \/ /\ d.status = Recovered /\ r.phase = "prepared"
             /\ Kind[r.op] = Upgrade /\ s = {"prepared"}

\* The first record of an operation.
AgreedFirst(d) == d.phase = "prepared" /\ d.status = Active /\ d.pending = 0

\* A draft not yet installed is agreed on with the record it follows.
Agrees(p, d) ==
    IF rec[p] = NoRec THEN AgreedFirst(d)
    ELSE AgreedAfter(RecordedPhases(rec[p].op), rec[p], d)

DraftAgreed == \A p \in Proc : mode[p] = "writing" => Agrees(p, draft[p])

(* Every operation of a Session drafts an agreed record.                     *)
LEMMA SessionAgrees ==
  ASSUME JournalInv, NEW p \in Proc,
         \/ \E o \in Op : BeginPrepared(p, o)
         \/ \E next \in Phase : Transition(p, next) \/ BeginForwardJoin(p, next)
         \/ RecordRestoreControls(p)
         \/ \E n \in 1..MaxGroups : RecordRestoreAppGroups(p, n)
         \/ \E s \in {Succeeded, Recovered} : Complete(p, s)
         \/ AcknowledgeRestoreAppGroupClose(p)
  PROVE  Agrees(p, draft'[p])
  <1>1. ASSUME NEW r, StartPersist(p, r) PROVE draft'[p] = r
    BY <1>1 DEF StartPersist, JournalInv, TypeOK
  <1>2. ASSUME NEW o \in Op, BeginPrepared(p, o)
        PROVE  rec[p] = NoRec /\ AgreedFirst(draft'[p])
    <2>1. rec[p] = NoRec
      BY <1>2 DEF BeginPrepared, JournalInv, SessionShape
    <2>2. draft'[p] = [op |-> o, seq |-> 1, phase |-> "prepared", status |-> Active,
                       pending |-> 0, id |-> signed + 1, prev |-> 0]
      BY <1>1, <1>2 DEF BeginPrepared
    <2> QED BY <2>1, <2>2 DEF AgreedFirst
  <1>3. ASSUME mode[p] = "open"
        PROVE  /\ rec[p] \in Record /\ rec[p] # NoRec /\ rec[p].pending \in Nat
               /\ Successor(p) \in Record
               /\ Successor(p).pending = rec[p].pending
               /\ Successor(p).status = rec[p].status
               /\ Successor(p).phase = rec[p].phase
    <2>1. rec[p] \in Record
      BY <1>3 DEF JournalInv, SessionShape
    <2>2. rec[p] # NoRec /\ rec[p].pending \in Nat
      BY <2>1 DEF Record, NoRec
    <2> QED
      BY <2>1, <2>2, SuccessorType DEF Successor, Record
  <1> DEFINE s == RecordedPhases(rec[p].op)
  <1>4. ASSUME NEW next \in Phase, Transition(p, next) \/ BeginForwardJoin(p, next)
        PROVE  rec[p] # NoRec /\ AgreedAfter(s, rec[p], draft'[p])
    <2> DEFINE r == [Successor(p) EXCEPT !.phase = next]
    <2>1. mode[p] = "open" /\ StartPersist(p, r) /\ rec[p].status = Active
      BY <1>4 DEF Transition, BeginForwardJoin, InActiveSession
    <2>2. /\ draft'[p].phase = next /\ draft'[p].status = Active
          /\ draft'[p].pending = rec[p].pending
      BY <1>1, <1>3, <2>1 DEF Record
    <2>3. AgreedPhase(s, rec[p], draft'[p])
      BY <1>4, <2>2 DEF Transition, BeginForwardJoin, Recorded, RecordedPhases,
         AgreedPhase
    <2> QED BY <1>3, <2>1, <2>2, <2>3 DEF AgreedAfter
  <1>5. ASSUME RecordRestoreControls(p)
        PROVE  rec[p] # NoRec /\ AgreedAfter(s, rec[p], draft'[p])
    <2>1. mode[p] = "open" /\ draft'[p] = Successor(p)
      BY <1>1, <1>5 DEF RecordRestoreControls, InActiveSession
    <2> QED BY <1>3, <2>1 DEF AgreedAfter
  <1>6. ASSUME NEW n \in 1..MaxGroups, RecordRestoreAppGroups(p, n)
        PROVE  rec[p] # NoRec /\ AgreedAfter(s, rec[p], draft'[p])
    <2>1. /\ mode[p] = "open" /\ draft'[p] = [Successor(p) EXCEPT !.pending = n]
          /\ rec[p].status = Active /\ Kind[rec[p].op] = RestoreActivation
          /\ rec[p].phase = "quiesce-started" /\ rec[p].pending = 0
      BY <1>1, <1>6 DEF RecordRestoreAppGroups, InActiveSession
    <2>2. /\ draft'[p].phase = rec[p].phase /\ draft'[p].status = rec[p].status
          /\ draft'[p].pending > 0
      BY <1>3, <2>1 DEF Record
    <2> QED BY <1>3, <2>1, <2>2 DEF AgreedAfter
  <1>7. ASSUME NEW st \in {Succeeded, Recovered}, Complete(p, st)
        PROVE  rec[p] # NoRec /\ AgreedAfter(s, rec[p], draft'[p])
    <2>1. /\ mode[p] = "open" /\ draft'[p] = [Successor(p) EXCEPT !.status = st]
          /\ rec[p].status = Active
          /\ \/ st = Succeeded /\ rec[p].phase = "commit-succeeded"
             \/ st = Recovered /\ rec[p].phase = "rollback-succeeded"
             \/ /\ st = Recovered /\ rec[p].phase = "prepared"
                /\ Kind[rec[p].op] = Upgrade /\ s = {"prepared"}
      BY <1>1, <1>7 DEF Complete, InActiveSession, Recorded, RecordedPhases
    <2>2. /\ draft'[p].phase = rec[p].phase /\ draft'[p].status = st
          /\ draft'[p].pending = rec[p].pending
      BY <1>3, <2>1 DEF Record
    <2> QED BY <1>3, <2>1, <2>2 DEF AgreedAfter
  <1>8. ASSUME AcknowledgeRestoreAppGroupClose(p)
        PROVE  rec[p] # NoRec /\ AgreedAfter(s, rec[p], draft'[p])
    <2>1. /\ mode[p] = "open" /\ draft'[p] = [Successor(p) EXCEPT !.pending = @ - 1]
          /\ rec[p].status # Active /\ rec[p].pending > 0
      BY <1>1, <1>8 DEF AcknowledgeRestoreAppGroupClose
    <2>2. /\ draft'[p].phase = rec[p].phase /\ draft'[p].status = rec[p].status
          /\ draft'[p].pending = rec[p].pending - 1
      BY <1>3, <2>1 DEF Record
    <2> QED BY <1>3, <2>1, <2>2 DEF AgreedAfter
  <1> QED
    BY <1>2, <1>4, <1>5, <1>6, <1>7, <1>8 DEF Agrees

(* Drafts stay agreed: nobody else writes while one waits to be installed.  *)
LEMMA DraftAgreedNext ==
  ASSUME JournalInv, DraftAgreed, [Next]_vars
  PROVE  DraftAgreed'
  <1>1. ASSUME hist' = hist, NEW q \in Proc, rec'[q] = rec[q],
               Agrees(q, draft'[q])
        PROVE  Agrees(q, draft[q])'
    BY <1>1 DEF Agrees, RecordedPhases
  <1>2. ASSUME Quiet PROVE DraftAgreed'
    BY <1>1, <1>2 DEF Quiet, DraftAgreed
  <1>3. ASSUME NEW p \in Proc, Installs(p) PROVE DraftAgreed'
    <2>1. \A q \in Proc : q # p => mode[q] # "writing"
      BY <1>3, OneLockHolder DEF Installs, SessionMode
    <2>2. \A q \in Proc : mode'[q] # "writing"
      BY <1>3, <2>1 DEF Installs, Idle
    <2> QED BY <2>2 DEF DraftAgreed
  <1>4. ASSUME NEW p \in Proc, Starts(p), Agrees(p, draft'[p]) PROVE DraftAgreed'
    <2>1. /\ hist' = hist /\ rec' = rec
          /\ \A q \in Proc : q # p => mode'[q] = mode[q] /\ draft'[q] = draft[q]
      BY <1>4 DEF Starts, JournalInv, TypeOK
    <2>2. ASSUME NEW q \in Proc, mode'[q] = "writing" PROVE Agrees(q, draft[q])'
      <3>1. Agrees(q, draft'[q])
        BY <1>4, <2>1, <2>2 DEF DraftAgreed
      <3> QED BY <1>1, <2>1, <3>1
    <2> QED BY <2>2 DEF DraftAgreed
  <1>5. CASE UNCHANGED vars
    BY <1>2, <1>5 DEF vars, Quiet
  <1>6. ASSUME NEW p \in Proc,
               WithIdleMutation(p) \/ Stop(p) \/ PersistStep(p)
                 \/ SessionStep(p) \/ ChildStep(p)
        PROVE  DraftAgreed'
    <2>1. CASE WithIdleMutation(p) \/ Stop(p) \/ ChildStep(p)
      BY <1>2, <2>1, QuietSteps
    <2>2. CASE PersistStep(p)
      BY <1>2, <1>3, <2>2, QuietSteps, InstallSteps DEF PersistStep
    <2>3. CASE SessionStep(p)
      BY <1>2, <1>4, <2>3, QuietSteps, SessionWrites, SessionAgrees DEF SessionStep
    <2> QED BY <1>6, <2>1, <2>2, <2>3
  <1> QED BY <1>5, <1>6 DEF Next

(* The abstract specification's phases, statuses and graph are the journal's. *)
LEMMA SameGraph ==
  /\ Signed!Upgrade = Upgrade /\ Signed!Active = Active
  /\ Signed!Succeeded = Succeeded /\ Signed!Recovered = Recovered
  /\ Signed!PreApplyPhase = PreApplyPhase
  /\ Signed!ForwardRecoveryPhase = ForwardRecoveryPhase
  /\ \A k, x, y : Signed!AllowedTransition(k, x, y) <=> AllowedTransition(k, x, y)
  <1>1. Signed!ForwardRecoveryPhase = ForwardRecoveryPhase
    BY DEF Signed!ForwardRecoveryPhase, ForwardRecoveryPhase
  <1>2. Signed!UpgradeTransition = UpgradeTransition
    BY <1>1 DEF Signed!UpgradeTransition, UpgradeTransition, Signed!UpgradeForward,
       UpgradeForward, Signed!UpgradeRollback, UpgradeRollback,
       Signed!UpgradeDataRollback, UpgradeDataRollback
  <1>3. Signed!RestoreTransition = RestoreTransition
    BY DEF Signed!RestoreTransition, RestoreTransition, Signed!RestoreForward,
       RestoreForward, Signed!RestoreRollback, RestoreRollback
  <1>4. \A k, x, y : Signed!AllowedTransition(k, x, y) <=> AllowedTransition(k, x, y)
    BY <1>2, <1>3 DEF Signed!AllowedTransition, AllowedTransition,
       Signed!RestoreActivation, RestoreActivation
  <1> QED
    BY <1>1, <1>4 DEF Signed!Upgrade, Upgrade, Signed!Active, Active,
       Signed!Succeeded, Succeeded, Signed!Recovered, Recovered,
       Signed!PreApplyPhase, PreApplyPhase

\* What the abstract specification sees of the newest record `r` of a history that
\* recorded the phases `s`.
Seen(s, r) ==
    [phase |-> r.phase, status |-> r.status,
     recorded |-> IF Kind[r.op] = Upgrade THEN s ELSE {},
     closes |-> IF r.pending > 0 THEN "owed" ELSE "none"]

\* The newest record of every operation is what the abstract specification sees.
HeadsKnown ==
    \A o \in Op : \A r \in hist : IsLatest(hist, o, r) =>
        SignedHead(o) = Seen(RecordedPhases(o), r)

(* It is, because the newest record is unique.                               *)
LEMMA HeadsAre == JournalInv => HeadsKnown
  <1> SUFFICES ASSUME JournalInv, NEW o \in Op, NEW r \in hist, IsLatest(hist, o, r)
               PROVE  SignedHead(o) = Seen(RecordedPhases(o), r)
    BY DEF HeadsKnown
  <1>1. r.op = o /\ Histories(hist, o) # {}
    BY DEF IsLatest, Histories
  <1>2. Latest(hist, o) = r
    BY <1>1, LatestChosen, LatestUnique DEF JournalInv, TypeOK
  <1> QED BY <1>1, <1>2 DEF SignedHead, Seen, RecordedPhases

(* No phase is called "none".                                               *)
LEMMA NoneIsNoPhase == "none" \notin Phase
  BY DEF Phase, UpgradeTransition, UpgradeForward, UpgradeRollback, UpgradeDataRollback,
     ForwardRecoveryPhase, RestoreTransition, RestoreForward, RestoreRollback

(* An agreed record, once it is installed, is a step of the abstract         *)
(* specification, or the operation looks the same.                           *)
LEMMA InstallIsSigned ==
  ASSUME JournalInv, JournalInv', DraftAgreed, NEW p \in Proc, Installs(p)
  PROVE  [Signed!SignedNext]_(Signed!signedVars)
  <1>1. PICK d, o, q : d = draft[p] /\ o = d.op /\ q = rec[p]
    OBVIOUS
  <1>2. /\ mode[p] = "writing" /\ hist' = hist \cup {d} /\ dirs' = dirs
        /\ d \in Record /\ o \in Op /\ d.pending \in Nat /\ Agrees(p, d)
    BY <1>1 DEF Installs, JournalInv, DraftExtends, Record, DraftAgreed
  <1>3. HeadsKnown /\ HeadsKnown'
    BY HeadsAre, PTL
  <1>4. PICK s, t : s = RecordedPhases(o) /\ t = RecordedPhases(o)'
    OBVIOUS
  <1>5. t = s \cup {d.phase}
    <2>1. Histories(hist', o) = Histories(hist, o) \cup {d}
      BY <1>1, <1>2 DEF Histories
    <2> QED BY <1>4, <2>1 DEF RecordedPhases
  <1>6. PICK j, r : j = SignedHead(o) /\ r = SignedHead(o)'
    OBVIOUS
  <1>7. r = Seen(t, d)
    <2>1. IsLatest(hist', o, d)
      BY <1>1, <1>2, InstallDraft
    <2> QED BY <1>2, <1>3, <1>4, <1>6, <2>1 DEF HeadsKnown
  <1> DEFINE h == [a \in Op |-> SignedHead(a)]
  <1>8. /\ h[o] = j /\ h'[o] = r
        /\ \A n : n = r => h' = [h EXCEPT ![o] = n]
    <2>1. ASSUME NEW a \in Op, a # o PROVE SignedHead(a)' = SignedHead(a)
      <3>1. Histories(hist', a) = Histories(hist, a)
        BY <1>1, <1>2, <2>1 DEF Histories
      <3>2. Latest(hist', a) = Latest(hist, a)
        BY <3>1 DEF Latest
      <3> QED BY <3>1, <3>2 DEF SignedHead
    <2> QED BY <1>2, <1>6, <2>1
  <1>9. ASSUME \/ Signed!Begin(o) \/ Signed!Advance(o, r.phase)
               \/ Signed!Readmit(o, r.phase) \/ Signed!Bind(o)
               \/ Signed!Settle(o, r.status) \/ Signed!Acknowledge(o) \/ r = j
        PROVE  [Signed!SignedNext]_(Signed!signedVars)
    <2>1. CASE r = j
      <3>1. h' = [h EXCEPT ![o] = j]
        BY <1>8, <2>1
      <3>2. h' = h
        BY <1>2, <1>8, <3>1
      <3> QED BY <3>2 DEF Signed!signedVars
    <2>2. CASE r # j
      BY <1>2, <1>8, <1>9, <2>2 DEF Signed!SignedNext
    <2> QED BY <2>1, <2>2
  <1>10. Signed!IsUpgrade(o) <=> Kind[o] = Upgrade
    BY SameGraph DEF Signed!IsUpgrade
  <1>11. ASSUME NEW a, NEW b, NEW c, NEW e, NEW n,
               j = [phase |-> a, status |-> b, recorded |-> c, closes |-> e]
        PROVE  Signed!At(o, n) =
                 [phase |-> n, status |-> b, closes |-> e,
                  recorded |-> IF Kind[o] = Upgrade THEN c \cup {n} ELSE c]
    <2>1. SignedHead(o) = j
      BY <1>6
    <2>2. PICK k : k = Signed!At(o, n)
      OBVIOUS
    <2>3. CASE Kind[o] = Upgrade
      <3>1. k = [j EXCEPT !.phase = n, !.recorded = @ \cup {n}]
        BY <1>2, <1>10, <2>1, <2>2, <2>3 DEF Signed!At
      <3> QED BY <1>11, <2>2, <2>3, <3>1
    <2>4. CASE Kind[o] # Upgrade
      <3>1. k = [j EXCEPT !.phase = n, !.recorded = @]
        BY <1>2, <1>10, <2>1, <2>2, <2>4 DEF Signed!At
      <3> QED BY <1>11, <2>2, <2>4, <3>1
    <2> QED BY <2>3, <2>4
  <1>12. CASE q = NoRec
    <2>1. Histories(hist, o) = {} /\ s = {}
      BY <1>1, <1>2, <1>4, <1>12 DEF JournalInv, DraftExtends, Histories, RecordedPhases
    <2>2. j = [phase |-> "none", status |-> Active, recorded |-> {}, closes |-> "none"]
      BY <1>6, <2>1 DEF SignedHead
    <2>3. d.phase = "prepared" /\ d.status = Active /\ d.pending = 0
      BY <1>1, <1>2, <1>12 DEF Agrees, AgreedFirst
    <2>4. r = [phase |-> "prepared", status |-> Active,
               recorded |-> IF Kind[o] = Upgrade THEN {"prepared"} ELSE {},
               closes |-> "none"]
      BY <1>1, <1>5, <1>7, <2>1, <2>3 DEF Seen
    <2>5. r = Signed!At(o, "prepared")
      BY <1>11, <2>2, <2>4
    <2>6. Signed!Begin(o)
      BY <1>8, <2>2, <2>5, SameGraph DEF Signed!Begin, Signed!Signs, Signed!Unsigned
    <2> QED BY <1>9, <2>6
  <1>13. CASE q # NoRec
    <2>1. IsLatest(hist, o, q) /\ AgreedAfter(s, q, d)
      <3>1. IsLatest(hist, o, q)
        BY <1>1, <1>2, <1>13 DEF JournalInv, DraftExtends
      <3>2. q.op = o
        BY <3>1 DEF IsLatest, Histories
      <3> QED BY <1>1, <1>2, <1>4, <1>13, <3>1, <3>2 DEF Agrees
    <2>2. /\ q \in hist /\ q.op = o /\ q.phase \in s
          /\ q.phase # "none" /\ q.pending \in Nat
      <3>1. q \in hist /\ q.op = o /\ q.phase \in s
        BY <1>4, <2>1 DEF IsLatest, Histories, RecordedPhases
      <3> QED BY <3>1, NoneIsNoPhase DEF JournalInv, TypeOK, Record
    <2>3. j = Seen(s, q)
      BY <1>2, <1>3, <1>4, <1>6, <2>1, <2>2 DEF HeadsKnown
    <2>4. q.status = Active => Signed!IsActive(o)
      BY <1>8, <2>2, <2>3, SameGraph DEF Signed!IsActive, Seen
    <2>5. CASE q.status = Active /\ d.status = Active /\ d.pending = q.pending
                 /\ AgreedPhase(s, q, d)
      <3>1. r = [phase |-> d.phase, status |-> q.status,
                 closes |-> IF q.pending > 0 THEN "owed" ELSE "none",
                 recorded |-> IF Kind[o] = Upgrade THEN s \cup {d.phase} ELSE {}]
        BY <1>1, <1>5, <1>7, <2>5 DEF Seen
      <3>2. Signed!At(o, d.phase) = r
        <4>1. CASE Kind[o] = Upgrade
          BY <1>11, <2>2, <2>3, <3>1, <4>1 DEF Seen
        <4>2. CASE Kind[o] # Upgrade
          BY <1>11, <2>2, <2>3, <3>1, <4>2 DEF Seen
        <4> QED BY <4>1, <4>2
      <3>3. r.phase = d.phase /\ Signed!Signs(o, Signed!At(o, r.phase))
        BY <1>8, <3>1, <3>2 DEF Signed!Signs
      <3>4. Kind[o] = Upgrade => (Signed!PreApply(o) <=> s \subseteq PreApplyPhase)
        BY <1>8, <2>2, <2>3, SameGraph DEF Signed!PreApply, Seen
      <3>5. Kind[o] # Upgrade => Signed!PreApply(o)
        BY <1>8, <2>2, <2>3 DEF Signed!PreApply, Seen
      <3>6. j.phase = q.phase
        BY <2>3 DEF Seen
      <3>7. Signed!Advance(o, r.phase) \/ Signed!Readmit(o, r.phase)
        BY <1>8, <1>10, <2>2, <2>4, <2>5, <3>3, <3>4, <3>5, <3>6, SameGraph
           DEF Signed!Advance, Signed!Readmit, AgreedPhase
      <3> QED BY <1>9, <3>7
    <2>6. ASSUME d.phase = q.phase PROVE t = s
      BY <1>5, <2>2, <2>6
    <2>7. CASE d.phase = q.phase /\ d.status = q.status
      <3>1. CASE d.pending = q.pending
        <4>1. r = j
          BY <1>1, <1>7, <2>2, <2>3, <2>6, <2>7, <3>1 DEF Seen
        <4> QED BY <1>9, <4>1
      <3>2. CASE /\ q.status = Active /\ Kind[o] = RestoreActivation
                 /\ q.phase = "quiesce-started" /\ q.pending = 0 /\ d.pending > 0
        <4>1. Signed!Bind(o)
          <5>1. j.phase = "quiesce-started" /\ j.closes = "none" /\ ~Signed!IsUpgrade(o)
            BY <1>10, <2>3, <3>2 DEF Seen, Upgrade, RestoreActivation
          <5>2. \A k : k = [j EXCEPT !.closes = "owed"] => k = r
            BY <1>1, <1>7, <2>2, <2>3, <2>6, <2>7, <3>2 DEF Seen
          <5>3. Signed!Signs(o, [j EXCEPT !.closes = "owed"])
            BY <1>8, <5>2 DEF Signed!Signs
          <5>4. Signed!IsActive(o)
            BY <2>4, <3>2
          <5> QED BY <1>8, <5>1, <5>3, <5>4 DEF Signed!Bind
        <4> QED BY <1>9, <4>1
      <3>3. CASE q.status # Active /\ q.pending > 0 /\ d.pending = q.pending - 1
        <4>1. CASE d.pending > 0
          <5>1. r = j
            BY <1>1, <1>7, <2>2, <2>3, <2>6, <2>7, <3>3, <4>1 DEF Seen
          <5> QED BY <1>9, <5>1
        <4>2. CASE ~(d.pending > 0)
          <5>1. j.status # Signed!Active /\ j.closes = "owed"
            BY <2>3, <3>3, SameGraph DEF Seen
          <5>2. \A k : k = [j EXCEPT !.closes = "none"] => k = r
            <6>1. r = [phase |-> q.phase, status |-> q.status,
                       recorded |-> IF Kind[o] = Upgrade THEN s ELSE {}, closes |-> "none"]
              BY <1>1, <1>7, <2>6, <2>7, <4>2 DEF Seen
            <6>2. j = [phase |-> q.phase, status |-> q.status,
                       recorded |-> IF Kind[o] = Upgrade THEN s ELSE {}, closes |-> "owed"]
              BY <2>2, <2>3, <3>3 DEF Seen
            <6> QED BY <6>1, <6>2
          <5>3. Signed!Signs(o, [j EXCEPT !.closes = "none"])
            BY <1>8, <5>2 DEF Signed!Signs
          <5>4. Signed!Acknowledge(o)
            BY <1>8, <5>1, <5>3 DEF Signed!Acknowledge
          <5> QED BY <1>9, <5>4
        <4> QED BY <4>1, <4>2
      <3>4. \/ d.pending = q.pending
            \/ /\ q.status = Active /\ Kind[o] = RestoreActivation
               /\ q.phase = "quiesce-started" /\ q.pending = 0 /\ d.pending > 0
            \/ q.status # Active /\ q.pending > 0 /\ d.pending = q.pending - 1
        BY <2>1, <2>2, <2>5, <2>7 DEF AgreedAfter, Active, Succeeded, Recovered
      <3> QED BY <3>1, <3>2, <3>3, <3>4
    <2>8. CASE /\ d.phase = q.phase /\ d.pending = q.pending /\ q.status = Active
               /\ \/ d.status = Succeeded /\ q.phase = "commit-succeeded"
                  \/ d.status = Recovered /\ q.phase = "rollback-succeeded"
                  \/ /\ d.status = Recovered /\ q.phase = "prepared"
                     /\ Kind[o] = Upgrade /\ s = {"prepared"}
      <3>1. /\ j.phase = q.phase /\ r.status = d.status
            /\ Kind[o] = Upgrade => j.recorded = s
        BY <1>7, <2>2, <2>3 DEF Seen
      <3>2. \A k : k = [j EXCEPT !.status = d.status] => k = r
        BY <1>1, <1>7, <2>2, <2>3, <2>6, <2>8 DEF Seen
      <3>3. Signed!Signs(o, [j EXCEPT !.status = r.status])
        BY <1>8, <3>1, <3>2 DEF Signed!Signs
      <3>4. Signed!Settle(o, r.status)
        BY <1>8, <1>10, <2>4, <2>8, <3>1, <3>3, SameGraph DEF Signed!Settle
      <3> QED BY <1>9, <3>4
    <2> QED
      BY <2>1, <2>2, <2>5, <2>7, <2>8 DEF AgreedAfter
  <1> QED BY <1>12, <1>13

(* Without a new record every operation looks the same.                      *)
LEMMA SameHeads ==
  ASSUME hist' = hist
  PROVE  UNCHANGED Signed!signedVars
  BY DEF Signed!signedVars, SignedHead, Latest, Histories

(* Every step of the journal is a step of the abstract specification.        *)
LEMMA StepIsSigned ==
  ASSUME JournalInv, JournalInv', DraftAgreed, [Next]_vars
  PROVE  [Signed!SignedNext]_(Signed!signedVars)
  <1>1. CASE hist' = hist
    BY <1>1, SameHeads
  <1>2. CASE \E p \in Proc : Installs(p)
    BY <1>2, InstallIsSigned
  <1> QED
    BY <1>1, <1>2, StepShape DEF Quiet, Starts, vars

(* The journal implements the abstract specification its drivers implement,  *)
(* for every set of processes and operations and whatever they ask for:      *)
(* behind stale pointers, unconfirmed records and crashes, the newest record *)
(* of an operation leaves its phase graph only where recovery may, its       *)
(* outcome is decided once, and bound groups are acknowledged after it.      *)
THEOREM JournalSignsAsAgreed == Spec => SignsAsAgreed
  <1>1. Init => Signed!SignedInit /\ DraftAgreed
    BY SameGraph DEF Init, Signed!SignedInit, Signed!Unsigned, SignedHead, Histories,
       DraftAgreed, Idle
  <1>2. JournalInv /\ JournalInv' /\ DraftAgreed /\ [Next]_vars
          => DraftAgreed' /\ [Signed!SignedNext]_(Signed!signedVars)
    BY DraftAgreedNext, StepIsSigned
  <1> QED
    BY JournalInvariant, <1>1, <1>2, PTL DEF Spec, SignsAsAgreed, Signed!SignedSpec

=============================================================================
