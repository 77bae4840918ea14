-------------------------- MODULE MutationJournal --------------------------
(***************************************************************************)
(* The shared lifecycle-mutation journal of internal/lifecyclemutation:    *)
(* the authority under which an upgrade or a restore activation may change *)
(* a workspace, and under which every ordinary mutation is refused.        *)
(*                                                                         *)
(* Durable state is one directory of immutable signed records per          *)
(* operation, the active pointer (a copy of one record), and one claim     *)
(* file per joined child.  Two kernel locks guard it: the journal lock,    *)
(* held by a Session or an ordinary mutation, and one claim lock per       *)
(* operation, held by a joined child or by explicit recovery.              *)
(*                                                                         *)
(* A process may stop between any two steps: an error path closes the      *)
(* Session and a crash lets the kernel release the same locks, so both are *)
(* the action Stop.                                                        *)
(***************************************************************************)
EXTENDS LifecyclePhases, Integers

CONSTANTS
    Proc,          \* processes that may open the workspace
    Op,            \* operation IDs
    Kind,          \* the kind of each operation
    HistoryLimit,  \* most records a readable history holds (256 in the code)
    MaxGroups,     \* most application groups one restore activation binds
    LegacyPrior    \* TRUE: the prior release's child gives its claim lock up

ASSUME JournalAssumption ==
    /\ Kind \in [Op -> {Upgrade, RestoreActivation}]
    /\ HistoryLimit \in Nat
    /\ MaxGroups \in Nat
    /\ LegacyPrior \in BOOLEAN

VARIABLES
    dirs,      \* operations whose history directory exists
    hist,      \* installed history records of all operations
    pointer,   \* the active pointer: a record, or NoRec while it is absent
    signed,    \* digests used so far; a record's id stands for its digest
    lock,      \* holder of the journal lock: {} or {p}
    claimLock, \* holder of each operation's claim lock
    claims,    \* claim files, by the digest of the claimed record
    mode,      \* where each process is in the operation it runs
    rec,       \* the Session's record; a joined child's admission
    draft,     \* the record a Session is persisting
    child      \* the joined child a Session waits for: {} or {c}

durable == <<dirs, hist, pointer, signed, claims>>
vars == <<dirs, hist, pointer, signed, lock, claimLock, claims, mode, rec,
          draft, child>>

Record == [op : Op, seq : Nat \ {0}, phase : Phase, status : Status,
           pending : Nat, id : Nat \ {0}, prev : Nat]

NoRec == [seq |-> 0]

\* An older child released its lock after claiming and wrote no custody.
Custody == {"lifetime-lock", ""}

Idle == "idle"
SessionMode == {"preparing", "writing", "written", "open", "admitting",
                "joining", "waiting"}
ChildMode == {"spawned", "inspected", "locked", "executing"}
Mode == {Idle, "mutating"} \cup SessionMode \cup ChildMode

-----------------------------------------------------------------------------
(* Reading the journal.                                                    *)

Histories(h, o) == {r \in h : r.op = o}

\* A joined child can be admitted only by an upgrade.
Joins(r) == Kind[r.op] = Upgrade /\ r.phase \in JoinPhase

\* Mutant of WellFormed: the number of records is not limited.
WellFormedUnlimited(h, o) ==
    /\ \E r \in Histories(h, o) : r.seq = 1
    /\ \A r \in Histories(h, o) :
          /\ r.seq = 1 => r.prev = 0
          /\ r.seq > 1 => \E q \in Histories(h, o) :
                             q.seq = r.seq - 1 /\ q.id = r.prev
          /\ \A q \in Histories(h, o) : q.seq = r.seq => q = r

\* latestHistoryRecord accepts one chain from the signed origin, within the
\* phase limit; a directory without records is an error, not an empty history.
WellFormed(h, o) ==
    /\ \E r \in Histories(h, o) : r.seq = 1
    /\ \A r \in Histories(h, o) :
          /\ r.seq <= HistoryLimit
          /\ r.seq = 1 => r.prev = 0
          /\ r.seq > 1 => \E q \in Histories(h, o) :
                             q.seq = r.seq - 1 /\ q.id = r.prev
          /\ \A q \in Histories(h, o) : q.seq = r.seq => q = r

IsLatest(h, o, r) ==
    r \in Histories(h, o) /\ \A q \in Histories(h, o) : q.seq <= r.seq

Latest(h, o) == CHOOSE r \in Histories(h, o) :
                   \A q \in Histories(h, o) : q.seq <= r.seq

\* An active record blocks every other mutation; so does a settled restore
\* that still owes a native close to an application group.
recordBlocksMutation(r) == r.status = Active \/ r.pending > 0

\* activeHistoryHeads reads every operation directory and fails on any of them.
ActiveHead(h, d, o) == o \in d /\ recordBlocksMutation(Latest(h, o))
Readable(h, d) ==
    /\ \A o \in d : WellFormed(h, o)
    /\ \A a, b \in d : ActiveHead(h, d, a) /\ ActiveHead(h, d, b) => a = b

\* Mutant of LoadOK: the pointer's own history is checked, other operations'
\* orphan heads are not.
LoadPointerOnly(h, d, ptr) ==
    ptr # NoRec => /\ ptr.op \in d
                   /\ WellFormed(h, ptr.op)
                   /\ ptr = Latest(h, ptr.op)

\* loadRecord returns the pointer; LoadOK says when it does not fail.
LoadOK(h, d, ptr) ==
    /\ Readable(h, d)
    /\ ptr = NoRec => \A o \in d : ~ActiveHead(h, d, o)
    /\ ptr # NoRec => /\ ptr.op \in d
                      /\ ptr = Latest(h, ptr.op)
                      /\ \A o \in d : ActiveHead(h, d, o) => o = ptr.op

\* Mutant of Blocked: a settled restore no longer blocks for its closes.
BlockedWhileActive(ptr) == ptr # NoRec /\ ptr.status = Active

Blocked(ptr) == ptr # NoRec /\ recordBlocksMutation(ptr)

\* Mutant of RecoverOK: recovery accepts only a journal that loads.
RecoverLoaded(h, d, ptr, o) ==
    o \in d /\ LoadOK(h, d, ptr) /\ ptr # NoRec /\ ptr.op = o

\* recoverLatestRecord(o) succeeds, whatever the pointer says of o itself.
RecoverOK(h, d, ptr, o) ==
    /\ o \in d
    /\ Readable(h, d)
    /\ \A a \in d : ActiveHead(h, d, a) => a = o
    /\ Blocked(ptr) => ptr.op = o

-----------------------------------------------------------------------------

Init ==
    /\ dirs = {} /\ hist = {} /\ pointer = NoRec /\ signed = 0
    /\ lock = {} /\ claimLock = [o \in Op |-> {}] /\ claims = {}
    /\ mode = [p \in Proc |-> Idle]
    /\ rec = [p \in Proc |-> NoRec]
    /\ draft = [p \in Proc |-> NoRec]
    /\ child = [p \in Proc |-> {}]

Goto(p, m) == mode' = [mode EXCEPT ![p] = m]

\* openLocked takes the journal lock without waiting.
openLocked(p) == mode[p] = Idle /\ lock = {} /\ lock' = {p}

\* Close and a crash: the process's locks are free, a joined child is
\* orphaned, and a parent that waits for this child goes on.
Stop(p) ==
    /\ mode[p] # Idle
    /\ mode' = [q \in Proc |-> IF q = p THEN Idle
                               ELSE IF p \in child[q] THEN "open" ELSE mode[q]]
    /\ child' = [q \in Proc |-> IF q = p THEN {} ELSE child[q] \ {p}]
    /\ rec' = [rec EXCEPT ![p] = NoRec]
    /\ draft' = [draft EXCEPT ![p] = NoRec]
    /\ lock' = lock \ {p}
    /\ claimLock' = [o \in Op |-> claimLock[o] \ {p}]
    /\ UNCHANGED durable

\* WithIdleMutation without a join: an ordinary mutation under the lock.
WithIdleMutation(p) ==
    /\ openLocked(p)
    /\ LoadOK(hist, dirs, pointer) /\ ~Blocked(pointer)
    /\ Goto(p, "mutating")
    /\ UNCHANGED <<durable, claimLock, rec, draft, child>>

-----------------------------------------------------------------------------
(* persistRecord: the directory, the immutable record, then the pointer.   *)

\* Everything up to MkdirAll; the draft follows the Session's record.
StartPersist(p, r) ==
    /\ draft' = [draft EXCEPT ![p] = r]
    /\ dirs' = dirs \cup {r.op}
    /\ Goto(p, "writing")
    /\ UNCHANGED <<hist, pointer, signed, lock, claimLock, claims, rec, child>>

\* A failed first record closes the Session; a later one returns the error.
PersistFails(p) ==
    IF rec[p] = NoRec
    THEN Stop(p)
    ELSE /\ Goto(p, "open")
         /\ draft' = [draft EXCEPT ![p] = NoRec]
         /\ UNCHANGED <<durable, lock, claimLock, rec, child>>

\* settleJournalWrite confirms the immutable record: the Session moves on to
\* it, whatever becomes of the pointer.
HistoryInstalled(p) ==
    /\ mode[p] = "writing"
    /\ hist' = hist \cup {draft[p]}
    /\ signed' = draft[p].id
    /\ rec' = [rec EXCEPT ![p] = IF @ = NoRec THEN NoRec ELSE draft[p]]
    /\ Goto(p, "written")
    /\ UNCHANGED <<dirs, pointer, lock, claimLock, claims, draft, child>>

\* The record is installed but the confirming read or sync fails: persistRecord
\* reports an empty digest and the Session keeps its previous record.
HistoryInstalledUnconfirmed(p) ==
    /\ mode[p] = "writing"
    /\ hist' = hist \cup {draft[p]}
    /\ signed' = draft[p].id
    /\ draft' = [draft EXCEPT ![p] = NoRec]
    /\ IF rec[p] = NoRec
       THEN Goto(p, Idle) /\ lock' = lock \ {p}
       ELSE Goto(p, "open") /\ UNCHANGED lock
    /\ UNCHANGED <<dirs, pointer, claimLock, claims, rec, child>>

HistoryFails(p) == mode[p] = "writing" /\ PersistFails(p)

\* The pointer is written and the journal re-read.  A join hands the recovery
\* claim lock over only now, when the new phase is signed.
PointerInstalled(p) ==
    /\ mode[p] = "written"
    /\ LoadOK(hist, dirs, draft[p])
    /\ pointer' = draft[p]
    /\ rec' = [rec EXCEPT ![p] = draft[p]]
    /\ draft' = [draft EXCEPT ![p] = NoRec]
    /\ IF Joins(draft[p])
       THEN /\ Goto(p, "joining")
            /\ claimLock' = [claimLock EXCEPT ![draft[p].op] = @ \ {p}]
       ELSE Goto(p, "open") /\ UNCHANGED claimLock
    /\ UNCHANGED <<dirs, hist, signed, lock, claims, child>>

\* The pointer is installed but its confirmation or the re-read fails.
PointerInstalledUnconfirmed(p) ==
    /\ mode[p] = "written"
    /\ pointer' = draft[p]
    /\ draft' = [draft EXCEPT ![p] = NoRec]
    /\ IF rec[p] = NoRec
       THEN Goto(p, Idle) /\ lock' = lock \ {p}
       ELSE Goto(p, "open") /\ UNCHANGED lock
    /\ UNCHANGED <<dirs, hist, signed, claimLock, claims, rec, child>>

PointerFails(p) == mode[p] = "written" /\ PersistFails(p)

-----------------------------------------------------------------------------
(* Sessions.                                                               *)

\* BeginUpgradePrepared and beginRestoreActivationPreparedContext hold the
\* lock while the caller prepares.
Begin(p) ==
    /\ openLocked(p)
    /\ LoadOK(hist, dirs, pointer) /\ ~Blocked(pointer)
    /\ Goto(p, "preparing")
    /\ UNCHANGED <<durable, claimLock, rec, draft, child>>

BeginPrepared(p, o) ==
    /\ mode[p] = "preparing"
    /\ o \notin dirs
    /\ StartPersist(p, [op |-> o, seq |-> 1, phase |-> "prepared",
                        status |-> Active, pending |-> 0,
                        id |-> signed + 1, prev |-> 0])

\* Mutant of Unchanged: only the pointer's digest is compared.
PointerUnchanged(p) == pointer = rec[p]

\* The journal still holds exactly the Session's record.
Unchanged(p) == LoadOK(hist, dirs, pointer) /\ pointer = rec[p]

Successor(p) == [rec[p] EXCEPT !.seq = @ + 1, !.id = signed + 1,
                               !.prev = rec[p].id]

\* The phases the signed history of a Session's operation recorded.
Recorded(p) == {r.phase : r \in Histories(hist, rec[p].op)}

\* Mutant of InActiveSession: a settled record is not refused.
InSession(p) == mode[p] = "open" /\ rec[p] # NoRec

InActiveSession(p) == mode[p] = "open" /\ rec[p].status = Active

HoldsClaimLock(p) == p \in claimLock[rec[p].op]

\* Transition, TransitionRestoreActivation, the data-activation transitions
\* and BeginJoin.  Restarting the prior Generate needs recovery custody and a
\* history that proves target Apply was never admitted.
Transition(p, next) ==
    /\ InActiveSession(p)
    /\ AllowedTransition(Kind[rec[p].op], rec[p].phase, next)
    /\ (/\ rec[p].phase \in {"rollback-generate-started",
                             "rollback-generate-succeeded"}
        /\ next = "rollback-started")
         => HoldsClaimLock(p) /\ Recorded(p) \subseteq PreApplyPhase
    /\ Unchanged(p)
    /\ StartPersist(p, [Successor(p) EXCEPT !.phase = next])

\* BeginForwardRecoveryJoin re-admits target Apply; BeginForwardRetargetJoin
\* signs target Generate again.  Both need recovery custody.
BeginForwardJoin(p, next) ==
    /\ InActiveSession(p)
    /\ Kind[rec[p].op] = Upgrade /\ HoldsClaimLock(p)
    /\ \/ next = "target-apply-started" /\ rec[p].phase \in ForwardRecoveryPhase
       \/ /\ next = "target-generate-started"
          /\ \/ rec[p].phase \in ForwardRecoveryPhase
             \/ /\ rec[p].phase \in {"target-generate-started",
                                     "target-generate-succeeded"}
                /\ ~(Recorded(p) \subseteq PreApplyPhase)
    /\ Unchanged(p)
    /\ StartPersist(p, [Successor(p) EXCEPT !.phase = next])

\* RecordRestoreControls: writer-control progress within the current phase.
ControlPhase == {"quiesce-started", "runtime-start-started",
                 "rollback-started", "rollback-volume-started",
                 "rollback-volume-succeeded", "rollback-runtime-started"}

RecordRestoreControls(p) ==
    /\ InActiveSession(p)
    /\ Kind[rec[p].op] = RestoreActivation
    /\ rec[p].phase \in ControlPhase
    /\ Unchanged(p)
    /\ StartPersist(p, Successor(p))

\* RecordRestoreAppGroups: the groups are bound once, while quiescing.
RecordRestoreAppGroups(p, n) ==
    /\ InActiveSession(p)
    /\ Kind[rec[p].op] = RestoreActivation
    /\ rec[p].phase = "quiesce-started" /\ rec[p].pending = 0
    /\ Unchanged(p)
    /\ StartPersist(p, [Successor(p) EXCEPT !.pending = n])

\* Complete, and CompletePreparedRelease of an upgrade that never left its
\* prepared phase.
Complete(p, status) ==
    /\ InActiveSession(p)
    /\ \/ status = Succeeded /\ rec[p].phase = "commit-succeeded"
       \/ status = Recovered /\ rec[p].phase = "rollback-succeeded"
       \/ /\ status = Recovered /\ rec[p].phase = "prepared"
          /\ Kind[rec[p].op] = Upgrade
          /\ Recorded(p) = {"prepared"}
    /\ Unchanged(p)
    /\ StartPersist(p, [Successor(p) EXCEPT !.status = status])

\* AcknowledgeRestoreAppGroupClose, after the native close was read back.
AcknowledgeRestoreAppGroupClose(p) ==
    /\ mode[p] = "open"
    /\ rec[p].status # Active /\ rec[p].pending > 0
    /\ Unchanged(p)
    /\ StartPersist(p, [Successor(p) EXCEPT !.pending = @ - 1])

\* ReconcileForRecovery repairs the pointer from history under the held lock.
ReconcileForRecovery(p) ==
    /\ mode[p] = "open"
    /\ RecoverOK(hist, dirs, pointer, rec[p].op)
    /\ pointer' = Latest(hist, rec[p].op)
    /\ rec' = [rec EXCEPT ![p] = Latest(hist, rec[p].op)]
    /\ UNCHANGED <<dirs, hist, signed, claims, lock, claimLock, mode, draft,
                   child>>

-----------------------------------------------------------------------------
(* Explicit recovery.                                                      *)

\* OpenRecovery up to the claim lock: load, or repair the stale pointer.
OpenRecovery(p, o) ==
    /\ openLocked(p)
    /\ RecoverOK(hist, dirs, pointer, o)
    /\ pointer' = Latest(hist, o)
    /\ rec' = [rec EXCEPT ![p] = Latest(hist, o)]
    /\ Goto(p, "admitting")
    /\ UNCHANGED <<dirs, hist, signed, claims, claimLock, draft, child>>

Claimed(r, custody) == [id |-> r.id, custody |-> custody] \in claims

\* requireLegacyClaimantGone: the process table shows no child of o.
NoChildOf(o) == \A q \in Proc : mode[q] \in ChildMode => rec[q].op # o

\* requireClaimantGone: a free lifetime lock proves its claimant ended; an
\* older claim needs the process table.
ClaimantGone(r) == Joins(r) /\ Claimed(r, "") => NoChildOf(r.op)

acquireRecoveryClaimLock(p) ==
    /\ mode[p] = "admitting"
    /\ claimLock[rec[p].op] = {}
    /\ ClaimantGone(rec[p])
    /\ claimLock' = [claimLock EXCEPT ![rec[p].op] = {p}]
    /\ Goto(p, "open")
    /\ UNCHANGED <<durable, lock, rec, draft, child>>

-----------------------------------------------------------------------------
(* Joined children: processes of the target or the prior release.          *)

\* The driver starts one child with the join's nonce and waits for it.
SpawnChild(p, c) ==
    /\ mode[p] = "joining" /\ mode[c] = Idle
    /\ mode' = [mode EXCEPT ![p] = "waiting", ![c] = "spawned"]
    /\ child' = [child EXCEPT ![p] = {c}]
    /\ rec' = [rec EXCEPT ![c] = rec[p]]
    /\ UNCHANGED <<durable, lock, claimLock, draft>>

\* inspectJoin: the current record is the one whose nonce the child carries.
\* The read takes no lock.
inspectJoin(c) ==
    /\ mode[c] = "spawned"
    /\ LoadOK(hist, dirs, pointer) /\ pointer = rec[c]
    /\ Goto(c, "inspected")
    /\ UNCHANGED <<durable, lock, claimLock, rec, draft, child>>

claimJoinLock(c) ==
    /\ mode[c] = "inspected"
    /\ claimLock[rec[c].op] = {}
    /\ claimLock' = [claimLock EXCEPT ![rec[c].op] = {c}]
    /\ Goto(c, "locked")
    /\ UNCHANGED <<durable, lock, rec, draft, child>>

\* Mutant of claimJoin: the record read before the lock is trusted.
claimJoinStale(c) ==
    /\ mode[c] = "locked"
    /\ ~\E k \in Custody : Claimed(rec[c], k)
    /\ claims' = claims \cup {[id |-> rec[c].id, custody |-> "lifetime-lock"]}
    /\ Goto(c, "executing")
    /\ UNCHANGED <<dirs, hist, pointer, signed, lock, claimLock, rec, draft,
                   child>>

\* The record is re-read under the lock before the one-use claim is written.
\* A child of a prior release may give the lock up right after that.
claimJoin(c) ==
    /\ mode[c] = "locked"
    /\ LoadOK(hist, dirs, pointer) /\ pointer = rec[c]
    /\ ~\E k \in Custody : Claimed(rec[c], k)
    /\ IF LegacyPrior /\ rec[c].phase \in PriorReleasePhase
       THEN /\ claims' = claims \cup {[id |-> rec[c].id, custody |-> ""]}
            /\ claimLock' = [claimLock EXCEPT ![rec[c].op] = {}]
       ELSE /\ claims' = claims \cup {[id |-> rec[c].id,
                                       custody |-> "lifetime-lock"]}
            /\ UNCHANGED claimLock
    /\ Goto(c, "executing")
    /\ UNCHANGED <<dirs, hist, pointer, signed, lock, rec, draft, child>>

-----------------------------------------------------------------------------

PersistStep(p) ==
    \/ HistoryInstalled(p) \/ HistoryInstalledUnconfirmed(p) \/ HistoryFails(p)
    \/ PointerInstalled(p) \/ PointerInstalledUnconfirmed(p) \/ PointerFails(p)

SessionStep(p) ==
    \/ Begin(p)
    \/ \E o \in Op : BeginPrepared(p, o) \/ OpenRecovery(p, o)
    \/ acquireRecoveryClaimLock(p)
    \/ \E next \in Phase : Transition(p, next) \/ BeginForwardJoin(p, next)
    \/ RecordRestoreControls(p)
    \/ \E n \in 1..MaxGroups : RecordRestoreAppGroups(p, n)
    \/ \E s \in {Succeeded, Recovered} : Complete(p, s)
    \/ AcknowledgeRestoreAppGroupClose(p)
    \/ ReconcileForRecovery(p)
    \/ \E c \in Proc : SpawnChild(p, c)

ChildStep(c) == inspectJoin(c) \/ claimJoinLock(c) \/ claimJoin(c)

Next == \E p \in Proc :
    WithIdleMutation(p) \/ Stop(p) \/ PersistStep(p) \/ SessionStep(p)
      \/ ChildStep(p)

Spec == Init /\ [][Next]_vars

-----------------------------------------------------------------------------

\* Type correctness of the files, the locks, the claims and the processes.
TypeOK ==
    /\ dirs \subseteq Op
    /\ hist \subseteq Record
    /\ pointer \in Record \cup {NoRec}
    /\ signed \in Nat
    /\ lock \subseteq Proc
    /\ claimLock \in [Op -> SUBSET Proc]
    /\ claims \subseteq [id : Nat, custody : Custody]
    /\ mode \in [Proc -> Mode]
    /\ rec \in [Proc -> Record \cup {NoRec}]
    /\ draft \in [Proc -> Record \cup {NoRec}]
    /\ child \in [Proc -> SUBSET Proc]

\* Every operation's history is one chain of records, each naming its
\* predecessor's digest: no crash, lost pointer write, repair or retried
\* transition ever signs a second successor of a record.
LinearHistory ==
    \A r \in hist :
        /\ \A q \in hist : q.op = r.op /\ q.seq = r.seq => q = r
        /\ r.seq > 1 => \E q \in hist : /\ q.op = r.op /\ q.seq = r.seq - 1
                                        /\ q.id = r.prev

\* An operation is unsettled when the newest record of its history blocks.
Unsettled(o) == \E r \in hist : IsLatest(hist, o, r) /\ recordBlocksMutation(r)

\* At most one operation is unsettled at any time, whatever the pointer says.
OneUnsettledOperation == \A a, b \in Op : Unsettled(a) /\ Unsettled(b) => a = b

\* A joined child changes the workspace only under the newest signed phase of
\* its operation, alone, with no ordinary mutation under way, and while no
\* Session other than the parent that waits for it has passed recovery's
\* claim-lock admission.
JoinedChildExclusive ==
    \A c \in Proc : mode[c] = "executing" =>
        /\ IsLatest(hist, rec[c].op, rec[c])
        /\ \A q \in Proc \ {c} : mode[q] \notin {"executing", "mutating"}
        /\ \A q \in Proc : mode[q] \in SessionMode \ {"admitting"} =>
              mode[q] = "waiting" /\ child[q] = {c}

\* No history ran into the phase limit and none is an empty directory.
HistoriesReadable ==
    \A o \in dirs : /\ Histories(hist, o) # {}
                    /\ \A r \in Histories(hist, o) : r.seq <= HistoryLimit

\* With the journal lock free the journal is never wedged: an unsettled
\* operation is open to explicit recovery, and when none is unsettled either
\* the journal loads or recovering a settled operation repairs its pointer.
RecoveryReaches ==
    lock = {} /\ HistoriesReadable =>
        /\ \A o \in Op : Unsettled(o) => RecoverOK(hist, dirs, pointer, o)
        /\ LoadOK(hist, dirs, pointer)
             \/ \E o \in Op : RecoverOK(hist, dirs, pointer, o)

\* History is append-only, and once an operation is settled its outcome is
\* final: later records only acknowledge closes of the same settled phase.
SettledIsFinal ==
    [][/\ hist \subseteq hist'
       /\ \A r \in hist' \ hist, q \in hist :
            q.op = r.op /\ q.status # Active =>
                /\ r.status = q.status /\ r.phase = q.phase
                /\ r.pending < q.pending]_vars

\* The directory of a new operation holds no record yet, or a history has one
\* record more than can be read back: whoever reads the journal fails.
Unreadable(o) ==
    \/ Histories(hist, o) = {}
    \/ \E r \in Histories(hist, o) : r.seq > HistoryLimit

\* An unreadable history fails closed.  Whatever a crash or the record limit
\* left behind, no mutation, no new operation and no joined child starts, and
\* nothing is signed after it; only the Session that is creating an operation
\* may still install its first record.
UnreadableFailsClosed ==
    [][(\E o \in dirs : Unreadable(o)) =>
          /\ \A p \in Proc : mode'[p] # mode[p] =>
                mode'[p] \notin {"mutating", "preparing", "admitting",
                                 "executing", "writing"}
          /\ \A r \in hist' \ hist : r.seq = 1 /\ r.op \in dirs]_vars

-----------------------------------------------------------------------------
(* The journal implements LifecycleAuthority: an operation is open while the *)
(* newest record of its history blocks, wherever the pointer is.             *)

AuthorityStatus ==
    [o \in Op |-> IF Histories(hist, o) = {} THEN "new"
                  ELSE IF Unsettled(o) THEN "open" ELSE "settled"]

AuthorityOutcome ==
    [o \in Op |-> IF \E r \in hist : r.op = o /\ r.status # Active
                  THEN (CHOOSE r \in hist : r.op = o /\ r.status # Active).status
                  ELSE "undecided"]

Authority == INSTANCE LifecycleAuthority WITH
    AuthorityOp <- Op, Mutator <- Proc, Outcome <- {Succeeded, Recovered},
    status <- AuthorityStatus, outcome <- AuthorityOutcome,
    mutators <- {p \in Proc : mode[p] = "mutating"}

\* Every behaviour of the journal, over crashes, unconfirmed writes, stale
\* pointers and recoveries, is one in which operations own the workspace one
\* at a time and decide once, and ordinary mutations run only in between.
ImplementsAuthority == Authority!AuthoritySpec

-----------------------------------------------------------------------------
(* What its drivers rely on: the journal implements SignedOperations, with   *)
(* the newest record of each history, confirmed or not.                      *)

SignedHead(o) ==
    IF Histories(hist, o) = {}
    THEN [phase |-> "none", status |-> Active, recorded |-> {}, closes |-> "none"]
    ELSE [phase |-> Latest(hist, o).phase, status |-> Latest(hist, o).status,
          recorded |-> IF Kind[o] = Upgrade
                       THEN {r.phase : r \in Histories(hist, o)} ELSE {},
          closes |-> IF Latest(hist, o).pending > 0 THEN "owed" ELSE "none"]

Signed == INSTANCE SignedOperations WITH
    SignedOp <- Op, SignedKind <- Kind, head <- [o \in Op |-> SignedHead(o)]

\* Every behaviour of the journal changes the newest record of an operation only
\* as SignedOperations allows, whoever writes it: no Session behind a stale
\* pointer or an unconfirmed record takes it off its phase graph.
SignsAsAgreed == Signed!SignedSpec

-----------------------------------------------------------------------------
(* The inductive strengthening behind the safety properties: whoever writes *)
(* the journal holds its lock, and its draft extends the newest record.     *)

\* A Session and an ordinary mutation hold the journal lock for themselves.
LockHeld ==
    \A p \in Proc : mode[p] \in SessionMode \cup {"mutating"} => lock = {p}

\* A Session past Begin or OpenRecovery and a child have a record, a Session
\* that prepares has none; only a waiting Session has a child.
SessionShape ==
    \A p \in Proc :
        /\ mode[p] \in {"open", "admitting", "joining", "waiting"} \cup ChildMode
              => rec[p] \in Record
        /\ mode[p] \in {Idle, "preparing"} => rec[p] = NoRec
        /\ child[p] # {} => mode[p] = "waiting"
        /\ \A c, e \in child[p] : c = e

\* Every record lies in a known directory and every history has a newest one.
HistoryShape ==
    /\ \A r \in hist : r.op \in dirs
    /\ \A r \in hist : \E q \in hist : IsLatest(hist, r.op, q)

\* A draft not yet installed follows the newest record of its operation, or
\* starts a new one, and no other operation is unsettled.
DraftExtends ==
    \A p \in Proc : mode[p] = "writing" =>
        /\ draft[p] \in Record
        /\ draft[p].op \in dirs
        /\ \A o \in Op : Unsettled(o) => o = draft[p].op
        /\ rec[p] = NoRec => /\ \A r \in hist : r.op # draft[p].op
                             /\ draft[p].seq = 1
        /\ rec[p] # NoRec => /\ IsLatest(hist, draft[p].op, rec[p])
                             /\ draft[p].seq = rec[p].seq + 1
                             /\ draft[p].prev = rec[p].id

\* An installed draft is the newest record of its operation.
DraftInstalled ==
    \A p \in Proc : mode[p] = "written" =>
        draft[p] \in Record /\ IsLatest(hist, draft[p].op, draft[p])

\* Nothing is unsettled while a mutation runs or an operation is prepared.
NothingUnsettled ==
    \A p \in Proc, o \in Op :
        mode[p] \in {"mutating", "preparing"} => ~Unsettled(o)

\* The inductive invariant: the lock holder is the only writer, its draft
\* extends the newest record, and histories are linear with one unsettled head.
JournalInv ==
    /\ TypeOK
    /\ LockHeld
    /\ SessionShape
    /\ HistoryShape
    /\ LinearHistory
    /\ OneUnsettledOperation
    /\ DraftExtends
    /\ DraftInstalled
    /\ NothingUnsettled

=============================================================================
