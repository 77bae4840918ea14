----------------------- MODULE MutationJournalProofs -----------------------
(***************************************************************************)
(* Machine-checked proofs about the lifecycle-mutation journal, for every  *)
(* set of processes and operations and every history limit.                *)
(***************************************************************************)
EXTENDS MutationJournal, TLAPS

(* The first phase of every operation is a phase of the graph.             *)
LEMMA PreparedIsPhase == "prepared" \in Phase
  <1>1. <<"prepared", "target-generate-started">> \in UpgradeTransition
    BY DEF UpgradeTransition, UpgradeForward
  <1> QED
    BY <1>1 DEF Phase

(* Two newest records of one operation are the same record.                *)
LEMMA LatestUnique ==
  ASSUME hist \subseteq Record, LinearHistory,
         NEW o, NEW r, NEW q,
         IsLatest(hist, o, r), IsLatest(hist, o, q)
  PROVE  r = q
  <1>1. r \in hist /\ q \in hist /\ r.op = q.op
    BY DEF IsLatest, Histories
  <1>2. r.seq \in Nat /\ q.seq \in Nat
    BY <1>1 DEF Record
  <1>3. r.seq = q.seq
    BY <1>2 DEF IsLatest
  <1> QED
    BY <1>1, <1>3 DEF LinearHistory

(* A history with a record has exactly the newest record Latest names.     *)
LEMMA LatestChosen ==
  ASSUME HistoryShape, NEW o, NEW r \in hist, r.op = o
  PROVE  IsLatest(hist, o, Latest(hist, o))
  <1>1. PICK q \in hist : IsLatest(hist, o, q)
    BY DEF HistoryShape
  <1>2. \E x \in Histories(hist, o) : \A y \in Histories(hist, o) : y.seq <= x.seq
    BY <1>1 DEF IsLatest
  <1> QED
    BY <1>2 DEF Latest, IsLatest

(* An operation is unsettled exactly when its directory has an active head. *)
LEMMA UnsettledIsActiveHead ==
  ASSUME TypeOK, HistoryShape, LinearHistory, NEW o, Unsettled(o)
  PROVE  o \in dirs /\ ActiveHead(hist, dirs, o)
  <1>1. PICK r \in hist : IsLatest(hist, o, r) /\ recordBlocksMutation(r)
    BY DEF Unsettled
  <1>2. r.op = o
    BY <1>1 DEF IsLatest, Histories
  <1>3. IsLatest(hist, o, Latest(hist, o))
    BY <1>2, LatestChosen
  <1>4. Latest(hist, o) = r
    BY <1>1, <1>3, LatestUnique DEF TypeOK
  <1>5. o \in dirs
    BY <1>2 DEF HistoryShape
  <1> QED
    BY <1>1, <1>4, <1>5 DEF ActiveHead

(* What loadRecord guarantees: the pointer it returns is the newest record  *)
(* of its operation and no other operation is unsettled.                    *)
LEMMA LoadedPointer ==
  ASSUME TypeOK, HistoryShape, LinearHistory,
         LoadOK(hist, dirs, pointer), pointer # NoRec
  PROVE  /\ IsLatest(hist, pointer.op, pointer)
         /\ pointer.op \in dirs
         /\ \A o \in Op : Unsettled(o) => o = pointer.op
  <1>1. pointer.op \in dirs /\ pointer = Latest(hist, pointer.op)
    BY DEF LoadOK
  <1>2. WellFormed(hist, pointer.op)
    BY <1>1 DEF LoadOK, Readable
  <1>3. PICK r \in hist : r.op = pointer.op
    BY <1>2 DEF WellFormed, Histories
  <1>4. IsLatest(hist, pointer.op, pointer)
    BY <1>1, <1>3, LatestChosen
  <1>5. ASSUME NEW o \in Op, Unsettled(o) PROVE o = pointer.op
    BY <1>5, UnsettledIsActiveHead DEF LoadOK
  <1> QED
    BY <1>1, <1>4, <1>5

(* A journal that loads without blocking has no unsettled operation.        *)
LEMMA LoadedIdle ==
  ASSUME TypeOK, HistoryShape, LinearHistory,
         LoadOK(hist, dirs, pointer), ~Blocked(pointer),
         NEW o \in Op
  PROVE  ~Unsettled(o)
  <1> SUFFICES ASSUME Unsettled(o) PROVE FALSE
    OBVIOUS
  <1>1. ActiveHead(hist, dirs, o) /\ o \in dirs
    BY UnsettledIsActiveHead
  <1>2. pointer # NoRec
    BY <1>1 DEF LoadOK
  <1>3. o = pointer.op /\ IsLatest(hist, o, pointer)
    BY <1>2, LoadedPointer
  <1>4. PICK r \in hist : IsLatest(hist, o, r) /\ recordBlocksMutation(r)
    BY DEF Unsettled
  <1>5. r = pointer
    BY <1>3, <1>4, LatestUnique DEF TypeOK
  <1> QED
    BY <1>2, <1>4, <1>5 DEF Blocked

-----------------------------------------------------------------------------

(* The history parts of the invariant speak of hist and dirs only.          *)
LEMMA HistoryFrame ==
  ASSUME JournalInv, hist' = hist, dirs' = dirs
  PROVE  /\ HistoryShape' /\ LinearHistory' /\ OneUnsettledOperation'
         /\ \A o : Unsettled(o)' <=> Unsettled(o)
         /\ \A o, r : IsLatest(hist, o, r)' <=> IsLatest(hist, o, r)
  BY DEF JournalInv, HistoryShape, LinearHistory, OneUnsettledOperation,
         Unsettled, IsLatest, Histories

(* Installing a draft that extends the newest record keeps the history      *)
(* linear and makes the draft the newest record; other operations keep      *)
(* their newest records.                                                    *)
LEMMA InstallDraft ==
  ASSUME JournalInv, NEW p \in Proc, mode[p] = "writing",
         hist' = hist \cup {draft[p]}, dirs' = dirs
  PROVE  /\ HistoryShape' /\ LinearHistory' /\ OneUnsettledOperation'
         /\ IsLatest(hist', draft[p].op, draft[p])
         /\ \A o \in Op : Unsettled(o)' => o = draft[p].op
  <1> DEFINE d == draft[p]
  <1>1. /\ d \in Record /\ d.op \in dirs
        /\ \A o \in Op : Unsettled(o) => o = d.op
        /\ rec[p] = NoRec => (\A r \in hist : r.op # d.op) /\ d.seq = 1
        /\ rec[p] # NoRec => /\ IsLatest(hist, d.op, rec[p])
                             /\ d.seq = rec[p].seq + 1
                             /\ d.prev = rec[p].id
    BY DEF JournalInv, DraftExtends
  <1>2. /\ hist \subseteq Record /\ LinearHistory /\ HistoryShape
    BY DEF JournalInv, TypeOK
  <1>3. \A r \in hist : r.seq \in Nat /\ r.seq >= 1 /\ r.op \in Op
    BY <1>2 DEF Record
  <1>4. d.seq \in Nat /\ d.seq >= 1
    BY <1>1 DEF Record
  <1>5. \A r \in hist : r.op = d.op => r.seq < d.seq
    <2>1. CASE rec[p] = NoRec
      BY <1>1, <2>1
    <2>2. CASE rec[p] # NoRec
      <3>1. rec[p] \in hist /\ \A q \in hist : q.op = d.op => q.seq <= rec[p].seq
        BY <1>1, <2>2 DEF IsLatest, Histories
      <3> QED
        BY <1>1, <1>3, <2>2, <3>1
    <2> QED
      BY <2>1, <2>2
  <1>6. IsLatest(hist', d.op, d)
    BY <1>3, <1>4, <1>5 DEF IsLatest, Histories
  <1>7. \A o, r : o # d.op => (IsLatest(hist', o, r) <=> IsLatest(hist, o, r))
    BY DEF IsLatest, Histories
  <1>8. LinearHistory'
    <2>1. \A r, q \in hist' : q.op = r.op /\ q.seq = r.seq => q = r
      BY <1>2, <1>3, <1>4, <1>5 DEF LinearHistory
    <2>2. d.seq > 1 => \E q \in hist' : /\ q.op = d.op /\ q.seq = d.seq - 1
                                        /\ q.id = d.prev
      <3> SUFFICES ASSUME d.seq > 1
                   PROVE  \E q \in hist' : /\ q.op = d.op /\ q.seq = d.seq - 1
                                           /\ q.id = d.prev
        OBVIOUS
      <3>1. rec[p] # NoRec
        BY <1>1
      <3>2. rec[p] \in hist /\ rec[p].op = d.op
        BY <1>1, <3>1 DEF IsLatest, Histories
      <3>3. rec[p].seq = d.seq - 1
        BY <1>1, <1>3, <3>1, <3>2
      <3> QED
        BY <1>1, <3>1, <3>2, <3>3
    <2>3. \A r \in hist : r.seq > 1 => \E q \in hist' : /\ q.op = r.op
                                                        /\ q.seq = r.seq - 1
                                                        /\ q.id = r.prev
      BY <1>2 DEF LinearHistory
    <2> QED
      BY <2>1, <2>2, <2>3 DEF LinearHistory
  <1>9. HistoryShape'
    <2>1. \A r \in hist' : r.op \in dirs
      BY <1>1, <1>2 DEF HistoryShape
    <2>2. ASSUME NEW r \in hist' PROVE \E q \in hist' : IsLatest(hist', r.op, q)
      <3>1. CASE r.op = d.op
        BY <1>6, <3>1
      <3>2. CASE r.op # d.op
        <4>1. r \in hist
          BY <3>2
        <4>2. PICK q \in hist : IsLatest(hist, r.op, q)
          BY <1>2, <4>1 DEF HistoryShape
        <4> QED
          BY <1>7, <3>2, <4>2
      <3> QED
        BY <3>1, <3>2
    <2> QED
      BY <2>1, <2>2 DEF HistoryShape
  <1>10. \A o \in Op : Unsettled(o)' => o = d.op
    <2> SUFFICES ASSUME NEW o \in Op, Unsettled(o)', o # d.op PROVE FALSE
      OBVIOUS
    <2>1. PICK r \in hist' : IsLatest(hist', o, r) /\ recordBlocksMutation(r)
      BY DEF Unsettled, recordBlocksMutation
    <2>2. IsLatest(hist, o, r) /\ r \in hist
      BY <1>7, <2>1 DEF IsLatest, Histories
    <2> QED
      BY <1>1, <2>1, <2>2 DEF Unsettled
  <1>11. OneUnsettledOperation'
    BY <1>10 DEF OneUnsettledOperation
  <1> QED
    BY <1>6, <1>8, <1>9, <1>10, <1>11

(* Only the holder of the journal lock runs a Session or a mutation.        *)
LEMMA OneLockHolder ==
  ASSUME JournalInv, NEW p \in Proc, NEW q \in Proc, p # q,
         mode[p] \in SessionMode \cup {"mutating"}
  PROVE  mode[q] \notin SessionMode \cup {"mutating"}
  BY DEF JournalInv, LockHeld

-----------------------------------------------------------------------------

(* Close or a crash, of a Session, a mutation or a child.                   *)
LEMMA StopKeeps ==
  ASSUME JournalInv, NEW p \in Proc, Stop(p)
  PROVE  JournalInv'
  <1>1. hist' = hist /\ dirs' = dirs
    BY DEF Stop, durable
  <1>2. /\ HistoryShape' /\ LinearHistory' /\ OneUnsettledOperation'
        /\ \A o : Unsettled(o)' <=> Unsettled(o)
    BY <1>1, HistoryFrame
  <1>3. TypeOK'
    BY DEF JournalInv, TypeOK, Stop, durable, Mode, SessionMode, Idle
  <1>4. \A q \in Proc : q # p => \/ mode'[q] = mode[q]
                                 \/ mode[q] = "waiting" /\ mode'[q] = "open"
    BY DEF JournalInv, TypeOK, SessionShape, Stop
  <1>5. mode'[p] = Idle
    BY DEF JournalInv, TypeOK, Stop
  <1>6. \A q \in Proc : q # p => rec'[q] = rec[q] /\ draft'[q] = draft[q]
    BY DEF JournalInv, TypeOK, Stop
  <1>7. LockHeld'
    <2> SUFFICES ASSUME NEW q \in Proc, mode'[q] \in SessionMode \cup {"mutating"}
                 PROVE  lock' = {q}
      BY DEF LockHeld
    <2>1. q # p
      BY <1>5 DEF SessionMode, Idle
    <2>2. mode[q] \in SessionMode \cup {"mutating"}
      BY <1>4, <2>1 DEF SessionMode
    <2>3. lock = {q}
      BY <2>2 DEF JournalInv, LockHeld
    <2> QED
      BY <2>1, <2>3 DEF Stop
  <1>8. SessionShape'
    <2>1. ASSUME NEW q \in Proc,
                 mode'[q] \in {"open", "admitting", "joining", "waiting"}
                                \cup ChildMode
          PROVE  rec'[q] \in Record
      BY <1>4, <1>5, <1>6, <2>1 DEF JournalInv, SessionShape, Idle, ChildMode
    <2>4. ASSUME NEW q \in Proc, mode'[q] \in {Idle, "preparing"}
          PROVE  rec'[q] = NoRec
      BY <1>4, <1>5, <1>6, <2>4 DEF JournalInv, TypeOK, SessionShape, Idle, Stop
    <2>2. ASSUME NEW q \in Proc, child'[q] # {} PROVE mode'[q] = "waiting"
      <3>1. q # p /\ child'[q] = child[q] \ {p} /\ child[q] # {}
        BY <2>2 DEF JournalInv, TypeOK, Stop
      <3>2. mode[q] = "waiting" /\ lock = {q}
        BY <3>1 DEF JournalInv, SessionShape, LockHeld, SessionMode
      <3>3. p \notin child[q]
        <4> SUFFICES ASSUME p \in child[q] PROVE FALSE
          OBVIOUS
        <4>1. child[q] = {p}
          BY DEF JournalInv, SessionShape
        <4> QED
          BY <2>2, <3>1, <4>1
      <3> QED
        BY <3>1, <3>2, <3>3 DEF Stop
    <2>3. ASSUME NEW q \in Proc, NEW c \in child'[q], NEW e \in child'[q]
          PROVE  c = e
      BY DEF JournalInv, TypeOK, SessionShape, Stop
    <2> QED
      BY <2>1, <2>2, <2>3, <2>4 DEF SessionShape
  <1>9. DraftExtends'
    BY <1>1, <1>2, <1>4, <1>5, <1>6 DEF JournalInv, DraftExtends, Idle, IsLatest
  <1>10. DraftInstalled'
    BY <1>1, <1>4, <1>5, <1>6 DEF JournalInv, DraftInstalled, Idle, IsLatest
  <1>11. NothingUnsettled'
    BY <1>2, <1>4, <1>5 DEF JournalInv, NothingUnsettled, Idle
  <1> QED
    BY <1>2, <1>3, <1>7, <1>8, <1>9, <1>10, <1>11 DEF JournalInv

(* A step of the lock holder p that leaves hist and dirs alone and moves to *)
(* a mode outside a pending write: only p's own mode, record and draft may  *)
(* change.                                                                  *)
LEMMA QuietStepKeeps ==
  ASSUME JournalInv, NEW p \in Proc, TypeOK',
         hist' = hist, dirs' = dirs, lock' \in {{p}, lock \ {p}},
         mode[p] \in SessionMode \/ (mode[p] = Idle /\ lock = {}),
         \A q \in Proc : q # p => /\ mode'[q] = mode[q] /\ rec'[q] = rec[q]
                                  /\ draft'[q] = draft[q] /\ child'[q] = child[q],
         child'[p] = {}, mode'[p] \notin {"writing", "written"},
         mode'[p] \in SessionMode \cup {"mutating"} => lock' = {p},
         mode'[p] \in {"open", "admitting", "joining", "waiting"} => rec'[p] \in Record,
         mode'[p] \in {Idle, "preparing"} => rec'[p] = NoRec,
         mode'[p] \notin ChildMode,
         mode'[p] \in {"mutating", "preparing"} => \A o \in Op : ~Unsettled(o)
  PROVE  JournalInv'
  <1>1. /\ HistoryShape' /\ LinearHistory' /\ OneUnsettledOperation'
        /\ \A o : Unsettled(o)' <=> Unsettled(o)
    BY HistoryFrame
  <1>2. \A q \in Proc : q # p => mode[q] \notin SessionMode \cup {"mutating"}
    <2>1. CASE mode[p] \in SessionMode
      BY <2>1, OneLockHolder
    <2>2. CASE lock = {}
      BY <2>2 DEF JournalInv, LockHeld
    <2> QED
      BY <2>1, <2>2
  <1>3. LockHeld'
    BY <1>2 DEF LockHeld
  <1>4. SessionShape'
    BY DEF JournalInv, SessionShape
  <1>5. DraftExtends' /\ DraftInstalled'
    BY <1>2 DEF DraftExtends, DraftInstalled, SessionMode
  <1>6. NothingUnsettled'
    BY <1>1, <1>2 DEF NothingUnsettled, SessionMode
  <1> QED
    BY <1>1, <1>3, <1>4, <1>5, <1>6 DEF JournalInv

(* An ordinary mutation and the start of an operation pass the same fence.  *)
LEMMA AdmissionKeeps ==
  ASSUME JournalInv, NEW p \in Proc, WithIdleMutation(p) \/ Begin(p)
  PROVE  JournalInv'
  <1> USE DEF WithIdleMutation, Begin, openLocked, Goto, durable
  <1>1. \A o \in Op : ~Unsettled(o)
    BY LoadedIdle DEF JournalInv
  <1>2. TypeOK'
    BY DEF JournalInv, TypeOK, Mode, SessionMode
  <1>3. child[p] = {} /\ rec[p] = NoRec
    BY DEF JournalInv, SessionShape, Idle
  <1>4. /\ mode'[p] \in {"mutating", "preparing"}
        /\ \A q \in Proc : q # p => mode'[q] = mode[q]
    BY DEF JournalInv, TypeOK
  <1>5. mode'[p] \notin ChildMode
    BY <1>4 DEF ChildMode
  <1> QED
    BY <1>1, <1>2, <1>3, <1>4, <1>5, QuietStepKeeps

(* recoverLatestRecord returns an installed record.                         *)
LEMMA RecoveredRecord ==
  ASSUME JournalInv, NEW o, RecoverOK(hist, dirs, pointer, o)
  PROVE  Latest(hist, o) \in hist /\ Latest(hist, o) \in Record
  <1>1. WellFormed(hist, o)
    BY DEF RecoverOK, Readable
  <1>2. PICK r \in hist : r.op = o
    BY <1>1 DEF WellFormed, Histories
  <1>3. IsLatest(hist, o, Latest(hist, o))
    BY <1>2, LatestChosen DEF JournalInv
  <1> QED
    BY <1>3 DEF JournalInv, TypeOK, IsLatest, Histories

(* Explicit recovery and reconciliation repair only the pointer.            *)
LEMMA RecoveryKeeps ==
  ASSUME JournalInv, NEW p \in Proc,
         \/ \E o \in Op : OpenRecovery(p, o)
         \/ ReconcileForRecovery(p)
         \/ acquireRecoveryClaimLock(p)
  PROVE  JournalInv'
  <1> USE DEF Goto, durable
  <1>1. ASSUME NEW o \in Op, OpenRecovery(p, o) PROVE JournalInv'
    <2> USE <1>1 DEF OpenRecovery, openLocked
    <2>1. Latest(hist, o) \in Record
      BY RecoveredRecord
    <2>2. TypeOK'
      BY <2>1 DEF JournalInv, TypeOK, Mode, SessionMode
    <2>3. child[p] = {}
      BY DEF JournalInv, SessionShape, Idle
    <2>4. /\ mode'[p] = "admitting" /\ rec'[p] \in Record
          /\ \A q \in Proc : q # p => mode'[q] = mode[q] /\ rec'[q] = rec[q]
      BY <2>1 DEF JournalInv, TypeOK
    <2> QED
      BY <2>2, <2>3, <2>4, QuietStepKeeps DEF ChildMode, Idle
  <1>2. CASE ReconcileForRecovery(p)
    <2> USE <1>2 DEF ReconcileForRecovery
    <2>1. Latest(hist, rec[p].op) \in Record
      BY RecoveredRecord
    <2>2. TypeOK'
      BY <2>1 DEF JournalInv, TypeOK
    <2>3. child[p] = {} /\ lock = {p}
      BY DEF JournalInv, SessionShape, LockHeld, SessionMode
    <2>4. /\ mode'[p] = "open" /\ rec'[p] \in Record
          /\ \A q \in Proc : q # p => rec'[q] = rec[q]
      BY <2>1 DEF JournalInv, TypeOK
    <2>5. mode[p] \in SessionMode
      BY DEF SessionMode
    <2> QED
      BY <2>2, <2>3, <2>4, <2>5, QuietStepKeeps DEF ChildMode, Idle
  <1>3. CASE acquireRecoveryClaimLock(p)
    <2> USE <1>3 DEF acquireRecoveryClaimLock
    <2>1. TypeOK'
      BY DEF JournalInv, TypeOK, Mode, SessionMode
    <2>2. child[p] = {} /\ lock = {p} /\ rec[p] \in Record
      BY DEF JournalInv, SessionShape, LockHeld, SessionMode
    <2>3. mode'[p] = "open" /\ \A q \in Proc : q # p => mode'[q] = mode[q]
      BY DEF JournalInv, TypeOK
    <2>4. mode[p] \in SessionMode
      BY DEF SessionMode
    <2> QED
      BY <2>1, <2>2, <2>3, <2>4, QuietStepKeeps DEF ChildMode, Idle
  <1> QED
    BY <1>1, <1>2, <1>3

-----------------------------------------------------------------------------

(* A failed write leaves the journal as it was.                             *)
LEMMA PersistFailsKeeps ==
  ASSUME JournalInv, NEW p \in Proc, HistoryFails(p) \/ PointerFails(p)
  PROVE  JournalInv'
  <1> USE DEF HistoryFails, PointerFails, PersistFails, Goto, durable
  <1>1. CASE rec[p] = NoRec
    BY <1>1, StopKeeps
  <1>2. CASE rec[p] # NoRec
    <2>1. rec[p] \in Record
      BY <1>2 DEF JournalInv, TypeOK
    <2>2. TypeOK'
      BY <1>2 DEF JournalInv, TypeOK, Mode, SessionMode
    <2>3. child[p] = {} /\ lock = {p}
      BY DEF JournalInv, SessionShape, LockHeld, SessionMode
    <2>4. mode'[p] = "open" /\ \A q \in Proc : q # p => /\ mode'[q] = mode[q]
                                                        /\ draft'[q] = draft[q]
      BY <1>2 DEF JournalInv, TypeOK
    <2>5. mode[p] \in SessionMode
      BY DEF SessionMode
    <2> QED
      BY <1>2, <2>1, <2>2, <2>3, <2>4, <2>5, QuietStepKeeps DEF ChildMode, Idle
  <1> QED
    BY <1>1, <1>2

(* The pointer write, confirmed or not, changes no history.                 *)
LEMMA PointerKeeps ==
  ASSUME JournalInv, NEW p \in Proc,
         PointerInstalled(p) \/ PointerInstalledUnconfirmed(p)
  PROVE  JournalInv'
  <1> USE DEF Goto
  <1>1. mode[p] = "written" /\ mode[p] \in SessionMode
    BY DEF PointerInstalled, PointerInstalledUnconfirmed, SessionMode
  <1>2. draft[p] \in Record /\ child[p] = {} /\ lock = {p}
    BY <1>1 DEF JournalInv, DraftInstalled, SessionShape, LockHeld
  <1>3. CASE PointerInstalled(p)
    <2> USE <1>3 DEF PointerInstalled
    <2>1. TypeOK'
      BY <1>2 DEF JournalInv, TypeOK, Mode, SessionMode
    <2>2. /\ mode'[p] \in {"joining", "open"} /\ rec'[p] \in Record
          /\ \A q \in Proc : q # p => /\ mode'[q] = mode[q] /\ rec'[q] = rec[q]
                                      /\ draft'[q] = draft[q]
      BY <1>2 DEF JournalInv, TypeOK
    <2> QED
      BY <1>1, <1>2, <2>1, <2>2, QuietStepKeeps DEF ChildMode, Idle
  <1>4. CASE PointerInstalledUnconfirmed(p)
    <2> USE <1>4 DEF PointerInstalledUnconfirmed
    <2>1. TypeOK'
      BY <1>2 DEF JournalInv, TypeOK, Mode, SessionMode
    <2>2. /\ mode'[p] \in {Idle, "open"}
          /\ mode'[p] = "open" => rec[p] \in Record /\ lock' = {p}
          /\ \A q \in Proc : q # p => /\ mode'[q] = mode[q]
                                      /\ draft'[q] = draft[q]
      BY <1>2 DEF JournalInv, TypeOK, Idle
    <2>3. lock' \in {{p}, lock \ {p}}
      BY <1>2
    <2>4. mode'[p] \in SessionMode \cup {"mutating"} => mode'[p] = "open"
      BY <2>2 DEF Idle, SessionMode
    <2>5. /\ mode'[p] \notin {"writing", "written", "preparing", "mutating",
                              "admitting", "joining", "waiting"}
          /\ mode'[p] \notin ChildMode
          /\ mode'[p] = Idle => rec'[p] = NoRec
      BY <2>2 DEF Idle, ChildMode, JournalInv, TypeOK
    <2> QED
      BY <1>1, <1>2, <2>1, <2>2, <2>3, <2>4, <2>5, QuietStepKeeps
  <1> QED
    BY <1>3, <1>4

(* The history write, confirmed or not, extends the newest record.          *)
LEMMA HistoryKeeps ==
  ASSUME JournalInv, NEW p \in Proc,
         HistoryInstalled(p) \/ HistoryInstalledUnconfirmed(p)
  PROVE  JournalInv'
  <1> USE DEF Goto
  <1>1. /\ mode[p] = "writing" /\ mode[p] \in SessionMode
        /\ hist' = hist \cup {draft[p]} /\ dirs' = dirs
    BY DEF HistoryInstalled, HistoryInstalledUnconfirmed, SessionMode
  <1>2. /\ HistoryShape' /\ LinearHistory' /\ OneUnsettledOperation'
        /\ IsLatest(hist', draft[p].op, draft[p])
        /\ \A o \in Op : Unsettled(o)' => o = draft[p].op
    BY <1>1, InstallDraft
  <1>3. draft[p] \in Record /\ child[p] = {} /\ lock = {p}
    BY <1>1 DEF JournalInv, DraftExtends, SessionShape, LockHeld
  <1>4. \A q \in Proc : q # p => mode[q] \notin SessionMode \cup {"mutating"}
    BY <1>1, OneLockHolder
  <1>5. /\ child' = child
        /\ \A q \in Proc : q # p => /\ mode'[q] = mode[q] /\ rec'[q] = rec[q]
                                    /\ draft'[q] = draft[q]
    BY DEF JournalInv, TypeOK, HistoryInstalled, HistoryInstalledUnconfirmed
  <1>6. TypeOK'
    BY <1>1, <1>3 DEF JournalInv, TypeOK, Mode, SessionMode, Idle, Record,
                      HistoryInstalled, HistoryInstalledUnconfirmed
  <1>7. \/ mode'[p] = "written" /\ draft'[p] = draft[p] /\ lock' = {p}
        \/ mode'[p] = "open" /\ rec'[p] \in Record /\ lock' = {p}
        \/ mode'[p] = Idle /\ rec'[p] = NoRec
    BY <1>3 DEF JournalInv, TypeOK, HistoryInstalled,
                HistoryInstalledUnconfirmed
  <1>8. LockHeld'
    BY <1>4, <1>5, <1>7 DEF LockHeld, Idle, SessionMode
  <1>9. SessionShape'
    BY <1>3, <1>5, <1>7 DEF JournalInv, SessionShape, Idle, ChildMode
  <1>10. DraftExtends'
    BY <1>4, <1>5, <1>7 DEF DraftExtends, Idle, SessionMode
  <1>11. DraftInstalled'
    BY <1>2, <1>3, <1>4, <1>5, <1>7 DEF DraftInstalled, Idle, SessionMode
  <1>12. NothingUnsettled'
    BY <1>4, <1>5, <1>7 DEF NothingUnsettled, Idle, SessionMode
  <1> QED
    BY <1>2, <1>6, <1>8, <1>9, <1>10, <1>11, <1>12 DEF JournalInv

-----------------------------------------------------------------------------

(* A draft that starts a new operation, or follows the record the journal   *)
(* still holds, may be persisted.                                           *)
LEMMA StartPersistKeeps ==
  ASSUME JournalInv, NEW p \in Proc, NEW r \in Record, StartPersist(p, r),
         \/ /\ mode[p] = "preparing" /\ rec[p] = NoRec
            /\ r.op \notin dirs /\ r.seq = 1
         \/ /\ mode[p] = "open" /\ Unchanged(p)
            /\ r.op = rec[p].op /\ r.seq = rec[p].seq + 1 /\ r.prev = rec[p].id
  PROVE  JournalInv'
  <1> USE DEF StartPersist, Goto
  <1>1. mode[p] \in SessionMode
    BY DEF SessionMode
  <1>2. \A q \in Proc : q # p => mode[q] \notin SessionMode \cup {"mutating"}
    BY <1>1, OneLockHolder
  <1>3. lock = {p} /\ child[p] = {}
    BY <1>1 DEF JournalInv, LockHeld, SessionShape
  <1>4. TypeOK'
    BY DEF JournalInv, TypeOK, Mode, SessionMode, Record
  <1>5. /\ hist' = hist /\ dirs \subseteq dirs' /\ r.op \in dirs'
        /\ mode'[p] = "writing" /\ draft'[p] = r /\ rec' = rec
        /\ lock' = lock /\ child' = child
        /\ \A q \in Proc : q # p => mode'[q] = mode[q]
    BY DEF JournalInv, TypeOK
  <1>6. /\ LinearHistory' /\ OneUnsettledOperation'
        /\ \A o : Unsettled(o)' <=> Unsettled(o)
    BY <1>5 DEF JournalInv, LinearHistory, OneUnsettledOperation, Unsettled,
                IsLatest, Histories
  <1>7. HistoryShape'
    BY <1>5 DEF JournalInv, HistoryShape, IsLatest, Histories
  <1>8. LockHeld' /\ SessionShape'
    BY <1>2, <1>3, <1>5 DEF JournalInv, LockHeld, SessionShape, SessionMode,
                            ChildMode, Idle
  <1>9. DraftInstalled' /\ NothingUnsettled'
    BY <1>2, <1>5 DEF DraftInstalled, NothingUnsettled, SessionMode
  <1>10. DraftExtends'
    <2> SUFFICES /\ \A o \in Op : Unsettled(o) => o = r.op
                 /\ rec[p] = NoRec => (\A q \in hist : q.op # r.op) /\ r.seq = 1
                 /\ rec[p] # NoRec => /\ IsLatest(hist, r.op, rec[p])
                                      /\ r.seq = rec[p].seq + 1
                                      /\ r.prev = rec[p].id
      BY <1>2, <1>5, <1>6 DEF DraftExtends, SessionMode, IsLatest
    <2>1. CASE mode[p] = "preparing"
      BY <2>1 DEF JournalInv, NothingUnsettled, HistoryShape
    <2>2. CASE mode[p] = "open"
      <3>1. rec[p] \in Record /\ pointer = rec[p] /\ LoadOK(hist, dirs, pointer)
        BY <2>2 DEF JournalInv, SessionShape, Unchanged
      <3>2. rec[p] # NoRec
        BY <3>1 DEF Record, NoRec
      <3>3. /\ IsLatest(hist, rec[p].op, rec[p])
            /\ \A o \in Op : Unsettled(o) => o = rec[p].op
        BY <3>1, <3>2, LoadedPointer DEF JournalInv
      <3> QED
        BY <2>2, <3>2, <3>3
    <2> QED
      BY <2>1, <2>2
  <1> QED
    BY <1>4, <1>6, <1>7, <1>8, <1>9, <1>10 DEF JournalInv

(* Every operation of an open Session persists a successor of its record.   *)
LEMMA SuccessorType ==
  ASSUME JournalInv, NEW p \in Proc, rec[p] \in Record
  PROVE  /\ Successor(p) \in Record
         /\ Successor(p).op = rec[p].op
         /\ Successor(p).seq = rec[p].seq + 1
         /\ Successor(p).prev = rec[p].id
         /\ Successor(p).pending = rec[p].pending
  <1> DEFINE r == rec[p]
  <1>1. signed + 1 \in Nat \ {0} /\ r.seq + 1 \in Nat \ {0} /\ r.id \in Nat
    BY DEF JournalInv, TypeOK, Record
  <1>2. r \in Record
    OBVIOUS
  <1>3. Successor(p) = [r EXCEPT !.seq = r.seq + 1, !.id = signed + 1,
                                 !.prev = r.id]
    BY DEF Successor
  <1> HIDE DEF r
  <1>4. Successor(p) \in Record
    BY <1>1, <1>2, <1>3 DEF Record
  <1>5. /\ Successor(p).op = r.op /\ Successor(p).seq = r.seq + 1
        /\ Successor(p).prev = r.id /\ Successor(p).pending = r.pending
    BY <1>2, <1>3 DEF Record
  <1> QED
    BY <1>4, <1>5 DEF r

(* Every write of a session keeps the invariant.                             *)
LEMMA SessionWritesKeep ==
  ASSUME JournalInv, NEW p \in Proc,
         \/ \E o \in Op : BeginPrepared(p, o)
         \/ \E next \in Phase : Transition(p, next) \/ BeginForwardJoin(p, next)
         \/ RecordRestoreControls(p)
         \/ \E n \in 1..MaxGroups : RecordRestoreAppGroups(p, n)
         \/ \E s \in {Succeeded, Recovered} : Complete(p, s)
         \/ AcknowledgeRestoreAppGroupClose(p)
  PROVE  JournalInv'
  <1>1. ASSUME mode[p] = "open" PROVE rec[p] \in Record
    BY <1>1 DEF JournalInv, SessionShape
  <1>2. ASSUME NEW o \in Op, BeginPrepared(p, o) PROVE JournalInv'
    <2> DEFINE r == [op |-> o, seq |-> 1, phase |-> "prepared",
                     status |-> Active, pending |-> 0,
                     id |-> signed + 1, prev |-> 0]
    <2>1. r \in Record
      BY PreparedIsPhase DEF JournalInv, TypeOK, Record, Status
    <2>2. rec[p] = NoRec
      BY <1>2 DEF BeginPrepared, JournalInv, SessionShape
    <2> QED
      BY <1>2, <2>1, <2>2, StartPersistKeeps DEF BeginPrepared
  <1>3. ASSUME NEW next \in Phase, Transition(p, next) \/ BeginForwardJoin(p, next)
        PROVE  JournalInv'
    <2> DEFINE r == [Successor(p) EXCEPT !.phase = next]
    <2>1. mode[p] = "open" /\ Unchanged(p) /\ StartPersist(p, r)
      BY <1>3 DEF Transition, BeginForwardJoin, InActiveSession
    <2>2. /\ r \in Record /\ r.op = rec[p].op
          /\ r.seq = rec[p].seq + 1 /\ r.prev = rec[p].id
      BY <1>1, <2>1, SuccessorType DEF Record
    <2> HIDE DEF r
    <2> QED
      BY <2>1, <2>2, StartPersistKeeps
  <1>4. CASE RecordRestoreControls(p)
    <2>1. mode[p] = "open" /\ Unchanged(p) /\ StartPersist(p, Successor(p))
      BY <1>4 DEF RecordRestoreControls, InActiveSession
    <2> QED
      BY <1>1, <2>1, SuccessorType, StartPersistKeeps
  <1>5. ASSUME NEW n \in 1..MaxGroups, RecordRestoreAppGroups(p, n)
        PROVE  JournalInv'
    <2> DEFINE r == [Successor(p) EXCEPT !.pending = n]
    <2>1. mode[p] = "open" /\ Unchanged(p) /\ StartPersist(p, r)
      BY <1>5 DEF RecordRestoreAppGroups, InActiveSession
    <2>2. /\ r \in Record /\ r.op = rec[p].op
          /\ r.seq = rec[p].seq + 1 /\ r.prev = rec[p].id
      BY <1>1, <2>1, SuccessorType, JournalAssumption DEF Record
    <2> HIDE DEF r
    <2> QED
      BY <2>1, <2>2, StartPersistKeeps
  <1>6. ASSUME NEW s \in {Succeeded, Recovered}, Complete(p, s)
        PROVE  JournalInv'
    <2> DEFINE r == [Successor(p) EXCEPT !.status = s]
    <2>1. mode[p] = "open" /\ Unchanged(p) /\ StartPersist(p, r)
      BY <1>6 DEF Complete, InActiveSession
    <2>2. /\ r \in Record /\ r.op = rec[p].op
          /\ r.seq = rec[p].seq + 1 /\ r.prev = rec[p].id
      BY <1>1, <2>1, SuccessorType DEF Record, Status
    <2> HIDE DEF r
    <2> QED
      BY <2>1, <2>2, StartPersistKeeps
  <1>7. CASE AcknowledgeRestoreAppGroupClose(p)
    <2> DEFINE r == [Successor(p) EXCEPT !.pending = @ - 1]
    <2>1. /\ mode[p] = "open" /\ Unchanged(p) /\ StartPersist(p, r)
          /\ rec[p].pending > 0
      BY <1>7 DEF AcknowledgeRestoreAppGroupClose
    <2>2. rec[p].pending \in Nat
      BY <1>1, <2>1 DEF Record
    <2>3. /\ r \in Record /\ r.op = rec[p].op
          /\ r.seq = rec[p].seq + 1 /\ r.prev = rec[p].id
      BY <1>1, <2>1, <2>2, SuccessorType DEF Record
    <2> HIDE DEF r
    <2> QED
      BY <2>1, <2>3, StartPersistKeeps
  <1> QED
    BY <1>2, <1>3, <1>4, <1>5, <1>6, <1>7

-----------------------------------------------------------------------------

(* Joined children change neither the journal lock nor any history.         *)
LEMMA ChildStepsKeep ==
  ASSUME JournalInv, NEW p \in Proc,
         (\E c \in Proc : SpawnChild(p, c)) \/ ChildStep(p)
  PROVE  JournalInv'
  <1> USE DEF durable, Goto
  <1>1. ASSUME NEW c \in Proc, SpawnChild(p, c) PROVE JournalInv'
    <2> USE <1>1 DEF SpawnChild
    <2>1. mode[p] = "joining" /\ rec[p] \in Record /\ lock = {p} /\ p # c
      BY DEF JournalInv, SessionShape, LockHeld, SessionMode, Idle
    <2>2. /\ HistoryShape' /\ LinearHistory' /\ OneUnsettledOperation'
          /\ \A o : Unsettled(o)' <=> Unsettled(o)
      BY HistoryFrame
    <2>3. TypeOK'
      BY <2>1 DEF JournalInv, TypeOK, Mode, SessionMode, ChildMode
    <2>4. /\ mode'[p] = "waiting" /\ mode'[c] = "spawned"
          /\ rec'[p] = rec[p] /\ child'[p] = {c} /\ draft' = draft
          /\ \A q \in Proc \ {p, c} : /\ mode'[q] = mode[q] /\ rec'[q] = rec[q]
          /\ \A q \in Proc \ {p} : child'[q] = child[q]
      BY <2>1 DEF JournalInv, TypeOK
    <2>5. \A q \in Proc \ {p} : mode[q] \notin SessionMode \cup {"mutating"}
      BY <2>1, OneLockHolder DEF SessionMode
    <2>6. LockHeld'
      BY <2>1, <2>4, <2>5 DEF LockHeld, SessionMode
    <2>7. SessionShape'
      <3>1. rec'[c] = rec[p] /\ child[c] = {}
        BY <2>1 DEF JournalInv, TypeOK, SessionShape, Idle
      <3>2. ASSUME NEW q \in Proc \ {p, c}
            PROVE  /\ mode'[q] = mode[q] /\ rec'[q] = rec[q]
                   /\ child'[q] = child[q]
        BY <2>4
      <3> HIDE <1>1 DEF SpawnChild
      <3> DEFINE Shape(q) ==
            /\ mode'[q] \in {"open", "admitting", "joining", "waiting"} \cup ChildMode
                  => rec'[q] \in Record
            /\ mode'[q] \in {Idle, "preparing"} => rec'[q] = NoRec
            /\ child'[q] # {} => mode'[q] = "waiting"
            /\ \A x, y \in child'[q] : x = y
      <3>3. Shape(p)
        BY <2>1, <2>4 DEF Idle
      <3>4. Shape(c)
        BY <2>1, <2>4, <3>1 DEF Idle
      <3>5. ASSUME NEW q \in Proc \ {p, c} PROVE Shape(q)
        BY <3>2, <3>5 DEF JournalInv, SessionShape
      <3> QED
        BY <3>3, <3>4, <3>5 DEF SessionShape
    <2>8. \A q \in Proc : mode'[q] \notin {"writing", "written", "mutating",
                                           "preparing"}
      <3> HIDE <1>1 DEF SpawnChild
      <3>1. ASSUME NEW q \in Proc \ {p, c}
            PROVE  mode'[q] = mode[q] /\ mode[q] \notin SessionMode \cup {"mutating"}
        BY <2>4, <2>5
      <3> QED
        BY <2>4, <3>1 DEF SessionMode
    <2>9. DraftExtends' /\ DraftInstalled' /\ NothingUnsettled'
      BY <2>8 DEF DraftExtends, DraftInstalled, NothingUnsettled
    <2> QED
      BY <2>2, <2>3, <2>6, <2>7, <2>9 DEF JournalInv
  <1>2. CASE ChildStep(p)
    <2> USE <1>2 DEF ChildStep, inspectJoin, claimJoinLock, claimJoin
    <2>1. mode[p] \in ChildMode /\ mode'[p] \in ChildMode
      BY DEF JournalInv, TypeOK, ChildMode
    <2>2. /\ hist' = hist /\ dirs' = dirs /\ lock' = lock /\ rec' = rec
          /\ draft' = draft /\ child' = child
          /\ \A q \in Proc \ {p} : mode'[q] = mode[q]
      BY DEF JournalInv, TypeOK
    <2>3. /\ HistoryShape' /\ LinearHistory' /\ OneUnsettledOperation'
          /\ \A o : Unsettled(o)' <=> Unsettled(o)
          /\ \A o, r : IsLatest(hist, o, r)' <=> IsLatest(hist, o, r)
      BY <2>2, HistoryFrame
    <2>4. TypeOK'
      <3>1. rec[p] \in Record
        BY <2>1 DEF JournalInv, SessionShape
      <3>2. [id |-> rec[p].id, custody |-> "lifetime-lock"] \in [id : Nat, custody : Custody]
        BY <3>1 DEF Record, Custody
      <3>3. [id |-> rec[p].id, custody |-> ""] \in [id : Nat, custody : Custody]
        BY <3>1 DEF Record, Custody
      <3>4. mode' \in [Proc -> Mode]
        BY DEF JournalInv, TypeOK, Mode, ChildMode
      <3>5. claims' \subseteq [id : Nat, custody : Custody]
        <4>1. \/ claims' = claims
              \/ claims' = claims \cup {[id |-> rec[p].id, custody |-> ""]}
              \/ claims' = claims \cup {[id |-> rec[p].id, custody |-> "lifetime-lock"]}
          OBVIOUS
        <4> HIDE <1>2 DEF ChildStep, inspectJoin, claimJoinLock, claimJoin
        <4> QED
          BY <3>2, <3>3, <4>1 DEF JournalInv, TypeOK
      <3>6. claimLock' \in [Op -> SUBSET Proc]
        <4>1. \/ claimLock' = claimLock
              \/ claimLock' = [claimLock EXCEPT ![rec[p].op] = {p}]
              \/ claimLock' = [claimLock EXCEPT ![rec[p].op] = {}]
          OBVIOUS
        <4> HIDE <1>2 DEF ChildStep, inspectJoin, claimJoinLock, claimJoin
        <4> QED
          BY <4>1 DEF JournalInv, TypeOK
      <3>7. pointer' = pointer /\ signed' = signed
        OBVIOUS
      <3> QED
        BY <2>2, <3>4, <3>5, <3>6, <3>7 DEF JournalInv, TypeOK
    <2>5. LockHeld' /\ SessionShape'
      <3>1. mode'[p] \notin SessionMode \cup {"mutating", Idle}
        BY <2>1 DEF SessionMode, ChildMode, Idle
      <3>2. LockHeld'
        BY <2>2, <3>1 DEF JournalInv, LockHeld
      <3>3. mode[p] \notin SessionMode
        BY <2>1 DEF SessionMode, ChildMode
      <3>4. child[p] = {} /\ rec[p] \in Record
        BY <2>1, <3>3 DEF JournalInv, SessionShape, SessionMode
      <3>5. SessionShape'
        <4> HIDE <1>2 DEF ChildStep, inspectJoin, claimJoinLock, claimJoin
        <4>1. rec'[p] \in Record /\ child'[p] = {} /\ mode'[p] \notin {Idle, "preparing"}
          BY <2>2, <3>1, <3>4 DEF SessionMode
        <4>2. ASSUME NEW q \in Proc \ {p}
              PROVE  mode'[q] = mode[q] /\ rec'[q] = rec[q] /\ child'[q] = child[q]
          BY <2>2
        <4> QED
          BY <4>1, <4>2 DEF JournalInv, SessionShape
      <3> QED
        BY <3>2, <3>5
    <2>6. DraftExtends' /\ DraftInstalled' /\ NothingUnsettled'
      BY <2>1, <2>2, <2>3 DEF JournalInv, DraftExtends, DraftInstalled,
                              NothingUnsettled, ChildMode, IsLatest
    <2> QED
      BY <2>3, <2>4, <2>5, <2>6 DEF JournalInv
  <1> QED
    BY <1>1, <1>2

-----------------------------------------------------------------------------

(* A fresh workspace satisfies the invariant.                               *)
LEMMA JournalInvInit == Init => JournalInv
  <1> SUFFICES ASSUME Init PROVE JournalInv
    OBVIOUS
  <1> USE DEF Init
  <1>1. TypeOK
    BY DEF TypeOK, Mode, Idle
  <1>2. LockHeld /\ SessionShape
    BY DEF LockHeld, SessionShape, SessionMode, ChildMode, Idle
  <1>3. HistoryShape /\ LinearHistory
    BY DEF HistoryShape, LinearHistory
  <1>4. OneUnsettledOperation /\ NothingUnsettled
    BY DEF OneUnsettledOperation, NothingUnsettled, Unsettled, Idle
  <1>5. DraftExtends /\ DraftInstalled
    BY DEF DraftExtends, DraftInstalled, Idle
  <1> QED
    BY <1>1, <1>2, <1>3, <1>4, <1>5 DEF JournalInv

(* Every step of the journal keeps the invariant.                           *)
LEMMA JournalInvNext == JournalInv /\ [Next]_vars => JournalInv'
  <1> SUFFICES ASSUME JournalInv, [Next]_vars PROVE JournalInv'
    OBVIOUS
  <1>1. CASE UNCHANGED vars
    BY <1>1 DEF vars, JournalInv, TypeOK, LockHeld, SessionShape, HistoryShape,
                LinearHistory, OneUnsettledOperation, DraftExtends,
                DraftInstalled, NothingUnsettled, Unsettled, IsLatest,
                Histories
  <1>2. ASSUME NEW p \in Proc,
               WithIdleMutation(p) \/ Stop(p) \/ PersistStep(p)
                 \/ SessionStep(p) \/ ChildStep(p)
        PROVE  JournalInv'
    <2>1. CASE WithIdleMutation(p) \/ Begin(p)
      BY <2>1, AdmissionKeeps
    <2>2. CASE Stop(p)
      BY <2>2, StopKeeps
    <2>3. CASE PersistStep(p)
      BY <2>3, HistoryKeeps, PointerKeeps, PersistFailsKeeps DEF PersistStep
    <2>4. CASE SessionStep(p)
      BY <2>4, AdmissionKeeps, RecoveryKeeps, SessionWritesKeep, ChildStepsKeep
         DEF SessionStep
    <2>5. CASE ChildStep(p)
      BY <2>5, ChildStepsKeep
    <2> QED
      BY <1>2, <2>1, <2>2, <2>3, <2>4, <2>5
  <1> QED
    BY <1>1, <1>2 DEF Next

(* JournalInv is an inductive invariant: the holder of the journal lock is   *)
(* the only writer, and what it writes extends the newest signed record.     *)
THEOREM JournalInvariant == Spec => []JournalInv
  BY JournalInvInit, JournalInvNext, PTL DEF Spec

(* Every variable of the journal keeps its type, for any number of processes *)
(* and operations.                                                           *)
THEOREM TypeCorrect == Spec => []TypeOK
  BY JournalInvariant, PTL DEF JournalInv

(* persistRecord never forks a history: whatever crashes, lost pointer       *)
(* writes and repairs happen, every operation's records form one chain.      *)
THEOREM HistoryStaysLinear == Spec => []LinearHistory
  BY JournalInvariant, PTL DEF JournalInv

(* Begin never admits a second operation while one is unsettled, even when   *)
(* the pointer to the first one was lost.                                    *)
THEOREM AtMostOneUnsettled == Spec => []OneUnsettledOperation
  BY JournalInvariant, PTL DEF JournalInv

=============================================================================
