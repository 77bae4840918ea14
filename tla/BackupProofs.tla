---------------------------- MODULE BackupProofs ----------------------------
(***************************************************************************)
(* The snapshots of containers and of a native application group, for any  *)
(* containers and stop order, any number of effects and any number of      *)
(* failing calls, lost writes and crashes.                                 *)
(***************************************************************************)
EXTENDS MCBackup, WellFoundedInduction, FiniteSetTheorems, TLAPS

-----------------------------------------------------------------------------
(* Containers: the inductive invariant.                                    *)

RunType == [step : Step, mode : Mode, journal : Journal, resume : BOOLEAN,
            settled : BOOLEAN, attempted : BOOLEAN, failed : BOOLEAN]

OpType == [state : {"absent", "pending", "completed", "transferred"},
           mode : OperationMode, journal : Journal]

WorldTypeOK ==
    /\ op \in OpType
    /\ running \subseteq Writer /\ stopping \subseteq running
    /\ kopia \in {"idle", "capturing"} /\ stored \in BOOLEAN
    /\ receipt \in BOOLEAN /\ destination \in {"none", "activated", "stopped"}
    /\ faults \in 0..MaxFaults /\ unrecorded \in BOOLEAN

\* A held source has its snapshot, a container that runs is a recorded one, and
\* a snapshot is of a recorded operation.
RecordShape ==
    /\ op.journal.hold => op.journal.phase \in {"snapshot-created", "transfer-retired"}
    /\ op.journal.phase # "" => running \subseteq op.journal.set
    /\ stored => op.journal.phase # ""

\* A helper works over a "stopped" record while nothing runs.
HelperAlone ==
    kopia = "capturing" => running = {} /\ op.journal.phase = "stopped"

\* The record knows of a stop under way, which is the first of the running ones.
StopsKnown ==
    ~unrecorded =>
        /\ stopping # {} => op.journal.phase = "prepared"
        /\ \A w \in stopping, v \in op.journal.set \cap running :
              StopRank[w] <= StopRank[v]

\* What holds of the record and the containers, whoever works on them.
WorldInv ==
    /\ WorldTypeOK
    /\ RecordShape
    /\ HelperAlone
    /\ StopsKnown
    /\ PowerFollowsGraph

\* The process works on the containers of the record, forgets a recorded hold,
\* and a fresh one sees the phase that is recorded.
ProcessFollows ==
    /\ At("idle") => run = Idle
    /\ ~At("idle") => /\ run.journal.set = op.journal.set
                      /\ run.journal.phase = "" <=> op.journal.phase = ""
                      /\ ~run.journal.hold
    /\ At("enter") => /\ run.journal.phase = op.journal.phase
                      /\ run.resume = needsSettlement(op.journal.phase)
                      /\ ~run.settled

\* The phase the process has assigned by the time of a step.
PhaseByNow ==
    /\ At("prepare") => run.journal.phase = ""
    /\ At("reprepare") => run.journal.phase # "prepared"
    /\ run.step \in {"stop", "verify"} => run.journal.phase = "prepared"
    /\ At("create") => op.journal.phase = "stopped"
    /\ run.step \in {"create", "finalize"} => run.journal.phase = "stopped"
    /\ run.step \in {"export", "hold"} => run.journal.phase = "snapshot-created"
    /\ run.step \in {"reprepare", "cleanup", "resettle", "restop", "start",
                      "restore"} => run.journal.phase # ""

\* No process passes a working helper by: its next step settles the helper.
HelperSettled ==
    kopia = "capturing" =>
        /\ run.step \in {"idle", "enter", "settle", "finalize", "cleanup", "resettle"}
        /\ At("cleanup") => SettlementDue

\* What is stopped by the time of a step.
StoppedByNow == run.step \in {"verify", "create"} => running = {}

\* No process starts a container while a stop may land.
StartsAlone ==
    ~unrecorded =>
        /\ ~At("idle") /\ run.journal.phase # "prepared" => stopping = {}
        /\ run.step \in {"start", "restore", "complete"} => stopping = {}
        /\ At("restore") => op.journal.set \subseteq running

\* What holds of the process.
RunInv ==
    /\ run \in RunType
    /\ ProcessFollows
    /\ PhaseByNow
    /\ HelperSettled
    /\ StoppedByNow
    /\ StartsAlone

QuiescenceInv == WorldInv /\ RunInv

-----------------------------------------------------------------------------
(* The order of the graph.                                                 *)

(* A set of naturals has a least element.                                    *)
LEMMA LeastNat ==
  ASSUME NEW T, T \subseteq Nat, T # {}
  PROVE  \E c \in T : \A d \in T : c <= d
  <1>1. PICK c \in T : \A d \in T : ~(<<d, c>> \in OpToRel(<, Nat))
    BY WFMin, NatLessThanWellFounded
  <1>2. \A d \in T : ~(d < c)
    BY <1>1 DEF OpToRel
  <1> QED
    BY <1>2

(* quiescenceStopOrder has a first container.                                *)
LEMMA FirstToStopIs ==
  ASSUME NEW W \in SUBSET Writer, W # {}
  PROVE  /\ FirstToStop(W) \in W
         /\ \A v \in W : StopRank[FirstToStop(W)] <= StopRank[v]
  <1>1. StopRank \in [Writer -> Nat]
    BY QuiescenceAssumption
  <1> DEFINE T == {StopRank[w] : w \in W}
  <1>2. T \in SUBSET Nat /\ T # {}
    BY <1>1
  <1>3. \E c \in T : \A d \in T : c <= d
    <2> HIDE DEF T
    <2> QED
      BY <1>2, LeastNat
  <1>4. PICK c \in T : \A d \in T : c <= d
    BY <1>3
  <1>5. \E w \in W : \A v \in W : StopRank[w] <= StopRank[v]
    BY <1>4
  <1> QED
    BY <1>5 DEF FirstToStop

(* quiescenceRestoreOrder has a first container, for there are finitely many, *)
(* and it is the last of the stop order when there is a graph.               *)
LEMMA FirstToStartIs ==
  ASSUME NEW W \in SUBSET Writer, W # {}
  PROVE  /\ FirstToStart(W) \in W
         /\ HasGraph => \A v \in W : StopRank[FirstToStart(W)] >= StopRank[v]
  <1>1. StopRank \in [Writer -> Nat] /\ IsFiniteSet(Writer)
    BY QuiescenceAssumption
  <1> DEFINE Above(w) == {v \in W : StopRank[v] > StopRank[w]}
             T == {Cardinality(Above(w)) : w \in W}
  <1>2. IsFiniteSet(W)
    BY <1>1, FS_Subset
  <1>3. \A w \in W : IsFiniteSet(Above(w)) /\ Cardinality(Above(w)) \in Nat
    <2> SUFFICES ASSUME NEW w \in W
                 PROVE  IsFiniteSet(Above(w)) /\ Cardinality(Above(w)) \in Nat
      OBVIOUS
    <2>1. Above(w) \in SUBSET W
      OBVIOUS
    <2>2. IsFiniteSet(Above(w))
      BY <1>2, <2>1, FS_Subset
    <2> QED
      BY <2>2, FS_CardinalityType
  <1>4. T \in SUBSET Nat /\ T # {}
    BY <1>3
  <1>5. \E c \in T : \A d \in T : c <= d
    <2> HIDE DEF T
    <2> QED
      BY <1>4, LeastNat
  <1>6. PICK c \in T : \A d \in T : c <= d
    BY <1>5
  <1>7. PICK w \in W : c = Cardinality(Above(w))
    OBVIOUS
  <1>8. \A v \in W : ~(StopRank[v] > StopRank[w])
    <2> SUFFICES ASSUME NEW v \in W, StopRank[v] > StopRank[w]
                 PROVE  FALSE
      OBVIOUS
    <2>1. Above(v) \in SUBSET Above(w) /\ v \in Above(w) /\ v \notin Above(v)
      BY <1>1
    <2>2. /\ Cardinality(Above(v)) <= Cardinality(Above(w))
          /\ Cardinality(Above(w)) = Cardinality(Above(v)) => Above(w) = Above(v)
      BY <1>3, <2>1, FS_Subset
    <2>3. Cardinality(Above(w)) # Cardinality(Above(v))
      BY <2>1, <2>2
    <2>4. Cardinality(Above(w)) <= Cardinality(Above(v))
      BY <1>6, <1>7
    <2>5. Cardinality(Above(w)) \in Nat /\ Cardinality(Above(v)) \in Nat
      BY <1>3
    <2> HIDE DEF Above, T
    <2> QED
      BY <2>2, <2>3, <2>4, <2>5
  <1>9. \E u \in W : \A v \in W : StopRank[u] >= StopRank[v]
    BY <1>1, <1>8
  <1>10. CASE HasGraph
    BY <1>9, <1>10 DEF FirstToStart
  <1>11. CASE ~HasGraph
    BY <1>11, FirstToStopIs DEF FirstToStart
  <1> QED
    BY <1>10, <1>11

-----------------------------------------------------------------------------
(* Containers: every step keeps the invariant.                             *)

(* The history only grows, and keeps every stop the record does not know.    *)
LEMMA RememberIs ==
  ASSUME Remember, unrecorded \in BOOLEAN
  PROVE  /\ unrecorded' \in BOOLEAN
         /\ ~unrecorded' => ~unrecorded /\ ~UnrecordedStop'
  BY DEF Remember

(* The fault count stays within its bound.                                   *)
LEMMA FaultsBounded ==
  ASSUME faults \in 0..MaxFaults, Fault \/ NoFault
  PROVE  faults' \in 0..MaxFaults
  BY QuiescenceAssumption DEF Fault, NoFault

(* A process that has ended satisfies its part.                              *)
LEMMA IdleRun ==
  ASSUME WorldInv', run' = Idle
  PROVE  RunInv'
  <1>1. run' \in RunType
    BY DEF RunType, Idle, FreshJournal, Journal, Phase, Step, Mode, OperationMode
  <1> QED
    BY <1>1 DEF RunInv, ProcessFollows, PhaseByNow, HelperSettled, StoppedByNow,
                StartsAlone, At, Idle

(* A step that changes the process alone keeps the rest.                     *)
LEMMA WorldStays ==
  ASSUME WorldInv, UNCHANGED <<op, world, transfer>>, Fault \/ NoFault, Remember
  PROVE  WorldInv'
  <1>1. /\ unrecorded' \in BOOLEAN
        /\ ~unrecorded' => ~unrecorded
    BY RememberIs DEF WorldInv, WorldTypeOK
  <1>2. faults' \in 0..MaxFaults
    BY FaultsBounded DEF WorldInv, WorldTypeOK
  <1> QED
    BY <1>1, <1>2 DEF WorldInv, WorldTypeOK, RecordShape, HelperAlone, StopsKnown,
                      PowerFollowsGraph, HasGraph, world, transfer

(* The fields of a process that moves on.                                    *)
LEMMA StepTo ==
  ASSUME run \in RunType, NEW s \in Step, run' = [run EXCEPT !.step = s]
  PROVE  /\ run' \in RunType
         /\ run'.step = s /\ run'.journal = run.journal
         /\ run'.resume = run.resume /\ run'.settled = run.settled
         /\ run'.attempted = run.attempted /\ run'.failed = run.failed
  BY DEF RunType

(* The cleanup of a failed process.                                          *)
LEMMA FailsWith ==
  ASSUME run \in RunType, NEW j \in Journal, FailWith(j)
  PROVE  \/ run' = Idle
         \/ /\ run' \in RunType /\ j.phase # "" /\ ~j.hold
            /\ run'.step = "cleanup" /\ run'.journal = j /\ run'.failed
            /\ run'.resume = run.resume /\ run'.settled = run.settled
            /\ run'.attempted = run.attempted
  BY DEF FailWith, RunType, Step

(* A process that fails is at its cleanup or has ended.                      *)
LEMMA FailRun ==
  ASSUME run \in RunType, WorldInv', NEW j \in Journal, FailWith(j),
         j.set = op'.journal.set,
         j.phase # "" => op'.journal.phase # "",
         kopia' = "capturing" => \/ run.resume /\ ~run.settled
                                 \/ run.attempted /\ ~run.settled,
         ~unrecorded' /\ j.phase # "prepared" => stopping' = {}
  PROVE  RunInv'
  <1>1. CASE run' = Idle
    BY <1>1, IdleRun
  <1>2. CASE run' # Idle
    <2>1. /\ run' \in RunType /\ j.phase # "" /\ ~j.hold
          /\ run'.step = "cleanup" /\ run'.journal = j /\ run'.failed
          /\ run'.resume = run.resume /\ run'.settled = run.settled
          /\ run'.attempted = run.attempted
      BY <1>2, FailsWith
    <2>2. kopia' = "capturing" => SettlementDue'
      BY <2>1 DEF SettlementDue
    <2> QED
      BY <2>1, <2>2 DEF RunInv, ProcessFollows, PhaseByNow, HelperSettled,
                        StoppedByNow, StartsAlone, At
  <1> QED
    BY <1>1, <1>2

(* Readiness and custody checks.                                             *)
LEMMA EnterKeeps ==
  ASSUME QuiescenceInv, Enter, Remember
  PROVE  QuiescenceInv'
  <1>1. WorldInv'
    BY WorldStays DEF QuiescenceInv, Enter
  <1>2. /\ run \in RunType /\ run.journal \in Journal /\ ~run.journal.hold
        /\ run.journal.set = op.journal.set
        /\ run.journal.phase = op.journal.phase
        /\ run.resume = needsSettlement(op.journal.phase) /\ ~run.settled
        /\ UNCHANGED <<op, running, stopping, kopia>>
    BY DEF QuiescenceInv, RunInv, ProcessFollows, Enter, At, RunType, world
  <1>3. ~unrecorded' /\ run.journal.phase # "prepared" => stopping' = {}
    BY <1>1, <1>2 DEF WorldInv, StopsKnown
  <1>4. kopia' = "capturing" => needsSettlement(op.journal.phase)
    BY <1>2 DEF QuiescenceInv, WorldInv, HelperAlone, needsSettlement
  <1>5. CASE Fail
    BY <1>1, <1>2, <1>3, <1>4, <1>5, FailRun DEF Fail, QuiescenceInv
  <1>6. CASE Go(IF needsSettlement(run.journal.phase) THEN "settle" ELSE "lookup")
    <2>1. CASE needsSettlement(run.journal.phase)
      <3>1. /\ run' \in RunType /\ run'.step = "settle"
            /\ run'.journal = run.journal
        BY <1>2, <1>6, <2>1, StepTo DEF Go, Step
      <3>2. RunInv'
        BY <1>2, <1>3, <3>1 DEF QuiescenceInv, RunInv, ProcessFollows, PhaseByNow,
           HelperSettled, StoppedByNow, StartsAlone, At
      <3> QED
        BY <1>1, <3>2 DEF QuiescenceInv
    <2>2. CASE ~needsSettlement(run.journal.phase)
      <3>1. /\ run' \in RunType /\ run'.step = "lookup"
            /\ run'.journal = run.journal
        BY <1>2, <1>6, <2>2, StepTo DEF Go, Step
      <3>2. RunInv'
        BY <1>2, <1>3, <1>4, <2>2, <3>1 DEF QuiescenceInv, RunInv, ProcessFollows,
           PhaseByNow, HelperSettled, StoppedByNow, StartsAlone, At
      <3> QED
        BY <1>1, <3>2 DEF QuiescenceInv
    <2> QED
      BY <2>1, <2>2
  <1> QED
    BY <1>5, <1>6 DEF Enter

(* A failed attempt to find the snapshot, or the branch on what was found.   *)
LEMMA LookupKeeps ==
  ASSUME QuiescenceInv, Lookup, Remember
  PROVE  QuiescenceInv'
  <1>1. WorldInv'
    BY WorldStays DEF QuiescenceInv, Lookup
  <1>2. /\ run \in RunType /\ run.journal \in Journal /\ ~run.journal.hold
        /\ run.journal.set = op.journal.set
        /\ run.journal.phase = "" <=> op.journal.phase = ""
        /\ UNCHANGED <<op, running, stopping, kopia, stored>>
    BY DEF QuiescenceInv, RunInv, ProcessFollows, Lookup, At, RunType, world
  <1>3. kopia' # "capturing"
    BY <1>2 DEF QuiescenceInv, RunInv, HelperSettled, Lookup, At
  <1>4. ~unrecorded' => ~unrecorded
    BY RememberIs DEF QuiescenceInv, WorldInv, WorldTypeOK
  <1>5. ~unrecorded' /\ run.journal.phase # "prepared" => stopping' = {}
    BY <1>2, <1>4 DEF QuiescenceInv, RunInv, StartsAlone, Lookup, At
  <1>6. CASE Fail
    BY <1>1, <1>2, <1>3, <1>5, <1>6, FailRun DEF Fail, QuiescenceInv
  <1>7. CASE Go(AfterLookup)
    <2>1. stored => run.journal.phase # ""
      BY <1>2 DEF QuiescenceInv, WorldInv, RecordShape
    <2>2. /\ AfterLookup \in {"cleanup", "prepare", "stop", "reprepare"}
          /\ AfterLookup = "cleanup" => run.journal.phase # ""
          /\ AfterLookup = "prepare" => run.journal.phase = ""
          /\ AfterLookup = "stop" => run.journal.phase = "prepared"
          /\ AfterLookup = "reprepare" => run.journal.phase \notin {"", "prepared"}
      <3>1. CASE stored
        BY <2>1, <3>1 DEF AfterLookup
      <3>2. CASE ~stored
        BY <3>2 DEF AfterLookup
      <3> QED
        BY <3>1, <3>2
    <2>3. /\ run' \in RunType /\ run'.step = AfterLookup
          /\ run'.journal = run.journal
      BY <1>2, <1>7, <2>2, StepTo DEF Go, Step
    <2>4. RunInv'
      BY <1>2, <1>3, <1>5, <2>2, <2>3 DEF RunInv, ProcessFollows, PhaseByNow,
         HelperSettled, StoppedByNow, StartsAlone, At
    <2> QED
      BY <1>1, <2>4 DEF QuiescenceInv
  <1> QED
    BY <1>6, <1>7 DEF Lookup

(* A helper that is settled or goes on leaves the rest as it is.             *)
LEMMA HelperStays ==
  ASSUME WorldInv, UNCHANGED <<op, running, stopping, stored, transfer>>,
         kopia' \in {"idle", kopia}, Fault \/ NoFault, Remember
  PROVE  WorldInv'
  <1>1. /\ unrecorded' \in BOOLEAN
        /\ ~unrecorded' => ~unrecorded
    BY RememberIs DEF WorldInv, WorldTypeOK
  <1>2. faults' \in 0..MaxFaults
    BY FaultsBounded DEF WorldInv, WorldTypeOK
  <1> QED
    BY <1>1, <1>2 DEF WorldInv, WorldTypeOK, RecordShape, HelperAlone, StopsKnown,
                      PowerFollowsGraph, HasGraph, transfer

(* A command enters the operation.                                           *)
LEMMA RunKeeps ==
  ASSUME QuiescenceInv, NEW m \in Mode, Run(m), Remember
  PROVE  QuiescenceInv'
  <1>1. op \in OpType /\ unrecorded \in BOOLEAN
    BY DEF QuiescenceInv, WorldInv, WorldTypeOK
  <1>2. op' = [op EXCEPT !.state = "pending"]
    BY DEF Run
  <1>3. op' \in OpType /\ op'.mode = op.mode /\ op'.journal = op.journal
    BY <1>1, <1>2 DEF OpType
  <1>4. UNCHANGED <<running, stopping, kopia, stored, receipt, destination, faults>>
    BY DEF Run, world, transfer
  <1>5. unrecorded' \in BOOLEAN /\ (~unrecorded' => ~unrecorded)
    BY <1>1, RememberIs
  <1>6. WorldInv'
    BY <1>3, <1>4, <1>5 DEF QuiescenceInv, WorldInv, WorldTypeOK, RecordShape,
       HelperAlone, StopsKnown, PowerFollowsGraph, HasGraph
  <1>7. op.journal \in Journal
    BY <1>1 DEF OpType
  <1> DEFINE j == [op.journal EXCEPT !.hold = FALSE]
  <1>8. j \in Journal /\ ~j.hold /\ j.set = op.journal.set /\ j.phase = op.journal.phase
    BY <1>7 DEF Journal
  <1>9. run' = [Idle EXCEPT !.step = "enter", !.mode = m, !.journal = j,
                  !.resume = needsSettlement(op.journal.phase)]
    BY DEF Run
  <1> HIDE DEF j
  <1>10. needsSettlement(op.journal.phase) \in BOOLEAN
    BY DEF needsSettlement
  <1>11. /\ run' \in RunType /\ run'.step = "enter" /\ run'.journal = j
         /\ run'.resume = needsSettlement(op.journal.phase) /\ ~run'.settled
    BY <1>8, <1>9, <1>10 DEF RunType, Idle, FreshJournal, Step
  <1>12. needsSettlement(op'.journal.phase) = needsSettlement(op.journal.phase)
    BY <1>3
  <1>13. RunInv'
    BY <1>3, <1>4, <1>6, <1>8, <1>11, <1>12 DEF WorldInv, StopsKnown, RunInv,
       ProcessFollows, PhaseByNow, HelperSettled, StoppedByNow, StartsAlone, At
  <1> QED
    BY <1>6, <1>13 DEF QuiescenceInv

(* The helper of an earlier attempt is settled, or the command ends.         *)
LEMMA SettleKeeps ==
  ASSUME QuiescenceInv, Settle, Remember
  PROVE  QuiescenceInv'
  <1>1. WorldInv'
    BY HelperStays DEF QuiescenceInv, Settle
  <1>2. CASE run' = Idle
    BY <1>1, <1>2, IdleRun DEF QuiescenceInv
  <1>3. CASE kopia' = "idle" /\ run' = [run EXCEPT !.step = "lookup", !.settled = TRUE]
    <2>1. /\ run \in RunType /\ ~run.journal.hold
          /\ run.journal.set = op.journal.set
          /\ run.journal.phase = "" <=> op.journal.phase = ""
          /\ UNCHANGED <<op, running, stopping>>
      BY DEF QuiescenceInv, RunInv, ProcessFollows, Settle, At
    <2>2. /\ run' \in RunType /\ run'.step = "lookup" /\ run'.journal = run.journal
      BY <1>3, <2>1 DEF RunType, Step
    <2>3. ~unrecorded' => ~unrecorded
      BY RememberIs DEF QuiescenceInv, WorldInv, WorldTypeOK
    <2>4. ~unrecorded' /\ run.journal.phase # "prepared" => stopping' = {}
      BY <2>1, <2>3 DEF QuiescenceInv, RunInv, StartsAlone, Settle, At
    <2>5. RunInv'
      BY <1>3, <2>1, <2>2, <2>4 DEF RunInv, ProcessFollows, PhaseByNow,
         HelperSettled, StoppedByNow, StartsAlone, At
    <2> QED
      BY <1>1, <2>5 DEF QuiescenceInv
  <1> QED
    BY <1>2, <1>3 DEF Settle

(* The deferred cleanup goes on with the settlement, the stops or the starts. *)
LEMMA CleanupGoes ==
  ASSUME QuiescenceInv, WorldInv', run' \in RunType, kopia' = "idle",
         run.step \in {"cleanup", "resettle"},
         run'.step = IF run.journal.phase = "prepared" THEN "restop" ELSE "start",
         run'.journal = run.journal, Remember, UNCHANGED <<op, running, stopping>>
  PROVE  RunInv'
  <1>1. /\ ~run.journal.hold /\ run.journal.phase # ""
        /\ run.journal.set = op.journal.set /\ op.journal.phase # ""
    BY DEF QuiescenceInv, RunInv, ProcessFollows, PhaseByNow, At
  <1>2. ~unrecorded' => ~unrecorded
    BY RememberIs DEF QuiescenceInv, WorldInv, WorldTypeOK
  <1>3. ~unrecorded' /\ run.journal.phase # "prepared" => stopping' = {}
    BY <1>2 DEF QuiescenceInv, RunInv, StartsAlone, At
  <1>4. run'.step \in {"restop", "start"} /\ (run'.step = "start" => run.journal.phase # "prepared")
    OBVIOUS
  <1> QED
    BY <1>1, <1>3, <1>4 DEF RunInv, ProcessFollows, PhaseByNow, HelperSettled,
       StoppedByNow, StartsAlone, At

(* The deferred cleanup begins: a helper that may live is settled first.     *)
LEMMA CleanupKeeps ==
  ASSUME QuiescenceInv, Cleanup, Remember
  PROVE  QuiescenceInv'
  <1>1. WorldInv'
    BY WorldStays DEF QuiescenceInv, Cleanup, NoFault
  <1>2. run \in RunType /\ UNCHANGED <<op, running, stopping, kopia>> /\ run.step = "cleanup"
    BY DEF QuiescenceInv, RunInv, Cleanup, world, At
  <1>3. CASE SettlementDue
    <2>1. /\ run' \in RunType /\ run'.step = "resettle" /\ run'.journal = run.journal
      BY <1>2, <1>3, StepTo DEF Cleanup, Go, Step
    <2>2. /\ ~run.journal.hold /\ run.journal.phase # ""
          /\ run.journal.set = op.journal.set /\ op.journal.phase # ""
      BY <1>2 DEF QuiescenceInv, RunInv, ProcessFollows, PhaseByNow, At
    <2>3. ~unrecorded' => ~unrecorded
      BY RememberIs DEF QuiescenceInv, WorldInv, WorldTypeOK
    <2>4. ~unrecorded' /\ run.journal.phase # "prepared" => stopping' = {}
      BY <1>2, <2>3 DEF QuiescenceInv, RunInv, StartsAlone, At
    <2>5. RunInv'
      BY <1>2, <2>1, <2>2, <2>4 DEF RunInv, ProcessFollows, PhaseByNow,
         HelperSettled, StoppedByNow, StartsAlone, At
    <2> QED
      BY <1>1, <2>5 DEF QuiescenceInv
  <1>4. CASE ~SettlementDue
    <2>1. (IF run.journal.phase = "prepared" THEN "restop" ELSE "start") \in Step
      BY DEF Step
    <2>2. /\ run' \in RunType /\ run'.journal = run.journal
          /\ run'.step = IF run.journal.phase = "prepared" THEN "restop" ELSE "start"
      BY <1>2, <1>4, <2>1, StepTo DEF Cleanup, Go
    <2>3. kopia' = "idle"
      BY <1>2, <1>4 DEF QuiescenceInv, RunInv, HelperSettled, At, WorldInv, WorldTypeOK
    <2> QED
      BY <1>1, <1>2, <2>2, <2>3, CleanupGoes DEF QuiescenceInv
  <1> QED
    BY <1>3, <1>4

(* It settles the helper before any container starts.                        *)
LEMMA ResettleKeeps ==
  ASSUME QuiescenceInv, Resettle, Remember
  PROVE  QuiescenceInv'
  <1>1. WorldInv'
    BY HelperStays DEF QuiescenceInv, Resettle
  <1>2. CASE run' = Idle
    BY <1>1, <1>2, IdleRun DEF QuiescenceInv
  <1>3. CASE run' # Idle
    <2>1. run \in RunType /\ run.step = "resettle" /\ UNCHANGED <<op, running, stopping>>
      BY DEF QuiescenceInv, RunInv, Resettle, At
    <2>2. /\ kopia' = "idle"
          /\ run' = [run EXCEPT !.settled = TRUE,
                       !.step = IF run.journal.phase = "prepared" THEN "restop"
                                ELSE "start"]
      BY <1>3 DEF Resettle
    <2>3. (IF run.journal.phase = "prepared" THEN "restop" ELSE "start") \in Step
      BY DEF Step
    <2>4. /\ run' \in RunType /\ run'.journal = run.journal
          /\ run'.step = IF run.journal.phase = "prepared" THEN "restop" ELSE "start"
      BY <2>1, <2>2, <2>3 DEF RunType
    <2> QED
      BY <1>1, <2>1, <2>2, <2>4, CleanupGoes DEF QuiescenceInv
  <1> QED
    BY <1>2, <1>3

(* The export of the snapshot leaves the containers alone.                   *)
LEMMA ExportKeeps ==
  ASSUME QuiescenceInv, Export, Remember
  PROVE  QuiescenceInv'
  <1>1. WorldInv'
    BY WorldStays DEF QuiescenceInv, Export
  <1>2. /\ run \in RunType /\ run.journal \in Journal /\ ~run.journal.hold
        /\ run.journal.set = op.journal.set
        /\ run.journal.phase = "snapshot-created" /\ op.journal.phase # ""
        /\ UNCHANGED <<op, running, stopping, kopia>>
    BY DEF QuiescenceInv, RunInv, ProcessFollows, PhaseByNow, Export, At, RunType, world
  <1>3. kopia' # "capturing"
    BY <1>2 DEF QuiescenceInv, RunInv, HelperSettled, Export, At
  <1>4. ~unrecorded' => ~unrecorded
    BY RememberIs DEF QuiescenceInv, WorldInv, WorldTypeOK
  <1>5. ~unrecorded' => stopping' = {}
    BY <1>2, <1>4 DEF QuiescenceInv, RunInv, StartsAlone, Export, At
  <1>6. CASE Fail
    BY <1>1, <1>2, <1>3, <1>5, <1>6, FailRun DEF Fail, QuiescenceInv
  <1>7. CASE \E s \in {"hold", "cleanup"} : Go(s)
    <2>1. PICK s \in {"hold", "cleanup"} : Go(s)
      BY <1>7
    <2>2. /\ run' \in RunType /\ run'.step = s /\ run'.journal = run.journal
      BY <1>2, <2>1, StepTo DEF Go, Step
    <2>3. RunInv'
      BY <1>2, <1>3, <1>5, <2>2 DEF RunInv, ProcessFollows, PhaseByNow,
         HelperSettled, StoppedByNow, StartsAlone, At
    <2> QED
      BY <1>1, <2>3 DEF QuiescenceInv
  <1> QED
    BY <1>6, <1>7 DEF Export

(* A lost process leaves the record, the containers and the helper.          *)
LEMMA CrashKeeps ==
  ASSUME QuiescenceInv, Crash, Remember
  PROVE  QuiescenceInv'
  BY WorldStays, IdleRun DEF QuiescenceInv, Crash

(* The helper starts over a "stopped" record, with nothing running.          *)
LEMMA CreateKeeps ==
  ASSUME QuiescenceInv, Create, Remember
  PROVE  QuiescenceInv'
  <1>1. /\ run \in RunType /\ ~run.journal.hold /\ run.journal.phase = "stopped"
        /\ run.journal.set = op.journal.set /\ op.journal.phase = "stopped"
        /\ running = {} /\ stopping = {}
        /\ UNCHANGED <<op, running, stopping, stored, receipt, destination>>
        /\ kopia' = "capturing"
    BY DEF QuiescenceInv, RunInv, ProcessFollows, PhaseByNow, StoppedByNow, Create,
       At, transfer, WorldInv, WorldTypeOK
  <1>2. unrecorded' \in BOOLEAN /\ (~unrecorded' => ~unrecorded)
    BY RememberIs DEF QuiescenceInv, WorldInv, WorldTypeOK
  <1>3. faults' \in 0..MaxFaults
    BY FaultsBounded DEF QuiescenceInv, WorldInv, WorldTypeOK, Create
  <1>4. WorldInv'
    BY <1>1, <1>2, <1>3 DEF QuiescenceInv, WorldInv, WorldTypeOK, RecordShape,
       HelperAlone, StopsKnown, PowerFollowsGraph, HasGraph
  <1>5. CASE run' = [run EXCEPT !.step = "finalize", !.attempted = TRUE,
                                !.settled = FALSE]
    <2>1. run' \in RunType /\ run'.step = "finalize" /\ run'.journal = run.journal
      BY <1>1, <1>5 DEF RunType, Step
    <2>2. RunInv'
      BY <1>1, <2>1 DEF RunInv, ProcessFollows, PhaseByNow, HelperSettled,
         StoppedByNow, StartsAlone, At
    <2> QED
      BY <1>4, <2>2 DEF QuiescenceInv
  <1>6. CASE run' = [run EXCEPT !.step = "cleanup", !.attempted = TRUE,
                                !.settled = FALSE, !.failed = TRUE]
    <2>1. /\ run' \in RunType /\ run'.step = "cleanup" /\ run'.journal = run.journal
          /\ run'.attempted /\ run'.failed /\ ~run'.settled
      BY <1>1, <1>6 DEF RunType, Step
    <2>2. SettlementDue'
      BY <2>1 DEF SettlementDue
    <2>3. RunInv'
      BY <1>1, <2>1, <2>2 DEF RunInv, ProcessFollows, PhaseByNow, HelperSettled,
         StoppedByNow, StartsAlone, At
    <2> QED
      BY <1>4, <2>3 DEF QuiescenceInv
  <1> QED
    BY <1>5, <1>6 DEF Create

(* The process part does not depend on a helper that has ended.              *)
LEMMA RunStays ==
  ASSUME QuiescenceInv, WorldInv', Remember,
         UNCHANGED <<run, running, stopping>>, kopia' \in {"idle", kopia},
         At("idle") \/ op' = op
  PROVE  RunInv'
  <1>1. ~unrecorded' => ~unrecorded
    BY RememberIs DEF QuiescenceInv, WorldInv, WorldTypeOK
  <1>2. SettlementDue' = SettlementDue
    BY DEF SettlementDue
  <1>3. CASE At("idle")
    BY <1>3, IdleRun DEF QuiescenceInv, RunInv, ProcessFollows
  <1>4. CASE op' = op
    BY <1>1, <1>2, <1>4 DEF QuiescenceInv, RunInv, ProcessFollows, PhaseByNow,
       HelperSettled, StoppedByNow, StartsAlone, At
  <1> QED
    BY <1>3, <1>4

(* The helper ends.                                                          *)
LEMMA KopiaEndsKeeps ==
  ASSUME QuiescenceInv, KopiaEnds, Remember
  PROVE  QuiescenceInv'
  <1>1. /\ kopia = "capturing" /\ kopia' = "idle" /\ stored' \in BOOLEAN
        /\ UNCHANGED <<op, run, running, stopping, receipt, destination>>
    BY DEF KopiaEnds, transfer, QuiescenceInv, WorldInv, WorldTypeOK
  <1>2. unrecorded' \in BOOLEAN /\ (~unrecorded' => ~unrecorded)
    BY RememberIs DEF QuiescenceInv, WorldInv, WorldTypeOK
  <1>3. faults' \in 0..MaxFaults
    BY FaultsBounded DEF QuiescenceInv, WorldInv, WorldTypeOK, KopiaEnds
  <1>4. WorldInv'
    BY <1>1, <1>2, <1>3 DEF QuiescenceInv, WorldInv, WorldTypeOK, RecordShape,
       HelperAlone, StopsKnown, PowerFollowsGraph, HasGraph
  <1> QED
    BY <1>1, <1>4, RunStays DEF QuiescenceInv

(* The steps of a transfer change a held record or the other node.           *)
LEMMA TransferKeeps ==
  ASSUME QuiescenceInv, TransferStep, Remember
  PROVE  QuiescenceInv'
  <1>1. unrecorded' \in BOOLEAN /\ (~unrecorded' => ~unrecorded /\ ~UnrecordedStop')
    BY RememberIs DEF QuiescenceInv, WorldInv, WorldTypeOK
  <1>2. UNCHANGED <<run, running, stopping, kopia, stored, faults>>
    BY DEF TransferStep, SignReceipt, Decide, RecordApplicationTransferOutcome,
       PrepareApplicationTransferRetirement, CompleteApplicationTransferRetirement,
       world
  <1>3. receipt' \in BOOLEAN /\ destination' \in {"none", "activated", "stopped"}
    <2>1. receipt \in BOOLEAN /\ destination \in {"none", "activated", "stopped"}
      BY DEF QuiescenceInv, WorldInv, WorldTypeOK
    <2> QED
      BY <2>1 DEF TransferStep, SignReceipt, Decide, RecordApplicationTransferOutcome,
       PrepareApplicationTransferRetirement, CompleteApplicationTransferRetirement,
       transfer
  <1>4. op \in OpType /\ destination \in {"none", "activated", "stopped"}
    BY DEF QuiescenceInv, WorldInv, WorldTypeOK
  <1>5. \/ op' = op
        \/ /\ run = Idle /\ op.journal.hold /\ op' \in OpType
           /\ op'.mode = op.mode /\ op'.journal.set = op.journal.set
           /\ op'.journal.phase \in {op.journal.phase, "transfer-retired"}
    <2>1. CASE SignReceipt \/ \E d \in {"activated", "stopped"} : Decide(d)
      BY <2>1 DEF SignReceipt, Decide
    <2>2. CASE RecordApplicationTransferOutcome
      BY <1>4, <2>2 DEF RecordApplicationTransferOutcome, OpType, Journal
    <2>3. CASE PrepareApplicationTransferRetirement
      BY <1>4, <2>3 DEF PrepareApplicationTransferRetirement, OpType, Journal
    <2>4. CASE CompleteApplicationTransferRetirement
      BY <1>4, <2>4 DEF CompleteApplicationTransferRetirement, OpType, Journal, Phase
    <2> QED
      BY <2>1, <2>2, <2>3, <2>4 DEF TransferStep
  <1>6. WorldInv'
    <2>1. CASE op' = op
      BY <1>1, <1>2, <1>3, <2>1 DEF QuiescenceInv, WorldInv, WorldTypeOK, RecordShape,
         HelperAlone, StopsKnown, PowerFollowsGraph, HasGraph
    <2>2. CASE op' # op
      <3>1. /\ op.journal.hold /\ op' \in OpType
            /\ op'.mode = op.mode /\ op'.journal.set = op.journal.set
            /\ op'.journal.phase \in {op.journal.phase, "transfer-retired"}
        BY <1>5, <2>2
      <3>2. op.journal.phase \in {"snapshot-created", "transfer-retired"}
        BY <3>1 DEF QuiescenceInv, WorldInv, RecordShape
      <3>3. WorldTypeOK' /\ RecordShape' /\ HelperAlone' /\ PowerFollowsGraph'
        BY <1>1, <1>2, <1>3, <3>1, <3>2 DEF QuiescenceInv, WorldInv, WorldTypeOK,
           RecordShape, HelperAlone, PowerFollowsGraph, HasGraph
      <3>4. StopsKnown'
        BY <1>1, <1>2, <3>1, <3>2 DEF QuiescenceInv, WorldInv, StopsKnown,
           UnrecordedStop
      <3> QED
        BY <3>3, <3>4 DEF WorldInv
    <2> QED
      BY <2>1, <2>2
  <1>7. run = Idle => At("idle")
    BY DEF At, Idle
  <1> QED
    BY <1>2, <1>5, <1>6, <1>7, RunStays DEF QuiescenceInv

(* completeSnapshot.                                                         *)
LEMMA CompleteKeeps ==
  ASSUME QuiescenceInv, Complete, Remember
  PROVE  QuiescenceInv'
  <1>1. unrecorded' \in BOOLEAN /\ (~unrecorded' => ~unrecorded)
    BY RememberIs DEF QuiescenceInv, WorldInv, WorldTypeOK
  <1>2. faults' \in 0..MaxFaults
    BY FaultsBounded DEF QuiescenceInv, WorldInv, WorldTypeOK, Complete
  <1>3. op \in OpType
    BY DEF QuiescenceInv, WorldInv, WorldTypeOK
  <1>4. op' \in OpType /\ op'.mode = op.mode /\ op'.journal = op.journal
    BY <1>3 DEF Complete, OpType
  <1>5. /\ UNCHANGED <<running, stopping, kopia, stored, receipt, destination>>
        /\ run' = Idle
    BY DEF Complete, world, transfer
  <1>6. WorldInv'
    BY <1>1, <1>2, <1>4, <1>5 DEF QuiescenceInv, WorldInv, WorldTypeOK, RecordShape,
         HelperAlone, StopsKnown, PowerFollowsGraph, HasGraph
  <1> QED
    BY <1>5, <1>6, IdleRun DEF QuiescenceInv

(* The three outcomes of a write of the record leave the containers alone.   *)
LEMMA PersistWorld ==
  ASSUME WorldInv, Remember, Fault \/ NoFault, UNCHANGED <<world, transfer>>,
         NEW j \in Journal, op' = op \/ op' = [op EXCEPT !.journal = j],
         kopia = "idle", j.phase # "", running \subseteq j.set,
         j.hold => j.phase = "snapshot-created",
         \/ j.set = op.journal.set
         \/ j.set = running /\ (~unrecorded => stopping = {})
  PROVE  /\ WorldInv'
         /\ op' = op \/ op'.journal = j
         /\ UNCHANGED <<running, stopping, kopia, stored>>
         /\ ~unrecorded' => ~unrecorded
  <1>1. unrecorded' \in BOOLEAN /\ (~unrecorded' => ~unrecorded /\ ~UnrecordedStop')
    BY RememberIs DEF WorldInv, WorldTypeOK
  <1>2. faults' \in 0..MaxFaults
    BY FaultsBounded DEF WorldInv, WorldTypeOK
  <1>3. op \in OpType
    BY DEF WorldInv, WorldTypeOK
  <1>4. op' \in OpType /\ op'.mode = op.mode /\ (op' = op \/ op'.journal = j)
    BY <1>3 DEF OpType
  <1>5. UNCHANGED <<running, stopping, kopia, stored, receipt, destination>>
    BY DEF world, transfer
  <1>6. WorldTypeOK' /\ RecordShape' /\ HelperAlone'
    BY <1>1, <1>2, <1>4, <1>5 DEF WorldInv, WorldTypeOK, RecordShape, HelperAlone
  <1>7. StopsKnown' /\ PowerFollowsGraph'
    <2>1. CASE op'.journal.set = op.journal.set
      BY <1>1, <1>4, <1>5, <2>1 DEF WorldInv, StopsKnown, PowerFollowsGraph, HasGraph,
         UnrecordedStop
    <2>2. CASE op'.journal.set = running /\ (~unrecorded => stopping = {})
      BY <1>1, <1>5, <2>2 DEF StopsKnown, PowerFollowsGraph, HasGraph,
         UnrecordedStop
    <2> QED
      BY <1>4, <2>1, <2>2
  <1> QED
    BY <1>1, <1>4, <1>5, <1>6, <1>7 DEF WorldInv

(* prepareQuiescence.                                                        *)
LEMMA PrepareKeeps ==
  ASSUME QuiescenceInv, Prepare, Remember
  PROVE  QuiescenceInv'
  <1> DEFINE j == [run.journal EXCEPT !.phase = "prepared", !.set = running]
  <1>1. /\ run \in RunType /\ run.journal \in Journal /\ ~run.journal.hold
        /\ run.journal.phase = "" /\ running \subseteq Writer
        /\ ~unrecorded => stopping = {}
    BY DEF QuiescenceInv, RunInv, RunType, ProcessFollows, PhaseByNow, StartsAlone,
       Prepare, At, WorldInv, WorldTypeOK
  <1>2. j \in Journal /\ ~j.hold /\ j.phase = "prepared" /\ j.set = running
    BY <1>1 DEF Journal, Phase
  <1>3. kopia = "idle"
    BY DEF QuiescenceInv, RunInv, HelperSettled, Prepare, At, WorldInv, WorldTypeOK
  <1>4. /\ UNCHANGED <<world, transfer>> /\ (Fault \/ NoFault)
        /\ \/ op' = [op EXCEPT !.journal = j]
              /\ run' = [run EXCEPT !.step = "stop", !.journal = j]
           \/ (op' = op \/ op' = [op EXCEPT !.journal = j]) /\ run' = Idle
    BY DEF Prepare, Persist
  <1> HIDE DEF j
  <1>5. /\ WorldInv' /\ UNCHANGED <<running, stopping, kopia>>
        /\ op' = op \/ op'.journal = j
        /\ ~unrecorded' => ~unrecorded
    BY <1>1, <1>2, <1>3, <1>4, PersistWorld DEF QuiescenceInv
  <1>6. CASE run' = Idle
    BY <1>5, <1>6, IdleRun DEF QuiescenceInv
  <1>7. CASE run' # Idle
    <2>1. op' = [op EXCEPT !.journal = j] /\ run' = [run EXCEPT !.step = "stop", !.journal = j]
      BY <1>4, <1>7
    <2>2. op'.journal = j
      <3>1. op \in OpType
        BY DEF QuiescenceInv, WorldInv, WorldTypeOK
      <3> QED
        BY <2>1, <3>1 DEF OpType
    <2>3. run' \in RunType /\ run'.step = "stop" /\ run'.journal = j
      BY <1>1, <1>2, <2>1 DEF RunType, Step
    <2>4. RunInv'
      BY <1>2, <1>3, <1>5, <2>2, <2>3 DEF RunInv, ProcessFollows, PhaseByNow, HelperSettled,
         StoppedByNow, StartsAlone, At
    <2> QED
      BY <1>5, <2>4 DEF QuiescenceInv
  <1> QED
    BY <1>6, <1>7

(* The phase is assigned and persisted; on an error the cleanup has it.      *)
LEMMA PersistKeeps ==
  ASSUME QuiescenceInv, Remember, NEW p \in Phase, NEW s \in Step, PersistPhase(p, s),
         UNCHANGED <<world, transfer>>, ~At("idle"), kopia = "idle", p # "",
         op.journal.phase # "",
         ~unrecorded => stopping = {},
         p \in {"prepared", "stopped", "snapshot-created"},
         \/ p = "prepared" /\ s = "stop"
         \/ p = "stopped" /\ s = "create" /\ running = {}
         \/ p = "snapshot-created" /\ s = "export"
  PROVE  QuiescenceInv'
  <1> DEFINE j == [run.journal EXCEPT !.phase = p]
  <1>1. /\ run \in RunType /\ run.journal \in Journal /\ ~run.journal.hold
        /\ run.journal.set = op.journal.set
    BY DEF QuiescenceInv, RunInv, RunType, ProcessFollows, At
  <1>2. j \in Journal /\ ~j.hold /\ j.phase = p /\ j.set = op.journal.set
    BY <1>1 DEF Journal
  <1>3. /\ Fault \/ NoFault
        /\ \/ op' = [op EXCEPT !.journal = j]
              /\ run' = [run EXCEPT !.step = s, !.journal = j]
           \/ (op' = op \/ op' = [op EXCEPT !.journal = j]) /\ FailWith(j)
    BY DEF PersistPhase, Persist
  <1> HIDE DEF j
  <1>4. running \subseteq j.set
    BY <1>2 DEF QuiescenceInv, WorldInv, RecordShape
  <1>5. /\ WorldInv' /\ UNCHANGED <<running, stopping, kopia>>
        /\ op' = op \/ op'.journal = j
        /\ ~unrecorded' => ~unrecorded
    BY <1>2, <1>3, <1>4, PersistWorld DEF QuiescenceInv
  <1>6. CASE FailWith(j)
    BY <1>1, <1>2, <1>5, <1>6, FailRun DEF QuiescenceInv
  <1>7. CASE ~FailWith(j)
    <2>1. op' = [op EXCEPT !.journal = j] /\ run' = [run EXCEPT !.step = s, !.journal = j]
      BY <1>3, <1>7
    <2>2. op'.journal = j
      <3>1. op \in OpType
        BY DEF QuiescenceInv, WorldInv, WorldTypeOK
      <3> QED
        BY <2>1, <3>1 DEF OpType
    <2>3. run' \in RunType /\ run'.step = s /\ run'.journal = j
      BY <1>1, <1>2, <2>1 DEF RunType
    <2>4. RunInv'
      BY <1>2, <1>5, <2>2, <2>3 DEF RunInv, ProcessFollows, PhaseByNow, HelperSettled,
         StoppedByNow, StartsAlone, At
    <2> QED
      BY <1>5, <2>4 DEF QuiescenceInv
  <1> QED
    BY <1>6, <1>7

(* A retry records "prepared" again, or stops its writers all the same.      *)
LEMMA ReprepareKeeps ==
  ASSUME QuiescenceInv, Reprepare, Remember
  PROVE  QuiescenceInv'
  <1>1. /\ run.step = "reprepare" /\ ~At("idle") /\ UNCHANGED <<world, transfer>>
        /\ PersistPhase("prepared", "stop") /\ kopia = "idle"
        /\ run.journal.phase # "" /\ op.journal.phase # ""
    BY DEF Reprepare, At, QuiescenceInv, RunInv, ProcessFollows, PhaseByNow,
       HelperSettled, WorldInv, WorldTypeOK
  <1>2. ~unrecorded => stopping = {}
    BY <1>1 DEF QuiescenceInv, RunInv, PhaseByNow, StartsAlone, At
  <1> QED
    BY <1>1, <1>2, PersistKeeps DEF Step, Phase

(* The record that the writers are stopped.                                  *)
LEMMA VerifyKeeps ==
  ASSUME QuiescenceInv, Verify, Remember
  PROVE  QuiescenceInv'
  <1>1. /\ run.step = "verify" /\ ~At("idle") /\ UNCHANGED <<world, transfer>>
        /\ kopia = "idle" /\ running = {} /\ stopping = {}
        /\ run.journal.phase = "prepared" /\ op.journal.phase # ""
    BY DEF Verify, At, QuiescenceInv, RunInv, ProcessFollows, PhaseByNow,
       HelperSettled, StoppedByNow, WorldInv, WorldTypeOK
  <1>2. PersistPhase("stopped", "create")
    BY <1>1 DEF Verify
  <1> QED
    BY <1>1, <1>2, PersistKeeps DEF Step, Phase

(* The record of the snapshot.                                               *)
LEMMA FinalizeKeeps ==
  ASSUME QuiescenceInv, Finalize, Remember
  PROVE  QuiescenceInv'
  <1>1. /\ run.step = "finalize" /\ ~At("idle") /\ UNCHANGED <<world, transfer>>
        /\ kopia = "idle" /\ run \in RunType /\ run.journal \in Journal
        /\ run.journal.set = op.journal.set
        /\ run.journal.phase = "stopped" /\ op.journal.phase # ""
        /\ ~unrecorded => stopping = {}
    BY DEF Finalize, At, QuiescenceInv, RunInv, RunType, ProcessFollows, PhaseByNow,
       StartsAlone
  <1>2. CASE stored
    BY <1>1, <1>2, PersistKeeps DEF Finalize, Step, Phase
  <1>3. CASE ~stored
    <2>1. FailWith(run.journal) /\ UNCHANGED <<op, world, transfer>> /\ NoFault
      BY <1>1, <1>3 DEF Finalize, Fail
    <2>2. WorldInv' /\ UNCHANGED <<stopping, kopia>>
      BY <2>1, WorldStays DEF QuiescenceInv, world
    <2>3. ~unrecorded' => ~unrecorded
      BY RememberIs DEF QuiescenceInv, WorldInv, WorldTypeOK
    <2> QED
      BY <1>1, <2>1, <2>2, <2>3, FailRun DEF QuiescenceInv
  <1> QED
    BY <1>2, <1>3

(* The hold of a transfer.                                                   *)
LEMMA HoldKeeps ==
  ASSUME QuiescenceInv, Hold, Remember
  PROVE  QuiescenceInv'
  <1> DEFINE j == [run.journal EXCEPT !.hold = TRUE]
  <1>1. /\ run \in RunType /\ run.journal \in Journal /\ ~run.journal.hold
        /\ run.journal.set = op.journal.set /\ op.journal.phase # ""
        /\ run.journal.phase = "snapshot-created" /\ kopia = "idle"
        /\ ~unrecorded => stopping = {}
    BY DEF QuiescenceInv, RunInv, RunType, ProcessFollows, PhaseByNow, StartsAlone,
       HelperSettled, Hold, At, WorldInv, WorldTypeOK
  <1>2. j \in Journal /\ j.phase = "snapshot-created" /\ j.set = op.journal.set
    BY <1>1 DEF Journal
  <1>3. /\ UNCHANGED <<world, transfer>> /\ (Fault \/ NoFault)
        /\ op' = op \/ op' = [op EXCEPT !.journal = j]
        /\ run' = Idle \/ FailWith(run.journal)
    BY DEF Hold, Persist, Fail
  <1> HIDE DEF j
  <1>4. running \subseteq j.set
    BY <1>1, <1>2 DEF QuiescenceInv, WorldInv, RecordShape
  <1>5. /\ WorldInv' /\ UNCHANGED <<running, stopping, kopia>>
        /\ op' = op \/ op'.journal = j
        /\ ~unrecorded' => ~unrecorded
    BY <1>2, <1>1, <1>3, <1>4, PersistWorld DEF QuiescenceInv
  <1>6. CASE run' = Idle
    BY <1>5, <1>6, IdleRun DEF QuiescenceInv
  <1>7. CASE FailWith(run.journal)
    BY <1>1, <1>2, <1>5, <1>7, FailRun DEF QuiescenceInv
  <1> QED
    BY <1>3, <1>6, <1>7

(* The record that the writers run again.                                    *)
LEMMA RestoreKeeps ==
  ASSUME QuiescenceInv, Restore, Remember
  PROVE  QuiescenceInv'
  <1> DEFINE j == [run.journal EXCEPT !.phase = "restored"]
  <1>1. /\ run \in RunType /\ run.journal \in Journal /\ ~run.journal.hold
        /\ run.journal.set = op.journal.set /\ op.journal.phase # ""
        /\ kopia = "idle" /\ (~unrecorded => stopping = {})
    BY DEF QuiescenceInv, RunInv, RunType, ProcessFollows, PhaseByNow, StartsAlone,
       HelperSettled, Restore, At, WorldInv, WorldTypeOK
  <1>2. j \in Journal /\ ~j.hold /\ j.phase = "restored" /\ j.set = op.journal.set
    BY <1>1 DEF Journal, Phase
  <1>3. /\ UNCHANGED <<world, transfer>> /\ (Fault \/ NoFault)
        /\ op' = op \/ op' = [op EXCEPT !.journal = j]
        /\ \/ run' = Idle
           \/ /\ op' = [op EXCEPT !.journal = j]
              /\ run' = [run EXCEPT !.step = "complete", !.journal = j]
    BY DEF Restore, Persist
  <1> HIDE DEF j
  <1>4. running \subseteq j.set
    BY <1>1, <1>2 DEF QuiescenceInv, WorldInv, RecordShape
  <1>5. /\ WorldInv' /\ UNCHANGED <<running, stopping, kopia>>
        /\ ~unrecorded' => ~unrecorded
    BY <1>2, <1>1, <1>3, <1>4, PersistWorld DEF QuiescenceInv
  <1>6. CASE run' = Idle
    BY <1>5, <1>6, IdleRun DEF QuiescenceInv
  <1>7. CASE run' # Idle
    <2>1. /\ op' = [op EXCEPT !.journal = j]
          /\ run' = [run EXCEPT !.step = "complete", !.journal = j]
      BY <1>3, <1>7
    <2>2. op'.journal = j
      <3>1. op \in OpType
        BY DEF QuiescenceInv, WorldInv, WorldTypeOK
      <3> QED
        BY <2>1, <3>1 DEF OpType
    <2>3. run' \in RunType /\ run'.step = "complete" /\ run'.journal = j
      BY <1>1, <1>2, <2>1 DEF RunType, Step
    <2>4. RunInv'
      BY <1>1, <1>2, <1>5, <2>2, <2>3 DEF RunInv, ProcessFollows, PhaseByNow,
         HelperSettled, StoppedByNow, StartsAlone, At
    <2> QED
      BY <1>5, <2>4 DEF QuiescenceInv
  <1> QED
    BY <1>6, <1>7

(* A container stops: the first of the running ones.                         *)
LEMMA StoppedWorld ==
  ASSUME WorldInv, Remember, Fault \/ NoFault, NEW w \in running,
         running' = running \ {w}, stopping' = stopping \ {w},
         UNCHANGED <<op, kopia, stored, transfer>>,
         ~unrecorded => \A v \in op.journal.set \cap running : StopRank[w] <= StopRank[v]
  PROVE  WorldInv' /\ (~unrecorded' => ~unrecorded)
  <1>1. unrecorded' \in BOOLEAN /\ (~unrecorded' => ~unrecorded)
    BY RememberIs DEF WorldInv, WorldTypeOK
  <1>2. faults' \in 0..MaxFaults
    BY FaultsBounded DEF WorldInv, WorldTypeOK
  <1>3. WorldTypeOK' /\ RecordShape' /\ HelperAlone'
    BY <1>1, <1>2 DEF WorldInv, WorldTypeOK, RecordShape, HelperAlone, transfer
  <1>4. StopsKnown'
    BY <1>1 DEF WorldInv, StopsKnown
  <1>5. PowerFollowsGraph'
    <2> SUFFICES ASSUME HasGraph, ~unrecorded', NEW v \in op.journal.set \cap running',
                        NEW u \in op.journal.set, StopRank[v] < StopRank[u]
                 PROVE  u \in running'
      BY DEF PowerFollowsGraph, HasGraph
    <2>1. u \in running
      BY <1>1 DEF WorldInv, PowerFollowsGraph
    <2>2. StopRank[w] <= StopRank[v]
      BY <1>1
    <2>3. StopRank[w] \in Nat /\ StopRank[v] \in Nat /\ StopRank[u] \in Nat
      BY <2>1, QuiescenceAssumption DEF WorldInv, WorldTypeOK
    <2> QED
      BY <2>1, <2>2, <2>3
  <1> QED
    BY <1>1, <1>3, <1>4, <1>5 DEF WorldInv

(* The process gives up on the stop of the first of the running ones.        *)
LEMMA GivenUpWorld ==
  ASSUME WorldInv, Remember, Fault \/ NoFault, NEW w \in running,
         UNCHANGED running, stopping' \in {stopping, stopping \cup {w}},
         UNCHANGED <<op, kopia, stored, transfer>>,
         \A v \in op.journal.set \cap running : StopRank[w] <= StopRank[v]
  PROVE  WorldInv'
  <1>1. unrecorded' \in BOOLEAN /\ (~unrecorded' => ~unrecorded /\ ~UnrecordedStop')
    BY RememberIs DEF WorldInv, WorldTypeOK
  <1>2. faults' \in 0..MaxFaults
    BY FaultsBounded DEF WorldInv, WorldTypeOK
  <1>3. WorldTypeOK' /\ RecordShape' /\ HelperAlone' /\ PowerFollowsGraph'
    BY <1>1, <1>2 DEF WorldInv, WorldTypeOK, RecordShape, HelperAlone, transfer,
       PowerFollowsGraph, HasGraph
  <1>4. StopsKnown'
    BY <1>1 DEF WorldInv, StopsKnown, UnrecordedStop
  <1> QED
    BY <1>3, <1>4 DEF WorldInv

(* The last of the stopped ones starts.                                      *)
LEMMA StartedWorld ==
  ASSUME WorldInv, Remember, Fault \/ NoFault, kopia = "idle",
         NEW w \in op.journal.set \ running,
         running' \in {running, running \cup {w}},
         UNCHANGED <<op, stopping, kopia, stored, transfer>>,
         ~unrecorded => stopping = {},
         HasGraph => \A v \in op.journal.set \ running : StopRank[w] >= StopRank[v]
  PROVE  WorldInv' /\ (~unrecorded' => ~unrecorded)
  <1>1. unrecorded' \in BOOLEAN /\ (~unrecorded' => ~unrecorded)
    BY RememberIs DEF WorldInv, WorldTypeOK
  <1>2. faults' \in 0..MaxFaults
    BY FaultsBounded DEF WorldInv, WorldTypeOK
  <1>3. op.journal.set \in SUBSET Writer
    BY DEF WorldInv, WorldTypeOK, OpType, Journal
  <1>4. WorldTypeOK' /\ RecordShape' /\ HelperAlone' /\ StopsKnown'
    BY <1>1, <1>2, <1>3 DEF WorldInv, WorldTypeOK, RecordShape, HelperAlone,
       transfer, StopsKnown
  <1>5. PowerFollowsGraph'
    <2> SUFFICES ASSUME HasGraph, ~unrecorded', NEW v \in op.journal.set \cap running',
                        NEW u \in op.journal.set, StopRank[v] < StopRank[u]
                 PROVE  u \in running'
      BY DEF PowerFollowsGraph, HasGraph
    <2>1. CASE v \in running
      BY <1>1, <2>1 DEF WorldInv, PowerFollowsGraph
    <2>2. CASE v \notin running
      <3>1. v = w
        BY <2>2
      <3>2. StopRank[w] \in Nat /\ StopRank[u] \in Nat
        BY <1>3, QuiescenceAssumption
      <3> QED
        BY <3>1, <3>2
    <2> QED
      BY <2>1, <2>2
  <1> QED
    BY <1>1, <1>4, <1>5 DEF WorldInv

(* A stop lands after its caller gave up.                                    *)
LEMMA LateStopKeeps ==
  ASSUME QuiescenceInv, NEW w \in Writer, LateStop(w), Remember
  PROVE  QuiescenceInv'
  <1>1. /\ w \in running /\ w \in stopping
        /\ running' = running \ {w} /\ stopping' = stopping \ {w}
        /\ UNCHANGED <<op, run, kopia, stored, transfer>> /\ NoFault
    BY DEF LateStop, NoFault, QuiescenceInv, WorldInv, WorldTypeOK
  <1>2. ~unrecorded => \A v \in op.journal.set \cap running : StopRank[w] <= StopRank[v]
    BY <1>1 DEF QuiescenceInv, WorldInv, StopsKnown
  <1>3. WorldInv' /\ (~unrecorded' => ~unrecorded)
    BY <1>1, <1>2, StoppedWorld DEF QuiescenceInv
  <1>4. SettlementDue' = SettlementDue
    BY <1>1 DEF SettlementDue
  <1>5. RunInv'
    BY <1>1, <1>3, <1>4 DEF QuiescenceInv, RunInv, ProcessFollows, PhaseByNow,
       HelperSettled, StoppedByNow, StartsAlone, At
  <1> QED
    BY <1>3, <1>5 DEF QuiescenceInv

(* What the passes over the containers of the record start from.             *)
LEMMA PassBegins ==
  ASSUME QuiescenceInv, run.step \in {"stop", "restop", "start"}
  PROVE  /\ run \in RunType /\ run.journal \in Journal /\ ~run.journal.hold
         /\ run.journal.set = op.journal.set /\ op.journal.set \in SUBSET Writer
         /\ run.journal.phase # "" /\ op.journal.phase # ""
         /\ kopia = "idle" /\ running \subseteq op.journal.set
  BY DEF QuiescenceInv, RunInv, RunType, Journal, ProcessFollows, PhaseByNow, At,
     HelperSettled, WorldInv, WorldTypeOK, RecordShape

(* stopQuiescence.                                                           *)
LEMMA StopKeeps ==
  ASSUME QuiescenceInv, Stop, Remember
  PROVE  QuiescenceInv'
  <1> DEFINE left == run.journal.set \cap running
             w == FirstToStop(left)
  <1>1. /\ run.step = "stop" /\ UNCHANGED <<op, kopia, stored, transfer>>
        /\ run.journal.phase = "prepared"
    BY DEF Stop, At, QuiescenceInv, RunInv, PhaseByNow
  <1>2. /\ run \in RunType /\ run.journal \in Journal /\ ~run.journal.hold
        /\ run.journal.set = op.journal.set /\ op.journal.set \in SUBSET Writer
        /\ op.journal.phase # ""
        /\ kopia = "idle" /\ running \subseteq op.journal.set
    BY <1>1, PassBegins
  <1>3. CASE /\ left = {}
             /\ Go("verify") /\ NoFault /\ UNCHANGED <<running, stopping>>
    <2>1. Go("verify") /\ NoFault /\ UNCHANGED <<running, stopping>>
      BY <1>3
    <2>2. WorldInv'
      BY <1>1, <2>1, WorldStays DEF QuiescenceInv, world
    <2>3. run' \in RunType /\ run'.step = "verify" /\ run'.journal = run.journal
      BY <1>2, <2>1, StepTo DEF Go, Step
    <2>4. running = {}
      BY <1>2, <1>3
    <2>5. RunInv'
      BY <1>1, <1>2, <2>1, <2>3, <2>4 DEF RunInv, ProcessFollows, PhaseByNow,
         HelperSettled, StoppedByNow, StartsAlone, At
    <2> QED
      BY <2>2, <2>5 DEF QuiescenceInv
  <1>4. CASE left # {} /\ StopContainer(w)
    <2>1. /\ w \in left /\ \A v \in left : StopRank[w] <= StopRank[v]
      BY <1>2, <1>4, FirstToStopIs
    <2>2. StopContainer(w)
      BY <1>4
    <2> HIDE DEF w
    <2>3. CASE /\ running' = running \ {w} /\ stopping' = stopping \ {w}
               /\ UNCHANGED run /\ NoFault
      <3>1. WorldInv' /\ (~unrecorded' => ~unrecorded)
        BY <1>1, <1>2, <2>1, <2>3, StoppedWorld DEF QuiescenceInv
      <3>2. RunInv'
        BY <1>1, <1>2, <2>3, <3>1 DEF QuiescenceInv, RunInv, ProcessFollows,
           PhaseByNow, HelperSettled, StoppedByNow, StartsAlone, At
      <3> QED
        BY <3>1, <3>2 DEF QuiescenceInv
    <2>4. CASE /\ stopping' \in {stopping, stopping \cup {w}} /\ UNCHANGED running
               /\ Fail /\ Fault
      <3>1. WorldInv'
        BY <1>1, <1>2, <2>1, <2>4, GivenUpWorld DEF QuiescenceInv
      <3> QED
        BY <1>1, <1>2, <2>4, <3>1, FailRun DEF Fail, QuiescenceInv
    <2> QED
      BY <2>2, <2>3, <2>4 DEF StopContainer
  <1>5. CASE StopUnclean
    <2>1. Fail /\ Fault /\ UNCHANGED <<running, stopping>>
      BY <1>5 DEF StopUnclean
    <2>2. WorldInv'
      BY <1>1, <2>1, WorldStays DEF QuiescenceInv, world
    <2> QED
      BY <1>1, <1>2, <2>1, <2>2, FailRun DEF Fail, QuiescenceInv
  <1> QED
    BY <1>3, <1>4, <1>5 DEF Stop

(* settleQuiescenceStop.                                                     *)
LEMMA RestopKeeps ==
  ASSUME QuiescenceInv, Restop, Remember
  PROVE  QuiescenceInv'
  <1> DEFINE w == FirstToStop(LeftToSettle)
  <1>1. run.step = "restop" /\ UNCHANGED <<op, kopia, stored, transfer>>
    BY DEF Restop, At
  <1>2. /\ run \in RunType /\ run.journal \in Journal /\ ~run.journal.hold
        /\ run.journal.set = op.journal.set /\ op.journal.set \in SUBSET Writer
        /\ run.journal.phase # "" /\ op.journal.phase # ""
        /\ kopia = "idle" /\ running \subseteq op.journal.set
    BY <1>1, PassBegins
  <1>3. CASE LeftToSettle = {}
    <2>1. Go("start") /\ NoFault /\ UNCHANGED <<running, stopping>>
      BY <1>3 DEF Restop
    <2>2. WorldInv'
      BY <1>1, <2>1, WorldStays DEF QuiescenceInv, world
    <2>3. run' \in RunType /\ run'.step = "start" /\ run'.journal = run.journal
      BY <1>2, <2>1, StepTo DEF Go, Step
    <2>4. running = {} /\ stopping = {}
      BY <1>2, <1>3 DEF LeftToSettle, QuiescenceInv, WorldInv, WorldTypeOK
    <2>5. RunInv'
      BY <1>1, <1>2, <2>1, <2>3, <2>4 DEF RunInv, ProcessFollows, PhaseByNow,
         HelperSettled, StoppedByNow, StartsAlone, At
    <2> QED
      BY <2>2, <2>5 DEF QuiescenceInv
  <1>4. CASE LeftToSettle # {}
    <2>1. /\ w \in LeftToSettle /\ \A v \in LeftToSettle : StopRank[w] <= StopRank[v]
      <3>1. LeftToSettle \in SUBSET Writer
        BY <1>2 DEF LeftToSettle
      <3> QED
        BY <1>4, <3>1, FirstToStopIs
    <2>2. \/ /\ running' = running \ {w} /\ stopping' = stopping \ {w}
             /\ UNCHANGED run /\ NoFault
          \/ stopping' \in {stopping, stopping \cup {w}}
             /\ UNCHANGED running /\ run' = Idle /\ Fault
      BY <1>4 DEF Restop
    <2> HIDE DEF w
    <2>3. w \in running /\ \A v \in op.journal.set \cap running : StopRank[w] <= StopRank[v]
      BY <1>2, <2>1 DEF LeftToSettle
    <2>4. CASE /\ running' = running \ {w} /\ stopping' = stopping \ {w}
               /\ UNCHANGED run /\ NoFault
      <3>1. WorldInv' /\ (~unrecorded' => ~unrecorded)
        BY <1>1, <2>3, <2>4, StoppedWorld DEF QuiescenceInv
      <3>2. RunInv'
        BY <1>1, <1>2, <2>4, <3>1 DEF QuiescenceInv, RunInv, ProcessFollows,
           PhaseByNow, HelperSettled, StoppedByNow, StartsAlone, At
      <3> QED
        BY <3>1, <3>2 DEF QuiescenceInv
    <2>5. CASE /\ stopping' \in {stopping, stopping \cup {w}} /\ UNCHANGED running
               /\ run' = Idle /\ Fault
      <3>1. WorldInv'
        BY <1>1, <2>3, <2>5, GivenUpWorld DEF QuiescenceInv
      <3> QED
        BY <2>5, <3>1, IdleRun DEF QuiescenceInv
    <2> QED
      BY <2>2, <2>4, <2>5
  <1> QED
    BY <1>3, <1>4

(* The starts of restoreQuiescence.                                          *)
LEMMA StartKeeps ==
  ASSUME QuiescenceInv, Start, Remember
  PROVE  QuiescenceInv'
  <1> DEFINE left == run.journal.set \ running
             w == FirstToStart(left)
  <1>1. run.step = "start" /\ UNCHANGED <<op, stopping, kopia, stored, transfer>>
    BY DEF Start, At
  <1>2. /\ run \in RunType /\ run.journal \in Journal /\ ~run.journal.hold
        /\ run.journal.set = op.journal.set /\ op.journal.set \in SUBSET Writer
        /\ run.journal.phase # "" /\ op.journal.phase # ""
        /\ kopia = "idle" /\ running \subseteq op.journal.set
    BY <1>1, PassBegins
  <1>3. ~unrecorded => stopping = {}
    BY <1>1 DEF QuiescenceInv, RunInv, StartsAlone
  <1>4. CASE left = {}
    <2>1. Go("restore") /\ NoFault /\ UNCHANGED running
      BY <1>4 DEF Start
    <2>2. WorldInv'
      BY <1>1, <2>1, WorldStays DEF QuiescenceInv, world
    <2>3. run' \in RunType /\ run'.step = "restore" /\ run'.journal = run.journal
      BY <1>2, <2>1, StepTo DEF Go, Step
    <2>4. op.journal.set \subseteq running
      BY <1>2, <1>4
    <2>5. ~unrecorded' => ~unrecorded
      BY RememberIs DEF QuiescenceInv, WorldInv, WorldTypeOK
    <2>6. RunInv'
      BY <1>1, <1>2, <1>3, <2>1, <2>3, <2>4, <2>5 DEF RunInv, ProcessFollows,
         PhaseByNow, HelperSettled, StoppedByNow, StartsAlone, At
    <2> QED
      BY <2>2, <2>6 DEF QuiescenceInv
  <1>5. CASE left # {}
    <2>1. /\ w \in left /\ (HasGraph => \A v \in left : StopRank[w] >= StopRank[v])
      BY <1>2, <1>5, FirstToStartIs
    <2>2. \/ running' = running \cup {w} /\ UNCHANGED run /\ NoFault
          \/ running' \in {running, running \cup {w}} /\ run' = Idle /\ Fault
      BY <1>5 DEF Start
    <2> HIDE DEF w
    <2>3. WorldInv' /\ (~unrecorded' => ~unrecorded)
      BY <1>1, <1>2, <1>3, <2>1, <2>2, StartedWorld DEF QuiescenceInv
    <2>4. CASE run' = Idle
      BY <2>3, <2>4, IdleRun DEF QuiescenceInv
    <2>5. CASE run' = run
      <3>1. RunInv'
        BY <1>1, <1>2, <1>3, <2>3, <2>5 DEF QuiescenceInv, RunInv, ProcessFollows,
           PhaseByNow, HelperSettled, StoppedByNow, StartsAlone, At
      <3> QED
        BY <2>3, <3>1 DEF QuiescenceInv
    <2> QED
      BY <2>2, <2>4, <2>5
  <1> QED
    BY <1>4, <1>5

(* Before the first command.                                                 *)
LEMMA QuiescenceInvInit == QuiescenceInit => QuiescenceInv
  <1> SUFFICES ASSUME QuiescenceInit
               PROVE  QuiescenceInv
    OBVIOUS
  <1>1. FreshJournal \in Journal
    BY DEF FreshJournal, Journal, Phase
  <1>2. op \in OpType /\ op.journal = FreshJournal
    BY <1>1 DEF QuiescenceInit, OpType
  <1>3. /\ ~FreshJournal.hold /\ FreshJournal.phase = "" /\ FreshJournal.set = {}
    BY DEF FreshJournal
  <1>4. /\ running \subseteq Writer /\ stopping = {} /\ kopia = "idle" /\ stored = FALSE
        /\ receipt = FALSE /\ destination = "none" /\ faults = 0 /\ unrecorded = FALSE
        /\ 0 \in 0..MaxFaults
    BY QuiescenceAssumption DEF QuiescenceInit
  <1>5. WorldInv
    <2>1. WorldTypeOK
      BY <1>2, <1>4 DEF WorldTypeOK
    <2> QED
      BY <1>2, <1>3, <1>4, <2>1 DEF WorldInv, RecordShape, HelperAlone, StopsKnown,
         PowerFollowsGraph
  <1>6. run \in RunType /\ run.step = "idle" /\ run = Idle
    BY DEF QuiescenceInit, RunType, Idle, FreshJournal, Journal, Phase, Step, Mode, OperationMode
  <1>7. RunInv
    BY <1>6 DEF QuiescenceInit, RunInv, ProcessFollows, PhaseByNow, HelperSettled,
       StoppedByNow, StartsAlone, At
  <1> QED
    BY <1>5, <1>7 DEF QuiescenceInv

(* Every step keeps the invariant.                                           *)
LEMMA QuiescenceInvNext == QuiescenceInv /\ QuiescenceNext => QuiescenceInv'
  <1> SUFFICES ASSUME QuiescenceInv, QuiescenceStep, Remember
               PROVE  QuiescenceInv'
    BY DEF QuiescenceNext
  <1>1. ASSUME NEW m \in Mode, Run(m)
        PROVE  QuiescenceInv'
    BY <1>1, RunKeeps
  <1>2. CASE ProcessStep
    BY <1>2, EnterKeeps, SettleKeeps, LookupKeeps, PrepareKeeps, ReprepareKeeps,
       StopKeeps, VerifyKeeps, CreateKeeps, FinalizeKeeps, ExportKeeps, HoldKeeps,
       CleanupKeeps, ResettleKeeps, RestopKeeps, StartKeeps, RestoreKeeps,
       CompleteKeeps DEF ProcessStep
  <1>3. CASE TransferStep
    BY <1>3, TransferKeeps
  <1>4. CASE KopiaEnds
    BY <1>4, KopiaEndsKeeps
  <1>5. CASE Crash
    BY <1>5, CrashKeeps
  <1>6. ASSUME NEW w \in Writer, LateStop(w)
        PROVE  QuiescenceInv'
    BY <1>6, LateStopKeeps
  <1> QED
    BY <1>1, <1>2, <1>3, <1>4, <1>5, <1>6 DEF QuiescenceStep

(* Nothing changes while the host runs a group.                              *)
LEMMA QuiescenceInvStays == QuiescenceInv /\ UNCHANGED quiescenceVars => QuiescenceInv'
  <1> SUFFICES ASSUME QuiescenceInv, UNCHANGED quiescenceVars
               PROVE  QuiescenceInv'
    OBVIOUS
  <1>1. UNCHANGED <<op, run, running, stopping, kopia, stored, receipt, destination,
                    faults, unrecorded>>
    BY DEF quiescenceVars
  <1>2. SettlementDue' = SettlementDue
    BY <1>1 DEF SettlementDue
  <1>3. WorldInv'
    BY <1>1 DEF QuiescenceInv, WorldInv, WorldTypeOK, RecordShape, HelperAlone,
       StopsKnown, PowerFollowsGraph, HasGraph
  <1>4. RunInv'
    BY <1>1, <1>2 DEF QuiescenceInv, RunInv, ProcessFollows, PhaseByNow,
       HelperSettled, StoppedByNow, StartsAlone, At
  <1> QED
    BY <1>3, <1>4 DEF QuiescenceInv

(* The record says "restored" only over writers that all run.                *)
LEMMA RestoredStep ==
  ASSUME QuiescenceInv, QuiescenceNext, ~unrecorded,
         op.journal.phase # "restored", op'.journal.phase = "restored"
  PROVE  op.journal.set \subseteq running \ stopping
  <1>1. op \in OpType /\ run.journal \in Journal
    BY DEF QuiescenceInv, WorldInv, WorldTypeOK, RunInv, RunType
  <1>2. CASE Restore
    BY <1>2 DEF Restore, At, QuiescenceInv, RunInv, StartsAlone
  <1>3. CASE ~Restore
    <2>1. \A m \in Mode : ~Run(m)
      BY <1>1 DEF Run, OpType
    <2>2. ~Prepare
      BY <1>1 DEF Prepare, Persist, OpType, Journal
    <2>3. ~Reprepare /\ ~Verify /\ ~Finalize
      BY <1>1 DEF Reprepare, Verify, Finalize, PersistPhase, Persist, OpType, Journal
    <2>4. ~Hold
      <3>1. Hold => run.journal.phase = "snapshot-created"
        BY DEF Hold, At, QuiescenceInv, RunInv, PhaseByNow
      <3> QED
        BY <1>1, <3>1 DEF Hold, Persist, OpType, Journal
    <2>5. ~Complete
      BY <1>1 DEF Complete, OpType
    <2>6. ~RecordApplicationTransferOutcome /\ ~PrepareApplicationTransferRetirement
      BY <1>1 DEF RecordApplicationTransferOutcome,
         PrepareApplicationTransferRetirement, OpType, Journal
    <2>7. ~CompleteApplicationTransferRetirement
      <3> SUFFICES ASSUME CompleteApplicationTransferRetirement PROVE FALSE
        OBVIOUS
      <3>1. op' = op \/ op'.journal.phase = "transfer-retired"
        BY <1>1 DEF CompleteApplicationTransferRetirement, OpType, Journal
      <3> QED
        BY <3>1
    <2>8. op' # op
      OBVIOUS
    <2> QED
      BY <1>3, <2>1, <2>2, <2>3, <2>4, <2>5, <2>6, <2>7, <2>8 DEF QuiescenceNext,
         QuiescenceStep, ProcessStep, TransferStep, Enter, Settle, Lookup, Stop,
         Create, Export, Cleanup, Resettle, Restop, Start, SignReceipt, Decide,
         KopiaEnds, Crash, LateStop
  <1> QED
    BY <1>2, <1>3

-----------------------------------------------------------------------------
(* Containers: the hold of a migration.                                    *)

\* The journals know an outcome "stopped" from the destination alone.
OutcomeKnown ==
    /\ op.journal.outcome = "stopped" => destination = "stopped"
    /\ run.journal.outcome = "stopped" => destination = "stopped"

\* The destination decides on a receipt, whose hold lasts until it has stopped.
ReceiptHeld ==
    /\ destination # "none" => receipt
    /\ receipt /\ destination # "stopped" => op.journal.hold

\* A hold is recorded over a stopped source, and no process works on it before
\* the destination has stopped.
HeldAlone ==
    /\ At("hold") => op.journal.set \cap running = {}
    /\ op.journal.hold /\ destination # "stopped" =>
          run = Idle /\ op.journal.set \cap running = {}

TransferInv == OutcomeKnown /\ ReceiptHeld /\ HeldAlone

\* No write of a hold is installed and reported as failed.
HoldsConfirmed == "hold" \notin Unconfirmed

(* The outcome an ended process remembers is none.                           *)
LEMMA IdleOutcome == Idle.step = "idle" /\ Idle.journal.outcome = "none"
  BY DEF Idle, FreshJournal

(* A process at work has no hold to respect, so it disturbs only one that it *)
(* records itself.                                                           *)
LEMMA ProcessTransfer ==
  ASSUME TransferInv, ~At("idle"), UNCHANGED transfer,
         \/ op'.journal = op.journal
         \/ /\ op'.journal.outcome = run.journal.outcome
            /\ ~op'.journal.hold \/ (run' = Idle /\ op'.journal.set \cap running' = {}),
         run'.journal.outcome \in {run.journal.outcome, "none"},
         run'.step = "hold" => op'.journal.set \cap running' = {}
  PROVE  TransferInv'
  <1>1. run # Idle
    BY IdleOutcome DEF At
  <1>2. UNCHANGED <<receipt, destination>>
    BY DEF transfer
  <1> QED
    BY <1>1, <1>2 DEF TransferInv, OutcomeKnown, ReceiptHeld, HeldAlone, At

(* A process that fails does not hold.                                       *)
LEMMA FailOutcome ==
  ASSUME run \in RunType, NEW j \in Journal, FailWith(j),
         j.outcome = run.journal.outcome
  PROVE  /\ run'.journal.outcome \in {run.journal.outcome, "none"}
         /\ run'.step # "hold"
  BY FailsWith, IdleOutcome

(* A step of a process that leaves the record alone.                         *)
LEMMA QuietTransfer ==
  ASSUME TransferInv, ~At("idle"), UNCHANGED <<op, transfer>>,
         run'.journal.outcome \in {run.journal.outcome, "none"}, run'.step # "hold"
  PROVE  TransferInv'
  BY ProcessTransfer DEF transfer

(* A record of a phase takes a forgotten hold out of the file.               *)
LEMMA PersistTransfer ==
  ASSUME QuiescenceInv, TransferInv, ~At("idle"), UNCHANGED transfer,
         NEW p \in Phase, NEW s \in Step \ {"hold"}, PersistPhase(p, s)
  PROVE  TransferInv'
  <1> DEFINE j == [run.journal EXCEPT !.phase = p]
  <1>1. run \in RunType /\ run.journal \in Journal /\ ~run.journal.hold
    BY DEF QuiescenceInv, RunInv, ProcessFollows, RunType
  <1>2. j \in Journal /\ ~j.hold /\ j.outcome = run.journal.outcome
    BY <1>1 DEF Journal
  <1>3. op \in OpType
    BY DEF QuiescenceInv, WorldInv, WorldTypeOK
  <1>4. /\ op'.journal \in {op.journal, j}
        /\ run' = [run EXCEPT !.step = s, !.journal = j] \/ FailWith(j)
    BY <1>3 DEF PersistPhase, Persist, OpType
  <1> HIDE DEF j
  <1>5. run'.journal.outcome \in {run.journal.outcome, "none"} /\ run'.step # "hold"
    BY <1>1, <1>2, <1>4, FailOutcome DEF RunType
  <1> QED
    BY <1>2, <1>4, <1>5, ProcessTransfer

(* The steps of a process keep the transfer's part, the record of the hold   *)
(* included when its write is confirmed or refused.                          *)
LEMMA ProcessKeepsTransfer ==
  ASSUME QuiescenceInv, TransferInv, ProcessStep, HoldsConfirmed
  PROVE  TransferInv'
  <1>1. /\ run \in RunType /\ run.journal \in Journal
        /\ ~At("idle") => ~run.journal.hold /\ run.journal.set = op.journal.set
    BY DEF QuiescenceInv, RunInv, ProcessFollows, RunType
  <1>2. op \in OpType /\ op.journal \in Journal
    BY DEF QuiescenceInv, WorldInv, WorldTypeOK, OpType
  <1>3. ASSUME NEW s \in Step, Go(s)
        PROVE  run'.journal = run.journal /\ run'.step = s
    BY <1>1, <1>3, StepTo DEF Go
  <1>4. Fail => run'.journal.outcome \in {run.journal.outcome, "none"} /\ run'.step # "hold"
    BY <1>1, FailOutcome DEF Fail
  <1>5. run' = Idle => run'.journal.outcome = "none" /\ run'.step = "idle"
    BY IdleOutcome
  <1>6. CASE Enter
    <2>1. run'.journal.outcome \in {run.journal.outcome, "none"} /\ run'.step # "hold"
      BY <1>3, <1>4, <1>6 DEF Enter, Step
    <2> QED
      BY <1>6, <2>1, QuietTransfer DEF Enter, At
  <1>7. CASE Settle
    <2>1. run'.journal.outcome \in {run.journal.outcome, "none"} /\ run'.step # "hold"
      BY <1>1, <1>5, <1>7 DEF Settle, RunType
    <2> QED
      BY <1>7, <2>1, QuietTransfer DEF Settle, At
  <1>8. CASE Lookup
    <2>1. AfterLookup \in {"cleanup", "prepare", "stop", "reprepare"}
      <3>1. CASE stored
        BY <3>1 DEF AfterLookup
      <3>2. CASE ~stored
        BY <3>2 DEF AfterLookup
      <3> QED
        BY <3>1, <3>2
    <2>2. run'.journal.outcome \in {run.journal.outcome, "none"} /\ run'.step # "hold"
      BY <1>3, <1>4, <1>8, <2>1 DEF Lookup, Step
    <2> QED
      BY <1>8, <2>2, QuietTransfer DEF Lookup, At
  <1>9. CASE Prepare
    <2> DEFINE j == [run.journal EXCEPT !.phase = "prepared", !.set = running]
    <2>1. j.outcome = run.journal.outcome /\ ~j.hold
      BY <1>1, <1>9 DEF Journal, Prepare, At
    <2>2. /\ op'.journal \in {op.journal, j}
          /\ run' = [run EXCEPT !.step = "stop", !.journal = j] \/ run' = Idle
      BY <1>2, <1>9 DEF Prepare, Persist, OpType
    <2> HIDE DEF j
    <2>3. run'.journal.outcome \in {run.journal.outcome, "none"} /\ run'.step # "hold"
      BY <1>1, <1>5, <2>1, <2>2 DEF RunType
    <2> QED
      BY <1>9, <2>1, <2>2, <2>3, ProcessTransfer DEF Prepare, At
  <1>10. CASE Reprepare
    BY <1>10, PersistTransfer DEF Reprepare, At, Phase, Step
  <1>11. CASE Stop
    <2>1. run'.journal.outcome \in {run.journal.outcome, "none"} /\ run'.step # "hold"
      <3>1. Go("verify") \/ UNCHANGED run \/ Fail
        BY <1>11 DEF Stop, StopContainer, StopUnclean
      <3> QED
        BY <1>3, <1>4, <1>11, <3>1 DEF Stop, At, Step
    <2> QED
      BY <1>11, <2>1, QuietTransfer DEF Stop, At
  <1>12. CASE Verify
    <2>1. CASE running = {}
      BY <1>12, <2>1, PersistTransfer DEF Verify, At, Phase, Step
    <2>2. CASE running # {}
      BY <1>4, <1>12, <2>2, QuietTransfer DEF Verify, At
    <2> QED
      BY <2>1, <2>2
  <1>13. CASE Create
    <2>1. run'.journal.outcome \in {run.journal.outcome, "none"} /\ run'.step # "hold"
      BY <1>1, <1>13 DEF Create, RunType
    <2> QED
      BY <1>13, <2>1, QuietTransfer DEF Create, At
  <1>14. CASE Finalize
    <2>1. CASE stored
      BY <1>14, <2>1, PersistTransfer DEF Finalize, At, Phase, Step
    <2>2. CASE ~stored
      BY <1>4, <1>14, <2>2, QuietTransfer DEF Finalize, At
    <2> QED
      BY <2>1, <2>2
  <1>15. CASE Export
    <2>1. UNCHANGED <<op, running>> /\ ~At("idle")
      BY <1>15 DEF Export, world, At
    <2>2. CASE Fail
      BY <1>4, <1>15, <2>1, <2>2, QuietTransfer DEF Export
    <2>3. CASE /\ ~(run.mode = "migrate" /\ run.journal.set \cap running # {})
               /\ Go(IF run.mode = "migrate" THEN "hold" ELSE "cleanup")
      <3>1. /\ run'.journal = run.journal
            /\ run'.step = "hold" => run.mode = "migrate"
        BY <1>3, <2>3 DEF Step
      <3>2. run'.step = "hold" => op'.journal.set \cap running' = {}
        BY <1>1, <2>1, <2>3, <3>1
      <3> QED
        BY <1>15, <2>1, <3>1, <3>2, ProcessTransfer DEF Export
    <2> QED
      BY <1>15, <2>2, <2>3 DEF Export
  <1>16. CASE Hold
    <2> DEFINE j == [run.journal EXCEPT !.hold = TRUE]
    <2>1. j.outcome = run.journal.outcome /\ j.set = op.journal.set
      BY <1>1, <1>16 DEF Journal, Hold, At
    <2>2. \/ op' = [op EXCEPT !.journal = j] /\ run' = Idle
          \/ UNCHANGED op /\ Fail
      BY <1>16 DEF Hold, Persist, HoldsConfirmed
    <2>3. \/ op'.journal = j /\ run' = Idle
          \/ op'.journal = op.journal /\ Fail
      <3>1. op' = [op EXCEPT !.journal = j] => op'.journal = j
        BY <1>2 DEF OpType
      <3> HIDE DEF j
      <3> QED
        BY <2>2, <3>1
    <2>4. op.journal.set \cap running' = {}
      BY <1>16 DEF TransferInv, HeldAlone, Hold, world
    <2> HIDE DEF j
    <2> QED
      BY <1>4, <1>5, <1>16, <2>1, <2>3, <2>4, ProcessTransfer DEF Hold, At
  <1>17. CASE Cleanup
    <2>1. run'.journal.outcome \in {run.journal.outcome, "none"} /\ run'.step # "hold"
      BY <1>1, <1>17 DEF Cleanup, Go, RunType
    <2> QED
      BY <1>17, <2>1, QuietTransfer DEF Cleanup, At
  <1>18. CASE Resettle
    <2>1. run'.journal.outcome \in {run.journal.outcome, "none"} /\ run'.step # "hold"
      BY <1>1, <1>5, <1>18 DEF Resettle, RunType
    <2> QED
      BY <1>18, <2>1, QuietTransfer DEF Resettle, At
  <1>19. CASE Restop
    <2>1. run'.journal.outcome \in {run.journal.outcome, "none"} /\ run'.step # "hold"
      <3>1. Go("start") \/ UNCHANGED run \/ run' = Idle
        BY <1>19 DEF Restop
      <3> QED
        BY <1>3, <1>5, <1>19, <3>1 DEF Restop, At, Step
    <2> QED
      BY <1>19, <2>1, QuietTransfer DEF Restop, At
  <1>20. CASE Start
    <2>1. run'.journal.outcome \in {run.journal.outcome, "none"} /\ run'.step # "hold"
      <3>1. Go("restore") \/ UNCHANGED run \/ run' = Idle
        BY <1>20 DEF Start
      <3> QED
        BY <1>3, <1>5, <1>20, <3>1 DEF Start, At, Step
    <2> QED
      BY <1>20, <2>1, QuietTransfer DEF Start, At
  <1>21. CASE Restore
    <2> DEFINE j == [run.journal EXCEPT !.phase = "restored"]
    <2>1. j.outcome = run.journal.outcome /\ ~j.hold
      BY <1>1, <1>21 DEF Journal, Restore, At
    <2>2. /\ op'.journal \in {op.journal, j}
          /\ run' = [run EXCEPT !.step = "complete", !.journal = j] \/ run' = Idle
      BY <1>2, <1>21 DEF Restore, Persist, OpType
    <2> HIDE DEF j
    <2>3. run'.journal.outcome \in {run.journal.outcome, "none"} /\ run'.step # "hold"
      BY <1>1, <1>5, <2>1, <2>2 DEF RunType
    <2> QED
      BY <1>21, <2>1, <2>2, <2>3, ProcessTransfer DEF Restore, At
  <1>22. CASE Complete
    <2>1. op'.journal = op.journal
      BY <1>2, <1>22 DEF Complete, OpType
    <2> QED
      BY <1>5, <1>22, <2>1, ProcessTransfer DEF Complete, At
  <1> QED
    BY <1>6, <1>7, <1>8, <1>9, <1>10, <1>11, <1>12, <1>13, <1>14, <1>15, <1>16, <1>17,
       <1>18, <1>19, <1>20, <1>21, <1>22 DEF ProcessStep

(* A command enters only an operation that holds nothing, or whose           *)
(* destination has stopped.                                                  *)
LEMMA RunKeepsTransfer ==
  ASSUME QuiescenceInv, TransferInv, NEW m \in Mode, Run(m)
  PROVE  TransferInv'
  <1>1. op \in OpType /\ op.journal \in Journal
    BY DEF QuiescenceInv, WorldInv, WorldTypeOK, OpType
  <1>2. op'.journal = op.journal /\ UNCHANGED <<running, receipt, destination>>
    BY <1>1 DEF Run, OpType, world, transfer
  <1>3. run'.step = "enter" /\ run'.journal.outcome = op.journal.outcome
    BY <1>1 DEF Run, Idle, Journal
  <1>4. op.journal.hold => destination = "stopped"
    BY DEF Run, Resumable, TransferInv, OutcomeKnown
  <1> QED
    BY <1>2, <1>3, <1>4 DEF TransferInv, OutcomeKnown, ReceiptHeld, HeldAlone, At

(* The transfer of a held source.                                            *)
LEMMA TransferKeepsTransfer ==
  ASSUME QuiescenceInv, TransferInv, TransferStep
  PROVE  TransferInv'
  <1>1. op \in OpType /\ op.journal \in Journal
    BY DEF QuiescenceInv, WorldInv, WorldTypeOK, OpType
  <1>2. UNCHANGED <<run, running>>
    BY DEF TransferStep, SignReceipt, Decide, RecordApplicationTransferOutcome,
           PrepareApplicationTransferRetirement,
           CompleteApplicationTransferRetirement, world
  <1>3. CASE SignReceipt
    BY <1>2, <1>3 DEF SignReceipt, TransferInv, OutcomeKnown, ReceiptHeld, HeldAlone, At
  <1>4. ASSUME NEW d \in {"activated", "stopped"}, Decide(d)
        PROVE  TransferInv'
    BY <1>2, <1>4 DEF Decide, TransferInv, OutcomeKnown, ReceiptHeld, HeldAlone, At
  <1>5. CASE RecordApplicationTransferOutcome
    <2>1. /\ op'.journal.outcome = destination
          /\ op'.journal.hold = op.journal.hold /\ op'.journal.set = op.journal.set
          /\ UNCHANGED <<receipt, destination>>
      BY <1>1, <1>5 DEF RecordApplicationTransferOutcome, OpType, Journal, transfer
    <2> QED
      BY <1>2, <2>1 DEF TransferInv, OutcomeKnown, ReceiptHeld, HeldAlone, At
  <1>6. CASE PrepareApplicationTransferRetirement \/ CompleteApplicationTransferRetirement
    <2>1. /\ op'.journal.outcome = op.journal.outcome
          /\ op'.journal.hold = op.journal.hold /\ op'.journal.set = op.journal.set
      <3>1. CASE op' = [op EXCEPT !.journal.planned = TRUE]
        BY <1>1, <3>1 DEF OpType, Journal
      <3>2. CASE op' = [op EXCEPT !.state = "transferred",
                                  !.journal.phase = "transfer-retired"]
        BY <1>1, <3>2 DEF OpType, Journal
      <3> QED
        BY <1>6, <3>1, <3>2 DEF PrepareApplicationTransferRetirement,
           CompleteApplicationTransferRetirement
    <2>2. UNCHANGED <<receipt, destination>>
      BY <1>6 DEF PrepareApplicationTransferRetirement,
         CompleteApplicationTransferRetirement, transfer
    <2> QED
      BY <1>2, <2>1, <2>2 DEF TransferInv, OutcomeKnown, ReceiptHeld, HeldAlone, At
  <1> QED
    BY <1>3, <1>4, <1>5, <1>6 DEF TransferStep

(* Every step keeps the transfer's part.                                     *)
LEMMA TransferInvNext ==
  ASSUME QuiescenceInv, TransferInv, QuiescenceNext, HoldsConfirmed
  PROVE  TransferInv'
  <1>1. ASSUME NEW m \in Mode, Run(m)
        PROVE  TransferInv'
    BY <1>1, RunKeepsTransfer
  <1>2. CASE ProcessStep
    BY <1>2, ProcessKeepsTransfer
  <1>3. CASE TransferStep
    BY <1>3, TransferKeepsTransfer
  <1>4. CASE KopiaEnds
    BY <1>4 DEF KopiaEnds, transfer, TransferInv, OutcomeKnown, ReceiptHeld, HeldAlone, At
  <1>5. CASE Crash
    <2>1. ~At("idle")
      BY <1>5 DEF Crash, QuiescenceInv, RunInv, ProcessFollows
    <2> QED
      BY <1>5, <2>1, IdleOutcome, QuietTransfer DEF Crash
  <1>6. ASSUME NEW w \in Writer, LateStop(w)
        PROVE  TransferInv'
    <2>1. /\ UNCHANGED <<op, run, receipt, destination>>
          /\ running' \in SUBSET running
      BY <1>6 DEF LateStop, transfer
    <2> QED
      BY <2>1 DEF TransferInv, OutcomeKnown, ReceiptHeld, HeldAlone, At
  <1> QED
    BY <1>1, <1>2, <1>3, <1>4, <1>5, <1>6 DEF QuiescenceNext, QuiescenceStep

-----------------------------------------------------------------------------
(* A native group: the inductive invariant.                                *)

RecordType == [state : {"absent", "pending", "completed", "failed"},
               q : Quiescence, closed : BOOLEAN]

WorkerType == [step : GroupStep, q : Quiescence,
               next : {"decide", "advanced", "resuming"},
               action : GroupAction, armed : BOOLEAN, attempted : BOOLEAN,
               settled : BOOLEAN, failed : BOOLEAN]

NativeType == [group : {"running", "partial", "down"}, hold : BOOLEAN,
               touched : BOOLEAN,
               outer : {"none", "dormant", "running", "ended"},
               row : {"none", "accepted", "claimed", "acting", "ok",
                      "inert", "closed", "cancelled"}]

HostTypeOK ==
    /\ record \in RecordType /\ native \in NativeType
    /\ helper \in {"idle", "capturing"} /\ saved \in BOOLEAN
    /\ mishaps \in 0..MaxMishaps
    /\ Len(record.q.effects) <= EffectLimit

Power(a) == IF controlStarts(a) THEN "running" ELSE "down"

\* The group is as the last of the effects I left it, and runs when there is none.
Says(g, s, I) ==
    /\ I = {} => g = "running"
    /\ \A i \in I : (\A k \in I : k <= i) /\ s[i].state = "observed"
                      => g = Power(s[i].action)

\* The effects before the latest one.
Earlier(s) == Counting(s) \ {Len(s)}

\* What a journal of effects proves of the group: the latest effect decides
\* once the manager acted, and until then the earlier ones do.
EffectsSay(g, row, s) ==
    LET e == Latest(s)
    IN  s # <<>> =>
          /\ e.state \in {"preparing", "prepared"} => Says(g, s, Earlier(s))
          /\ e.state = "dispatched" =>
               /\ row \in {"none", "accepted", "claimed", "inert", "cancelled"}
                    => Says(g, s, Earlier(s))
               /\ row = "ok" => g = Power(e.action)
          /\ e.state \in {"adopted", "observed"} => g = Power(e.action)
          /\ e.state \in {"negative-adopted", "failed"} /\ e.outcome = "inert"
               => Says(g, s, Earlier(s))

PowerKnown == EffectsSay(native.group, native.row, record.q.effects)

\* Before any effect, the group is as it was captured unless it was touched.
CaptureKnown ==
    /\ record.q.phase = "" => record.q = Rest.q /\ ~native.hold
    /\ record.q.effects = <<>> => native.group \in {"running", "down"}
    /\ record.q.effects = <<>> /\ record.q.phase # "" /\ ~native.touched
         => native.group = IF record.q.initial THEN "running" ELSE "down"

\* Effects are of a group that ran, under the hold.
EffectsHeld ==
    record.q.effects # <<>> =>
        /\ record.q.initial
        /\ record.state \in {"absent", "pending"} => native.hold /\ ~native.touched

\* A submission that was not dispatched has no row.
RowFollows == native.outer \in {"none", "dormant"} => native.row = "none"

\* The journal of a group that is stopped: it never ran, or its stop is observed.
StopObserved(q) ==
    IF q.initial THEN /\ q.effects # <<>>
                      /\ Latest(q.effects).action = "stop"
                      /\ Latest(q.effects).state = "observed"
    ELSE q.effects = <<>>

\* A helper works on a held, stopped group.
HelperKnown ==
    helper = "capturing" =>
        /\ native.group = "down" /\ native.hold /\ ~native.touched
        /\ record.state = "pending" /\ record.q.phase = "stopped"
        /\ StopObserved(record.q)

HostInv ==
    /\ HostTypeOK
    /\ PowerKnown
    /\ CaptureKnown
    /\ EffectsHeld
    /\ RowFollows
    /\ CommandFenced
    /\ HelperKnown

\* The record is one write ahead of the process, when a write failed after it
\* was installed.
Ahead(s, t) ==
    \/ ~Unsettled(s) /\ \E a \in GroupAction : t = Append(s, Intent(a))
    \/ /\ s # <<>> /\ Len(t) = Len(s)
       /\ \A i \in 1..(Len(s) - 1) : t[i] = s[i]
       /\ Latest(t).action = Latest(s).action
       /\ <<Latest(s).state, Latest(t).state>> \in EffectSteps

\* The steps of an AdvanceAppGroup that has recorded its intent.
Advancing ==
    \/ worker.step \in {"prepare", "prepared", "dispatched", "dispatch", "advanced"}
    \/ worker.step \in {"settle", "cancel"} /\ worker.next = "advanced"

\* The steps before the process has its deferred cleanup.
Opening ==
    \/ worker.step \in {"capture", "hold", "decide"}
    \/ worker.step \in {"settle", "cancel"} /\ worker.next = "decide"

\* The steps between that and the answer of CreateSnapshot.
Stopping ==
    \/ worker.step \in {"find", "core-stop", "stopped", "create", "created"}
    \/ (worker.step = "advance" \/ Advancing) /\ worker.action = "stop"

\* A process whose writes were all confirmed has the record's journal.
JournalSame ==
    /\ worker.step \notin {"rest", "fail", "close", "cleanup", "settle-helper",
                           "resuming", "settle", "cancel"} => worker.q = record.q
    /\ worker.step \in {"settle", "cancel"} /\ worker.next # "resuming"
         => worker.q = record.q
    /\ worker.step \in {"cleanup", "settle-helper", "resuming", "settle", "cancel"}
         => worker.q.initial = record.q.initial /\ worker.q.phase # ""
    /\ worker.step \in {"cleanup", "settle-helper", "resuming", "settle"} =>
         \/ worker.q.effects = record.q.effects
         \/ helper = "idle" /\ Ahead(worker.q.effects, record.q.effects)
    /\ Doing("cancel") => worker.q.effects = record.q.effects

\* Where the operation and the manager stand by the time of a step.
StepHeld ==
    /\ worker.step \notin {"rest", "close"} => record.state = "pending"
    /\ Doing("close") => record.state \in {"completed", "failed"}
    /\ worker.step \notin {"rest", "capture", "hold", "fail", "close"}
         => native.hold /\ ~native.touched
    /\ Doing("capture") => record.q.phase = ""
    /\ Doing("hold") => record.q.phase # ""
    /\ Opening => ~worker.armed /\ ~worker.settled
    /\ Stopping => worker.armed /\ ~worker.settled
    /\ worker.step \in {"prepared", "dispatched", "dispatch"} => native.outer = "dormant"
    /\ Doing("cancel") => native.outer = "ended"
    /\ Doing("settle-helper") => worker.next = "resuming"

\* The latest effect by the time of a step.
StepEffect ==
    LET s == worker.q.effects
    IN  /\ Doing("advance") => worker.q.initial
        /\ Advancing => s # <<>> /\ Latest(s).action = worker.action
        /\ worker.step \in {"prepare", "prepared"} => Latest(s).state = "preparing"
        /\ Doing("dispatched") => Latest(s).state = "prepared"
        /\ Doing("dispatch") => Latest(s).state = "dispatched"
        /\ Doing("cancel") => s # <<>> /\ Latest(s).state = "dispatched"
        /\ Doing("advanced") => ~Unsettled(s)
        /\ worker.step \in {"stopped", "create"} => StopObserved(worker.q)
        /\ Doing("create") => worker.q.phase = "stopped"

\* No process passes a working helper by: its cleanup settles it.
HelperWatched ==
    helper = "capturing" =>
        /\ worker.step \in {"rest", "hold", "settle", "decide", "find", "core-stop",
                            "advance", "stopped", "create", "created", "cleanup",
                            "settle-helper", "fail"}
        /\ Doing("settle") => worker.next = "decide"
        /\ Doing("advance") => worker.action = "stop"
        /\ worker.step \in {"find", "core-stop", "advance", "stopped", "create",
                            "created", "cleanup", "settle-helper"}
             => worker.attempted /\ ~worker.settled

WorkerInv ==
    /\ worker \in WorkerType
    /\ JournalSame
    /\ StepHeld
    /\ StepEffect
    /\ HelperWatched

GroupInv == HostInv /\ WorkerInv

-----------------------------------------------------------------------------
(* A native group: what the effects say.                                   *)

(* The latest effect of a journal of effects.                                *)
LEMMA LatestType ==
  ASSUME NEW s \in Seq(Effect), s # <<>>
  PROVE  /\ Len(s) \in Nat \ {0} /\ Len(s) \in DOMAIN s /\ DOMAIN s = 1..Len(s)
         /\ Latest(s) = s[Len(s)] /\ Latest(s) \in Effect
         /\ Latest(s).action \in GroupAction /\ Latest(s).state \in EffectState
  <1>1. Len(s) \in Nat \ {0} /\ Len(s) \in DOMAIN s /\ DOMAIN s = 1..Len(s)
    OBVIOUS
  <1>2. Latest(s) = s[Len(s)] /\ Latest(s) \in Effect
    BY <1>1 DEF Latest
  <1> QED
    BY <1>1, <1>2 DEF Effect

\* The journal q with the intent of a appended.
WithIntent(q, a) == [q EXCEPT !.effects = Append(q.effects, Intent(a))]

(* An intent is appended.                                                    *)
LEMMA IntentAppended ==
  ASSUME NEW q \in Quiescence, NEW a \in GroupAction
  PROVE  /\ WithIntent(q, a) \in Quiescence
         /\ WithIntent(q, a).phase = q.phase /\ WithIntent(q, a).initial = q.initial
         /\ WithIntent(q, a).effects = Append(q.effects, Intent(a))
         /\ WithIntent(q, a).effects # <<>>
         /\ Len(WithIntent(q, a).effects) = Len(q.effects) + 1
         /\ \A i \in 1..Len(q.effects) : WithIntent(q, a).effects[i] = q.effects[i]
         /\ Latest(WithIntent(q, a).effects) = Intent(a)
  <1>1. Intent(a) \in Effect
    BY DEF Intent, Effect, EffectState, Outcome
  <1>2. q.effects \in Seq(Effect)
    BY DEF Quiescence
  <1> DEFINE u == Append(q.effects, Intent(a))
             t == WithIntent(q, a)
  <1>3. /\ u \in Seq(Effect) /\ Len(u) = Len(q.effects) + 1 /\ u # <<>>
        /\ \A i \in 1..Len(q.effects) : u[i] = q.effects[i]
        /\ u[Len(u)] = Intent(a)
    BY <1>1, <1>2
  <1> HIDE DEF u
  <1>4. t = [q EXCEPT !.effects = u]
    BY DEF u, WithIntent
  <1> HIDE DEF t
  <1>5. /\ t \in Quiescence /\ t.phase = q.phase /\ t.initial = q.initial
        /\ t.effects = u
    BY <1>3, <1>4 DEF Quiescence
  <1> QED
    BY <1>3, <1>5 DEF Latest, u, t

(* The journal q with the state st and the outcome oc in its latest effect.  *)
WithLatest(q, st, oc) ==
    [q EXCEPT !.effects[Len(q.effects)].state = st,
              !.effects[Len(q.effects)].outcome = oc]

(* The latest effect takes a step.                                           *)
LEMMA LatestWritten ==
  ASSUME NEW q \in Quiescence, q.effects # <<>>, NEW st \in EffectState,
         NEW oc \in Outcome
  PROVE  LET t == WithLatest(q, st, oc)
         IN
         /\ t \in Quiescence /\ t.phase = q.phase /\ t.initial = q.initial
         /\ t.effects # <<>> /\ Len(t.effects) = Len(q.effects)
         /\ \A i \in 1..(Len(q.effects) - 1) : t.effects[i] = q.effects[i]
         /\ Latest(t.effects) = [action |-> Latest(q.effects).action,
                                 state |-> st, outcome |-> oc]
  <1> DEFINE t == WithLatest(q, st, oc)
  <1>1. q.effects \in Seq(Effect)
    BY DEF Quiescence
  <1> DEFINE s == q.effects
             n == Len(s)
             e == [action |-> s[n].action, state |-> st, outcome |-> oc]
             u == [s EXCEPT ![n] = e]
  <1>2. n \in Nat \ {0} /\ s[n] \in Effect /\ DOMAIN s = 1..n /\ n \in DOMAIN s
    BY <1>1
  <1>3. e \in Effect /\ e = [[s[n] EXCEPT !.state = st] EXCEPT !.outcome = oc]
    <2>1. ASSUME NEW d \in Effect
          PROVE  [action |-> d.action, state |-> st, outcome |-> oc]
                   = [[d EXCEPT !.state = st] EXCEPT !.outcome = oc]
      <3>1. DOMAIN d = {"action", "state", "outcome"}
        BY DEF Effect
      <3> DEFINE g == [[d EXCEPT !.state = st] EXCEPT !.outcome = oc]
      <3>3. g.action = d.action /\ g.state = st /\ g.outcome = oc
        BY <3>1
      <3>4. g \in Effect
        BY DEF Effect
      <3> HIDE DEF g
      <3>5. g = [action |-> g.action, state |-> g.state, outcome |-> g.outcome]
        BY <3>4 DEF Effect
      <3> QED
        BY <3>3, <3>5 DEF g
    <2>2. e \in Effect
      BY <1>2 DEF Effect
    <2> QED
      BY <1>2, <2>1, <2>2
  <1>4. t = [q EXCEPT !.effects = u]
    <2>1. t = [q EXCEPT !.effects = [[s EXCEPT ![n].state = st] EXCEPT ![n].outcome = oc]]
      BY DEF Quiescence, WithLatest
    <2>2. [[s EXCEPT ![n].state = st] EXCEPT ![n].outcome = oc] = u
      BY <1>1, <1>2, <1>3
    <2> QED
      BY <2>1, <2>2
  <1>5. /\ u \in Seq(Effect) /\ Len(u) = n /\ u # <<>> /\ u[n] = e
        /\ \A i \in 1..(n - 1) : u[i] = s[i]
    BY <1>1, <1>2, <1>3
  <1> HIDE DEF u
  <1>6. /\ t \in Quiescence /\ t.phase = q.phase /\ t.initial = q.initial
        /\ t.effects = u
    BY <1>4, <1>5 DEF Quiescence
  <1> QED
    BY <1>5, <1>6 DEF Latest

(* A settled journal decides the power by all its effects.                   *)
LEMMA SettledSays ==
  ASSUME NEW g, NEW row, NEW s \in Seq(Effect), ~Unsettled(s), EffectsSay(g, row, s),
         s = <<>> => g = "running"
  PROVE  Says(g, s, Counting(s))
  <1>1. CASE s = <<>>
    <2>1. Counting(s) = {}
      BY <1>1 DEF Counting
    <2> QED
      BY <1>1, <2>1 DEF Says
  <1>2. CASE s # <<>>
    <2>1. /\ Len(s) \in Nat /\ Len(s) \in DOMAIN s /\ DOMAIN s = 1..Len(s)
          /\ Latest(s) = s[Len(s)]
      BY <1>2, LatestType
    <2>2. Counting(s) \subseteq 1..Len(s)
      BY <2>1 DEF Counting
    <2>3. CASE Latest(s).state = "observed"
      <3>1. Len(s) \in Counting(s)
        BY <2>1, <2>3 DEF Counting
      <3>2. \A i \in Counting(s) : (\A k \in Counting(s) : k <= i) => i = Len(s)
        BY <2>1, <2>2, <3>1
      <3> QED
        BY <1>2, <2>1, <2>3, <3>1, <3>2 DEF Says, EffectsSay
    <2>4. CASE Latest(s).state = "failed" /\ Latest(s).outcome = "inert"
      <3>1. Earlier(s) = Counting(s)
        BY <2>1, <2>4 DEF Counting, Earlier
      <3> QED
        BY <1>2, <2>4, <3>1 DEF EffectsSay
    <2>5. CASE Latest(s).state = "failed" /\ Latest(s).outcome # "inert"
      <3>1. Len(s) \in Counting(s)
        BY <2>1, <2>5 DEF Counting
      <3>2. \A i \in Counting(s) : (\A k \in Counting(s) : k <= i) => i = Len(s)
        BY <2>1, <2>2, <3>1
      <3> QED
        BY <2>1, <2>5, <3>1, <3>2 DEF Says
    <2> QED
      BY <1>2, <2>3, <2>4, <2>5 DEF Unsettled, EffectSettled
  <1> QED
    BY <1>1, <1>2

(* A new intent leaves the power to the earlier effects.                     *)
LEMMA IntentSays ==
  ASSUME NEW g, NEW s \in Seq(Effect), NEW t \in Seq(Effect), Len(t) = Len(s) + 1,
         \A i \in 1..Len(s) : t[i] = s[i], Says(g, s, Counting(s))
  PROVE  Says(g, t, Earlier(t))
  <1>1. Len(s) \in Nat /\ DOMAIN s = 1..Len(s) /\ DOMAIN t = 1..(Len(s) + 1)
    OBVIOUS
  <1>2. Earlier(t) = Counting(s)
    BY <1>1 DEF Earlier, Counting
  <1>3. \A i \in Counting(s) : t[i] = s[i]
    BY <1>1 DEF Counting
  <1> QED
    BY <1>2, <1>3 DEF Says

(* Every position but the last is before it.                                 *)
LEMMA BeforeLast ==
  ASSUME NEW n \in Nat
  PROVE  \A i \in 1..n : i # n => i \in 1..(n - 1)
  OBVIOUS

(* A step of the latest effect leaves the earlier ones alone.                *)
LEMMA EarlierSays ==
  ASSUME NEW g, NEW s \in Seq(Effect), NEW t \in Seq(Effect), Len(t) = Len(s),
         \A i \in 1..(Len(s) - 1) : t[i] = s[i], Says(g, s, Earlier(s))
  PROVE  Says(g, t, Earlier(t))
  <1>1. Len(s) \in Nat /\ DOMAIN s = 1..Len(s) /\ DOMAIN t = 1..Len(s)
    OBVIOUS
  <1>2. \A i \in 1..Len(s) : i # Len(s) => i \in 1..(Len(s) - 1)
    BY <1>1, BeforeLast
  <1>3. Earlier(t) = Earlier(s)
    <2>1. \A i \in 1..Len(s) : i # Len(s) => t[i] = s[i]
      BY <1>1, <1>2
    <2> QED
      BY <1>1, <2>1 DEF Earlier, Counting
  <1>4. \A i \in Earlier(s) : t[i] = s[i]
    BY <1>1, <1>2 DEF Earlier, Counting
  <1> QED
    BY <1>3, <1>4 DEF Says

(* Some effect that counts is the latest.                                    *)
LEMMA LatestCountingIs ==
  ASSUME NEW s \in Seq(Effect), Counting(s) # {}
  PROVE  \E i \in Counting(s) : \A k \in Counting(s) : k <= i
  <1>1. Len(s) \in Nat /\ Counting(s) \subseteq 1..Len(s)
    BY DEF Counting
  <1> DEFINE T == {Len(s) - i : i \in Counting(s)}
  <1>2. T \subseteq Nat /\ T # {}
    BY <1>1
  <1>3. \E c \in T : \A d \in T : c <= d
    <2> HIDE DEF T
    <2> QED
      BY <1>2, LeastNat
  <1>4. PICK i \in Counting(s) : \A d \in T : Len(s) - i <= d
    BY <1>3
  <1>5. ASSUME NEW k \in Counting(s)
        PROVE  k <= i
    <2>1. Len(s) - i <= Len(s) - k
      BY <1>4
    <2>2. Len(s) \in Int /\ i \in Int /\ k \in Int
      BY <1>1
    <2> HIDE DEF T
    <2> QED
      BY <2>1, <2>2
  <1> QED
    BY <1>5

(* What stopped and restored mean for the group.                             *)
LEMMA JournalTrue ==
  ASSUME NEW g, NEW q \in Quiescence, q.initial, Says(g, q.effects, Counting(q.effects))
  PROVE  /\ AppGroupStopped(q) => g = "down"
         /\ AppGroupRestored(q) => g = "running"
  <1>1. q.effects \in Seq(Effect)
    BY DEF Quiescence
  <1> DEFINE s == q.effects
             I == Counting(s)
             J == {j \in I : \A k \in I : k <= j}
  <1>2. LatestCounting(s) = {s[i] : i \in J}
    BY DEF LatestCounting
  <1>3. AppGroupStopped(q) => \E i \in J : s[i].state = "observed" /\ ~controlStarts(s[i].action)
    BY <1>2 DEF AppGroupStopped
  <1>4. AppGroupRestored(q) => \A i \in J : s[i].state = "observed" /\ controlStarts(s[i].action)
    BY <1>2 DEF AppGroupRestored
  <1>5. \A i \in J : s[i].state = "observed" => g = Power(s[i].action)
    BY DEF Says
  <1>6. I = {} => g = "running"
    BY DEF Says
  <1>7. I # {} => J # {}
    BY <1>1, LatestCountingIs
  <1> QED
    BY <1>3, <1>4, <1>5, <1>6, <1>7 DEF Power

(* What lets the latest effect e take the state st with the outcome oc while *)
(* the manager's row is row.                                                 *)
Evidence(row, e, st, oc) ==
    \/ e.state = "preparing" /\ st = "prepared"
    \/ e.state = "prepared" /\ st = "dispatched" /\ row = "none"
    \/ e.state \in {"preparing", "prepared"} /\ st = "negative-adopted"
    \/ e.state = "dispatched" /\ st = "adopted" /\ row = "ok"
    \/ /\ e.state = "dispatched" /\ st = "negative-adopted"
       /\ oc = "inert" => row \in {"inert", "cancelled"}
    \/ e.state = "adopted" /\ st = "observed"
    \/ e.state = "negative-adopted" /\ st = "failed" /\ oc = e.outcome

(* A step of the latest effect on its evidence keeps what the effects say.   *)
LEMMA StepSays ==
  ASSUME NEW g, NEW row, NEW s \in Seq(Effect), NEW t \in Seq(Effect),
         NEW st \in EffectState, NEW oc \in Outcome,
         s # <<>>, Len(t) = Len(s), \A i \in 1..(Len(s) - 1) : t[i] = s[i],
         Latest(t) = [action |-> Latest(s).action, state |-> st, outcome |-> oc],
         Evidence(row, Latest(s), st, oc), EffectsSay(g, row, s)
  PROVE  EffectsSay(g, row, t)
  <1>1. /\ Latest(t).action = Latest(s).action /\ Latest(t).state = st
        /\ Latest(t).outcome = oc
    OBVIOUS
  <1>2. Says(g, s, Earlier(s)) => Says(g, t, Earlier(t))
    BY EarlierSays
  <1>3. Latest(s).state \in {"preparing", "prepared"} => Says(g, t, Earlier(t))
    BY <1>2 DEF EffectsSay
  <1>4. Latest(s).state = "dispatched" /\ row \in {"inert", "cancelled"}
          => Says(g, t, Earlier(t))
    BY <1>2 DEF EffectsSay
  <1>5. Latest(s).state = "dispatched" /\ row = "ok" => g = Power(Latest(t).action)
    BY <1>1 DEF EffectsSay
  <1>6. Latest(s).state = "adopted" => g = Power(Latest(t).action)
    BY <1>1 DEF EffectsSay
  <1>7. Latest(s).state = "negative-adopted" /\ Latest(s).outcome = "inert"
          => Says(g, t, Earlier(t))
    BY <1>2 DEF EffectsSay
  <1> QED
    BY <1>1, <1>3, <1>4, <1>5, <1>6, <1>7 DEF EffectsSay, Evidence

(* The order of the states of an effect has no cycle, and after dispatch no  *)
(* two of the states that may follow follow each other.                      *)
LEMMA StepsOrdered ==
  ASSUME NEW a, NEW b, NEW c, <<a, b>> \in EffectSteps
  PROVE  /\ <<b, a>> \notin EffectSteps
         /\ a \notin {"preparing", "prepared"} /\ <<a, c>> \in EffectSteps
              => <<b, c>> \notin EffectSteps
         /\ a \notin {"observed", "failed"}
  BY DEF EffectSteps

(* A write of a process whose journal is the record's, or one write behind   *)
(* it, never takes an effect of the record back.                             *)
LEMMA PhaseOnly ==
  ASSUME NEW s \in Seq(Effect), NEW t \in Seq(Effect),
         s = t \/ Ahead(s, t), s = t \/ ValidAppGroupTransition(t, s)
  PROVE  s = t
  <1> SUFFICES ASSUME Ahead(s, t), ValidAppGroupTransition(t, s) PROVE FALSE
    OBVIOUS
  <1>1. \A a : Len(Append(s, Intent(a))) = Len(s) + 1
    OBVIOUS
  <1>2. \A a : Len(Append(t, Intent(a))) = Len(t) + 1
    OBVIOUS
  <1>3. Len(s) \in Nat /\ Len(t) \in Nat
    OBVIOUS
  <1>4. CASE \E a \in GroupAction : t = Append(s, Intent(a))
    BY <1>1, <1>2, <1>3, <1>4 DEF ValidAppGroupTransition
  <1>5. CASE Len(t) = Len(s) /\ <<Latest(s).state, Latest(t).state>> \in EffectSteps
    <2>1. <<Latest(t).state, Latest(s).state>> \in EffectSteps
      BY <1>2, <1>3, <1>5 DEF ValidAppGroupTransition
    <2> QED
      BY <1>5, <2>1, StepsOrdered
  <1> QED
    BY <1>4, <1>5 DEF Ahead

(* The same of a write that settles an effect the record may have settled.   *)
LEMMA NoOverwrite ==
  ASSUME NEW s \in Seq(Effect), NEW r \in Seq(Effect), NEW t \in Seq(Effect),
         s # <<>>, Len(t) = Len(s),
         Latest(s).state \notin {"preparing", "prepared"},
         <<Latest(s).state, Latest(t).state>> \in EffectSteps,
         Ahead(s, r), t = r \/ ValidAppGroupTransition(r, t)
  PROVE  t = r
  <1> SUFFICES ASSUME ValidAppGroupTransition(r, t) PROVE FALSE
    OBVIOUS
  <1>1. \A a : Len(Append(r, Intent(a))) = Len(r) + 1
    OBVIOUS
  <1>2. Len(s) \in Nat /\ Len(r) \in Nat
    OBVIOUS
  <1>3. Unsettled(s)
    BY StepsOrdered DEF Unsettled, EffectSettled
  <1>4. Len(r) = Len(s) /\ <<Latest(s).state, Latest(r).state>> \in EffectSteps
    BY <1>3 DEF Ahead
  <1>5. <<Latest(r).state, Latest(t).state>> \in EffectSteps
    BY <1>1, <1>2, <1>4 DEF ValidAppGroupTransition
  <1> QED
    BY <1>4, <1>5, StepsOrdered

-----------------------------------------------------------------------------
(* A native group: the steps of the process.                               *)

(* A process that goes to the step s with the journal q.                     *)
Goes(q, s) ==
    /\ worker' \in WorkerType /\ worker'.step = s /\ worker'.q = q
    /\ worker'.next = worker.next /\ worker'.action = worker.action
    /\ worker'.armed = worker.armed /\ worker'.attempted = worker.attempted
    /\ worker'.settled = worker.settled

(* A process that stumbles.                                                  *)
Stumbles == Goes(worker.q, IF worker.armed THEN "cleanup" ELSE "fail")

(* Where Stumble sends the process.                                          *)
LEMMA StumbleIs ==
  ASSUME worker \in WorkerType, Stumble
  PROVE  Stumbles
  <1> DEFINE s == IF worker.armed THEN "cleanup" ELSE "fail"
  <1>1. s \in GroupStep
    BY DEF GroupStep
  <1> HIDE DEF s
  <1>2. worker' = [worker EXCEPT !.step = s, !.failed = TRUE]
    BY DEF Stumble, s
  <1>3. Goes(worker.q, s)
    BY <1>1, <1>2 DEF Goes, WorkerType
  <1> QED
    BY <1>3 DEF Stumbles, s

(* A process that only takes its next step.                                  *)
LEMMA GoesIs ==
  ASSUME worker \in WorkerType, NEW s \in GroupStep,
         worker' = [worker EXCEPT !.step = s]
  PROVE  Goes(worker.q, s)
  BY DEF Goes, WorkerType

(* Mishaps are counted.                                                      *)
LEMMA MishapsBounded ==
  ASSUME mishaps \in 0..MaxMishaps, Mishap \/ Unharmed
  PROVE  mishaps' \in 0..MaxMishaps
  BY GroupAssumption DEF Mishap, Unharmed

(* The three ends of a write: confirmed, failed, refused.                    *)
LEMMA WriteIs ==
  ASSUME record \in RecordType, worker \in WorkerType, mishaps \in 0..MaxMishaps,
         NEW q \in Quiescence, NEW s \in GroupStep, Write(q, s)
  PROVE  /\ record' \in RecordType /\ record'.state = record.state
         /\ mishaps' \in 0..MaxMishaps
         /\ record'.q = record.q \/ (Accepted(q) /\ record'.q = q)
         /\ Stumbles \/ (Goes(q, s) /\ record'.q = q)
  <1> DEFINE r == [record EXCEPT !.q = q]
             w == [worker EXCEPT !.q = q, !.step = s]
  <1>1. r \in RecordType /\ r.state = record.state /\ r.q = q
    BY DEF RecordType
  <1>2. worker' = w => Goes(q, s)
    BY DEF WorkerType, Goes
  <1>3. Stumble => Stumbles
    BY StumbleIs
  <1> HIDE DEF r, w
  <1>4. \/ Accepted(q) /\ record' = r /\ worker' = w /\ Unharmed
        \/ Accepted(q) /\ record' \in {record, r} /\ Stumble /\ Mishap
        \/ UNCHANGED record /\ Stumble /\ Unharmed
    BY DEF Write, r, w
  <1> QED
    BY <1>1, <1>2, <1>3, <1>4, MishapsBounded

(* The values a process starts from.                                         *)
LEMMA RestIs ==
  /\ Rest \in WorkerType /\ Rest.q \in Quiescence /\ Rest.step = "rest"
  /\ Rest.q.phase = "" /\ Rest.q.effects = <<>>
  <1>1. <<>> \in Seq(Effect)
    OBVIOUS
  <1>2. [phase |-> "", initial |-> FALSE, effects |-> <<>>] \in Quiescence
    BY <1>1 DEF Quiescence
  <1> QED
    BY <1>2 DEF Rest, WorkerType, GroupStep, GroupAction

(* A process at rest relies on nothing.                                      *)
LEMMA RestWorker ==
  ASSUME worker' = Rest
  PROVE  WorkerInv'
  <1>1. Rest \in WorkerType
    BY RestIs
  <1>2. Rest.step = "rest" /\ Rest.next = "decide"
    BY DEF Rest
  <1>3. ~Opening' /\ ~Stopping' /\ ~Advancing'
    BY <1>2 DEF Opening, Stopping, Advancing
  <1>4. JournalSame' /\ StepHeld'
    BY <1>2, <1>3 DEF JournalSame, StepHeld, Doing
  <1>5. StepEffect' /\ HelperWatched'
    BY <1>2, <1>3 DEF StepEffect, HelperWatched, Doing
  <1> QED
    BY <1>1, <1>4, <1>5 DEF WorkerInv

(* An error returns to the deferred cleanup, which settles the helper.       *)
LEMMA StumbleWorker ==
  ASSUME worker \in WorkerType, Stumbles, record'.state = "pending",
         worker.armed =>
           /\ native'.hold /\ ~native'.touched
           /\ worker.q.initial = record'.q.initial /\ worker.q.phase # ""
           /\ \/ worker.q.effects = record'.q.effects
              \/ helper' = "idle" /\ Ahead(worker.q.effects, record'.q.effects)
           /\ helper' = "capturing" => worker.attempted /\ ~worker.settled
  PROVE  WorkerInv'
  <1>1. CASE worker.armed
    <2>1. /\ worker'.step = "cleanup" /\ worker'.q = worker.q
          /\ worker'.attempted = worker.attempted /\ worker'.settled = worker.settled
      BY <1>1 DEF Stumbles, Goes
    <2>3. ~Opening' /\ ~Stopping' /\ ~Advancing'
      BY <2>1 DEF Opening, Stopping, Advancing
    <2>4. JournalSame'
      BY <1>1, <2>1 DEF JournalSame, Doing
    <2>5. StepHeld'
      BY <1>1, <2>1, <2>3 DEF StepHeld, Doing
    <2>6. StepEffect'
      BY <2>1, <2>3 DEF StepEffect, Doing
    <2>7. HelperWatched'
      BY <1>1, <2>1 DEF HelperWatched, Doing
    <2> QED
      BY <2>4, <2>5, <2>6, <2>7 DEF WorkerInv, Stumbles, Goes
  <1>2. CASE ~worker.armed
    <2>1. worker'.step = "fail"
      BY <1>2 DEF Stumbles, Goes
    <2>3. ~Opening' /\ ~Stopping' /\ ~Advancing'
      BY <2>1 DEF Opening, Stopping, Advancing
    <2>4. JournalSame'
      BY <2>1 DEF JournalSame, Doing
    <2>5. StepHeld'
      BY <2>1, <2>3 DEF StepHeld, Doing
    <2>6. StepEffect'
      BY <2>1, <2>3 DEF StepEffect, Doing
    <2>7. HelperWatched'
      BY <2>1 DEF HelperWatched, Doing
    <2> QED
      BY <2>4, <2>5, <2>6, <2>7 DEF WorkerInv, Stumbles, Goes
  <1> QED
    BY <1>1, <1>2

-----------------------------------------------------------------------------
(* A native group: the record, the manager and the helper.                 *)

(* Nothing but the state of the operation changes, or the helper ends.       *)
LEMMA HostStays ==
  ASSUME HostInv, record' \in RecordType, record'.q = record.q, native' = native,
         helper' \in {helper, "idle"}, saved' \in BOOLEAN,
         mishaps' \in 0..MaxMishaps,
         \/ record'.state = record.state
         \/ record.state = "absent" /\ record'.state = "pending"
         \/ record'.state \in {"completed", "failed"} /\ helper' = "idle"
  PROVE  HostInv'
  <1>1. HostTypeOK'
    BY DEF HostInv, HostTypeOK
  <1>2. PowerKnown' /\ RowFollows'
    BY DEF HostInv, PowerKnown, RowFollows
  <1>3. CaptureKnown' /\ CommandFenced'
    BY DEF HostInv, CaptureKnown, CommandFenced
  <1>4. EffectsHeld'
    BY DEF HostInv, EffectsHeld
  <1>5. HelperKnown'
    BY DEF HostInv, HelperKnown
  <1> QED
    BY <1>1, <1>2, <1>3, <1>4, <1>5 DEF HostInv

(* A phase is recorded.                                                      *)
LEMMA HostPhase ==
  ASSUME HostInv, record' \in RecordType, record'.state = record.state,
         record'.q.effects = record.q.effects, record'.q.initial = record.q.initial,
         record.q.phase # "", record'.q.phase # "",
         UNCHANGED groupHost, mishaps' \in 0..MaxMishaps,
         helper = "idle" \/ record'.q.phase = "stopped"
  PROVE  HostInv'
  <1> USE DEF groupHost
  <1>1. HostTypeOK'
    BY DEF HostInv, HostTypeOK
  <1>2. PowerKnown' /\ RowFollows'
    BY DEF HostInv, PowerKnown, RowFollows
  <1>3. CaptureKnown' /\ CommandFenced'
    BY DEF HostInv, CaptureKnown, CommandFenced
  <1>4. EffectsHeld'
    BY DEF HostInv, EffectsHeld
  <1>5. HelperKnown'
    BY DEF HostInv, HelperKnown, StopObserved
  <1> QED
    BY <1>1, <1>2, <1>3, <1>4, <1>5 DEF HostInv

(* Effects are recorded, under the hold and without a helper.                *)
LEMMA HostEffects ==
  ASSUME record' \in RecordType, native' \in NativeType, helper' = "idle",
         saved' \in BOOLEAN, mishaps' \in 0..MaxMishaps,
         Len(record'.q.effects) <= EffectLimit, record'.q.effects # <<>>,
         record'.q.initial, record'.q.phase # "",
         native'.hold, ~native'.touched,
         EffectsSay(native'.group, native'.row, record'.q.effects),
         RowFollows', CommandFenced'
  PROVE  HostInv'
  <1>1. HostTypeOK'
    BY DEF HostTypeOK
  <1>2. PowerKnown'
    BY DEF PowerKnown
  <1>3. CaptureKnown'
    BY DEF CaptureKnown
  <1>4. EffectsHeld'
    BY DEF EffectsHeld
  <1>5. HelperKnown'
    BY DEF HelperKnown
  <1> QED
    BY <1>1, <1>2, <1>3, <1>4, <1>5 DEF HostInv

(* What is known of a process that stays where it is depends on the manager  *)
(* through its hold and its outer command alone.                             *)
LEMMA WorkerStays ==
  ASSUME WorkerInv, UNCHANGED <<record, worker, helper>>,
         worker.step \notin {"rest", "capture", "hold", "fail", "close"}
           => native'.hold /\ ~native'.touched,
         worker.step \in {"prepared", "dispatched", "dispatch"}
           => native'.outer = "dormant",
         Doing("cancel") => native'.outer = "ended"
  PROVE  WorkerInv'
  <1>1. worker' = worker /\ record' = record /\ helper' = helper
    OBVIOUS
  <1>2. /\ Opening' <=> Opening
        /\ Stopping' <=> Stopping
        /\ Advancing' <=> Advancing
    BY <1>1 DEF Opening, Stopping, Advancing
  <1>3. JournalSame'
    BY <1>1 DEF WorkerInv, JournalSame, Doing
  <1>4. StepHeld'
    BY <1>1, <1>2 DEF WorkerInv, StepHeld, Doing
  <1>5. StepEffect'
    BY <1>1, <1>2 DEF WorkerInv, StepEffect, Doing
  <1>6. HelperWatched'
    BY <1>1 DEF WorkerInv, HelperWatched, Doing
  <1> QED
    BY <1>1, <1>3, <1>4, <1>5, <1>6 DEF WorkerInv

(* The manager moves on: the record, the process and the helper stay.        *)
LEMMA ManagerMoves ==
  ASSUME GroupInv, UNCHANGED <<record, worker, helper, saved>>,
         mishaps' \in 0..MaxMishaps, native' \in NativeType,
         native'.hold = native.hold, native'.touched = native.touched,
         native.outer = native'.outer \/ native.outer = "running",
         record.q.effects # <<>>, Latest(record.q.effects).state = "dispatched",
         native.outer = "running" \/ native.row \in {"accepted", "claimed", "acting"},
         EffectsSay(native'.group, native'.row, record.q.effects), RowFollows'
  PROVE  GroupInv'
  <1>1. helper = "idle"
    <2>1. ~StopObserved(record.q)
      BY DEF StopObserved
    <2> QED
      BY <2>1 DEF GroupInv, HostInv, HostTypeOK, HelperKnown
  <1>2. HostInv'
    <2>1. HostTypeOK'
      BY DEF GroupInv, HostInv, HostTypeOK
    <2>2. PowerKnown' /\ CommandFenced'
      BY DEF PowerKnown, CommandFenced
    <2>3. CaptureKnown' /\ EffectsHeld' /\ HelperKnown'
      BY <1>1 DEF GroupInv, HostInv, CaptureKnown, EffectsHeld, HelperKnown
    <2> QED
      BY <2>1, <2>2, <2>3 DEF HostInv
  <1>3. WorkerInv'
    <2>1. /\ WorkerInv /\ UNCHANGED <<record, worker, helper>>
          /\ native.outer \in {"dormant", "ended"} => native'.outer = native.outer
      BY DEF GroupInv
    <2>2. /\ worker.step \notin {"rest", "capture", "hold", "fail", "close"}
               => native'.hold /\ ~native'.touched
          /\ worker.step \in {"prepared", "dispatched", "dispatch"}
               => native'.outer = "dormant"
          /\ Doing("cancel") => native'.outer = "ended"
      BY <2>1 DEF WorkerInv, StepHeld
    <2> QED
      BY <2>1, <2>2, WorkerStays
  <1> QED
    BY <1>2, <1>3 DEF GroupInv

(* A command of the manager that may still act waits for its dispatched      *)
(* effect, so each of its steps keeps the invariant.                         *)
LEMMA SubmitKeeps ==
  ASSUME GroupInv, Submit
  PROVE  GroupInv'
  <1>1. /\ native \in NativeType /\ mishaps' \in 0..MaxMishaps
        /\ record.q.effects # <<>> /\ Latest(record.q.effects).state = "dispatched"
        /\ EffectsSay(native.group, native.row, record.q.effects)
    BY MishapsBounded DEF Submit, GroupInv, HostInv, HostTypeOK, CommandFenced, PowerKnown
  <1>2. native' = [native EXCEPT !.row = "accepted"]
          \/ native' = [native EXCEPT !.outer = "ended"]
    BY DEF Submit
  <1>3. /\ native' \in NativeType /\ native'.hold = native.hold
        /\ native'.touched = native.touched /\ native'.group = native.group
        /\ native'.row \in {"none", "accepted"} /\ native'.outer \in {"running", "ended"}
    BY <1>1, <1>2 DEF NativeType, Submit
  <1>4. EffectsSay(native'.group, native'.row, record.q.effects)
    BY <1>1, <1>3 DEF EffectsSay, Submit
  <1>5. RowFollows'
    BY <1>3 DEF RowFollows
  <1> QED
    BY <1>1, <1>3, <1>4, <1>5, ManagerMoves DEF Submit

(* The submission ends, its reply known or lost.                             *)
LEMMA SubmissionEndsKeeps ==
  ASSUME GroupInv, SubmissionEnds
  PROVE  GroupInv'
  <1>1. /\ native \in NativeType /\ mishaps' \in 0..MaxMishaps
        /\ record.q.effects # <<>> /\ Latest(record.q.effects).state = "dispatched"
        /\ EffectsSay(native.group, native.row, record.q.effects)
    BY MishapsBounded DEF SubmissionEnds, GroupInv, HostInv, HostTypeOK, CommandFenced,
       PowerKnown
  <1>3. /\ native' \in NativeType /\ native'.hold = native.hold
        /\ native'.touched = native.touched /\ native'.group = native.group
        /\ native'.row = native.row /\ native'.outer = "ended"
    BY <1>1 DEF NativeType, SubmissionEnds
  <1>4. RowFollows'
    BY <1>3 DEF RowFollows
  <1> QED
    BY <1>1, <1>3, <1>4, ManagerMoves DEF SubmissionEnds

(* A worker of the manager claims the command.                               *)
LEMMA ClaimKeeps ==
  ASSUME GroupInv, Claim
  PROVE  GroupInv'
  <1>1. /\ native \in NativeType /\ mishaps' \in 0..MaxMishaps
        /\ record.q.effects # <<>> /\ Latest(record.q.effects).state = "dispatched"
        /\ EffectsSay(native.group, native.row, record.q.effects) /\ RowFollows
    BY DEF Claim, GroupInv, HostInv, HostTypeOK, CommandFenced, PowerKnown
  <1>3. /\ native' \in NativeType /\ native'.hold = native.hold
        /\ native'.touched = native.touched /\ native'.group = native.group
        /\ native'.row = "claimed" /\ native'.outer = native.outer
    BY <1>1 DEF NativeType, Claim
  <1>4. EffectsSay(native'.group, native'.row, record.q.effects)
    BY <1>1, <1>3 DEF EffectsSay, Claim
  <1>5. RowFollows'
    BY <1>1, <1>3 DEF RowFollows, Claim
  <1> QED
    BY <1>1, <1>3, <1>4, <1>5, ManagerMoves DEF Claim

(* It fails before it acts, or acts.                                         *)
LEMMA ActKeeps ==
  ASSUME GroupInv, Act
  PROVE  GroupInv'
  <1>1. /\ native \in NativeType /\ mishaps' \in 0..MaxMishaps
        /\ record.q.effects # <<>> /\ Latest(record.q.effects).state = "dispatched"
        /\ EffectsSay(native.group, native.row, record.q.effects) /\ RowFollows
    BY MishapsBounded DEF Act, GroupInv, HostInv, HostTypeOK, CommandFenced, PowerKnown
  <1>2. \/ native' = [native EXCEPT !.row = "inert"]
        \/ native' = [native EXCEPT !.row = "acting", !.group = "partial"]
    BY DEF Act
  <1>3. /\ native' \in NativeType /\ native'.hold = native.hold
        /\ native'.touched = native.touched /\ native'.outer = native.outer
        /\ native'.row = "acting" \/ (native'.row = "inert" /\ native'.group = native.group)
    BY <1>1, <1>2 DEF NativeType
  <1>4. EffectsSay(native'.group, native'.row, record.q.effects)
    BY <1>1, <1>3 DEF EffectsSay, Act
  <1>5. RowFollows'
    BY <1>1, <1>3 DEF RowFollows, Act
  <1> QED
    BY <1>1, <1>3, <1>4, <1>5, ManagerMoves DEF Act

(* Its child ends, with the power it was for or with anything.               *)
LEMMA ChildEndsKeeps ==
  ASSUME GroupInv, ChildEnds
  PROVE  GroupInv'
  <1>1. /\ native \in NativeType /\ mishaps' \in 0..MaxMishaps
        /\ record.q.effects # <<>> /\ Latest(record.q.effects).state = "dispatched"
        /\ RowFollows
    BY MishapsBounded DEF ChildEnds, GroupInv, HostInv, HostTypeOK, CommandFenced
  <1> DEFINE p == Power(Latest(record.q.effects).action)
  <1>2. p \in {"running", "down"}
    BY DEF Power
  <1>3. \/ native' = [native EXCEPT !.row = "ok", !.group = p]
        \/ \E g \in {"running", "partial", "down"} :
             native' = [native EXCEPT !.row = "closed", !.group = g]
    BY DEF ChildEnds, Power
  <1> HIDE DEF p
  <1>4. /\ native' \in NativeType /\ native'.hold = native.hold
        /\ native'.touched = native.touched /\ native'.outer = native.outer
        /\ native'.row = "closed" \/ (native'.row = "ok" /\ native'.group = p)
    BY <1>1, <1>2, <1>3 DEF NativeType
  <1>5. EffectsSay(native'.group, native'.row, record.q.effects)
    BY <1>1, <1>4 DEF EffectsSay, p
  <1>6. RowFollows'
    BY <1>1, <1>4 DEF RowFollows, ChildEnds
  <1> QED
    BY <1>1, <1>4, <1>5, <1>6, ManagerMoves DEF ChildEnds

(* The manager acts by itself only before the hold, so before every effect.  *)
LEMMA TouchKeeps ==
  ASSUME GroupInv, Touch
  PROVE  GroupInv'
  <1>1. /\ native \in NativeType /\ mishaps' \in 0..MaxMishaps
        /\ record.q.effects = <<>> /\ helper = "idle"
    BY MishapsBounded DEF Touch, GroupInv, HostInv, HostTypeOK, EffectsHeld, HelperKnown
  <1>2. native.group \in {"running", "down"}
    BY <1>1 DEF GroupInv, HostInv, CaptureKnown
  <1>3. /\ native' \in NativeType /\ native'.hold = native.hold
        /\ native'.touched = TRUE /\ native'.outer = native.outer
        /\ native'.row = native.row /\ native'.group \in {"running", "down"}
    BY <1>1 DEF NativeType, Touch
  <1>4. HostInv'
    <2>1. HostTypeOK'
      BY <1>1, <1>3 DEF Touch, GroupInv, HostInv, HostTypeOK
    <2>2. PowerKnown' /\ EffectsHeld' /\ HelperKnown'
      BY <1>1 DEF PowerKnown, EffectsSay, EffectsHeld, HelperKnown, Touch
    <2>3. CaptureKnown' /\ RowFollows' /\ CommandFenced'
      BY <1>1, <1>3 DEF Touch, GroupInv, HostInv, CaptureKnown, RowFollows, CommandFenced
    <2> QED
      BY <2>1, <2>2, <2>3 DEF HostInv
  <1>5. WorkerInv'
    <2>1. WorkerInv /\ UNCHANGED <<record, worker, helper>> /\ ~native.hold
      BY DEF GroupInv, Touch
    <2>2. /\ worker.step \in {"rest", "capture", "hold", "fail", "close"}
          /\ worker.step \notin {"prepared", "dispatched", "dispatch", "cancel"}
      BY <2>1 DEF WorkerInv, StepHeld
    <2> QED
      BY <2>1, <2>2, WorkerStays DEF Doing
  <1> QED
    BY <1>4, <1>5 DEF GroupInv

(* The helper ends.                                                          *)
LEMMA HelperEndsKeeps ==
  ASSUME GroupInv, HelperEnds
  PROVE  GroupInv'
  <1>1. /\ saved' \in BOOLEAN /\ mishaps' \in 0..MaxMishaps
        /\ record \in RecordType /\ helper' = "idle"
    BY MishapsBounded DEF HelperEnds, GroupInv, HostInv, HostTypeOK
  <1>2. HostInv'
    BY <1>1, HostStays DEF HelperEnds, GroupInv
  <1>3. JournalSame' /\ StepEffect' /\ HelperWatched'
    BY <1>1 DEF HelperEnds, GroupInv, WorkerInv, JournalSame, StepEffect, HelperWatched,
       Doing, Advancing
  <1>4. StepHeld'
    BY DEF HelperEnds, GroupInv, WorkerInv, StepHeld, Doing, Opening, Stopping, Advancing
  <1> QED
    BY <1>2, <1>3, <1>4 DEF HelperEnds, GroupInv, WorkerInv

(* The process is lost.                                                      *)
LEMMA GroupCrashKeeps ==
  ASSUME GroupInv, GroupCrash
  PROVE  GroupInv'
  <1>1. HostInv'
    BY HostStays, MishapsBounded DEF GroupCrash, groupHost, GroupInv, HostInv, HostTypeOK
  <1> QED
    BY <1>1, RestWorker DEF GroupCrash, GroupInv

(* An operation begins, or is retried.                                       *)
LEMMA GroupRunKeeps ==
  ASSUME GroupInv, GroupRun
  PROVE  GroupInv'
  <1>1. /\ record \in RecordType /\ record.q \in Quiescence
        /\ UNCHANGED <<native, helper, saved, mishaps>>
        /\ saved \in BOOLEAN /\ mishaps \in 0..MaxMishaps
    BY DEF GroupRun, groupHost, GroupInv, HostInv, HostTypeOK, RecordType
  <1>2. record' \in RecordType /\ record'.state = "pending" /\ record'.q = record.q
    BY <1>1 DEF GroupRun, RecordType
  <1>3. HostInv'
    BY <1>1, <1>2, HostStays DEF GroupRun, GroupInv
  <1> DEFINE st == IF record.q.phase = "" THEN "capture" ELSE "hold"
  <1>4. /\ worker' \in WorkerType /\ worker'.step = st /\ worker'.q = record.q
        /\ worker'.next = "decide" /\ ~worker'.armed /\ ~worker'.settled
    <2>1. st \in GroupStep
      BY DEF GroupStep
    <2> HIDE DEF st
    <2>2. worker' = [Rest EXCEPT !.q = record.q, !.step = st]
      BY DEF GroupRun, st
    <2> QED
      BY <1>1, <2>1, <2>2, RestIs DEF Rest, WorkerType
  <1>5. ~Stopping' /\ ~Advancing'
    BY <1>4 DEF Stopping, Advancing
  <1>6. JournalSame'
    BY <1>2, <1>4 DEF JournalSame, Doing
  <1>7. StepHeld'
    BY <1>2, <1>4, <1>5 DEF StepHeld, Doing
  <1>8. StepEffect'
    BY <1>4, <1>5 DEF StepEffect, Doing
  <1>9. HelperWatched'
    <2>1. helper' = "capturing" => record.q.phase = "stopped"
      BY <1>1 DEF GroupInv, HostInv, HelperKnown
    <2> QED
      BY <1>4, <2>1 DEF HelperWatched, Doing
  <1> QED
    BY <1>3, <1>4, <1>6, <1>7, <1>8, <1>9 DEF GroupInv, WorkerInv

(* The process completes the closure of a settled operation.                 *)
LEMMA CloseWorker ==
  ASSUME worker' \in WorkerType, worker'.step = "close", helper' = "idle",
         record'.state \in {"completed", "failed"}
  PROVE  WorkerInv'
  <1>1. ~Opening' /\ ~Stopping' /\ ~Advancing'
    BY DEF Opening, Stopping, Advancing
  <1>2. JournalSame' /\ StepHeld'
    BY <1>1 DEF JournalSame, StepHeld, Doing
  <1>3. StepEffect' /\ HelperWatched'
    BY <1>1 DEF StepEffect, HelperWatched, Doing
  <1> QED
    BY <1>2, <1>3 DEF WorkerInv

(* A settled operation is taken up for its closure.                          *)
LEMMA GroupReplayKeeps ==
  ASSUME GroupInv, GroupReplay
  PROVE  GroupInv'
  <1>1. /\ record \in RecordType /\ record.q \in Quiescence /\ helper = "idle"
        /\ UNCHANGED <<record, native, helper, saved, mishaps>>
        /\ saved \in BOOLEAN /\ mishaps \in 0..MaxMishaps
    BY DEF GroupReplay, groupHost, GroupInv, HostInv, HostTypeOK, RecordType, HelperKnown
  <1>2. HostInv'
    BY <1>1, HostStays DEF GroupInv
  <1>3. worker' \in WorkerType /\ worker'.step = "close"
    BY <1>1, RestIs DEF GroupReplay, WorkerType, GroupStep
  <1> QED
    BY <1>1, <1>2, <1>3, CloseWorker DEF GroupReplay, GroupInv

(* A step that fails and leaves the effects alone.                           *)
LEMMA StumbleStays ==
  ASSUME GroupInv, Stumbles, worker.step \notin {"rest", "close", "fail"},
         record'.state = record.state, record'.q.effects = record.q.effects,
         record'.q.initial = record.q.initial, helper' \in {helper, "idle"},
         \/ worker.step \in {"capture", "hold"}
         \/ native'.hold = native.hold /\ native'.touched = native.touched
  PROVE  WorkerInv'
  <1> USE DEF GroupInv, WorkerInv
  <1>1. worker \in WorkerType /\ record'.state = "pending"
    BY DEF StepHeld
  <1>2. worker.step \in {"capture", "hold"} => ~worker.armed
    BY DEF StepHeld, Opening
  <1>3. worker.armed => native'.hold /\ ~native'.touched
    BY <1>2 DEF StepHeld
  <1>4. /\ worker.armed => worker.q.initial = record'.q.initial
        /\ worker.armed => \/ worker.q.effects = record'.q.effects
                           \/ helper' = "idle" /\ Ahead(worker.q.effects, record'.q.effects)
    BY DEF JournalSame, Doing
  <1>5. worker.armed /\ helper' = "capturing" => worker.attempted /\ ~worker.settled
    <2>1. worker.step \in {"hold", "settle", "decide"} /\ helper = "capturing"
            => ~worker.armed
      BY DEF StepHeld, Opening, HelperWatched, Doing
    <2> QED
      BY <2>1 DEF HelperWatched
  <1>6. worker.armed => worker.q.phase # ""
    <2>1. worker.armed => native.hold
      BY <1>2 DEF StepHeld
    <2> QED
      BY <2>1 DEF JournalSame, HostInv, CaptureKnown
  <1> QED
    BY <1>1, <1>3, <1>4, <1>5, <1>6, StumbleWorker

(* The host of a call that changes nothing, whatever becomes of the process. *)
LEMMA HostSame ==
  ASSUME GroupInv, UNCHANGED record, UNCHANGED groupHost, Mishap \/ Unharmed
  PROVE  HostInv'
  BY HostStays, MishapsBounded DEF groupHost, GroupInv, HostInv, HostTypeOK

(* The hold, and the look for a restart that came before it.                 *)
LEMMA HoldGroupKeeps ==
  ASSUME GroupInv, HoldGroup
  PROVE  GroupInv'
  <1> USE DEF GroupInv
  <1>1. /\ native \in NativeType /\ record.q.phase # "" /\ record.state = "pending"
        /\ worker \in WorkerType /\ worker.step = "hold" /\ worker.q = record.q
        /\ UNCHANGED <<record, helper, saved>> /\ mishaps' \in 0..MaxMishaps
        /\ (Stumble => Stumbles)
    BY MishapsBounded, StumbleIs DEF HoldGroup, Doing, HostInv, HostTypeOK, WorkerInv,
       StepHeld, JournalSame
  <1>2. /\ native' \in NativeType /\ native'.touched = native.touched
        /\ native'.group = native.group /\ native'.outer = native.outer
        /\ native'.row = native.row /\ (native.hold => native'.hold)
    BY <1>1 DEF HoldGroup, NativeType
  <1>3. HostInv'
    <2>1. HostTypeOK' /\ PowerKnown' /\ CommandFenced'
      BY <1>1, <1>2 DEF HostInv, HostTypeOK, PowerKnown, CommandFenced
    <2>2. CaptureKnown' /\ RowFollows'
      BY <1>1, <1>2 DEF HostInv, CaptureKnown, RowFollows
    <2>3. EffectsHeld' /\ HelperKnown'
      BY <1>1, <1>2 DEF HostInv, EffectsHeld, HelperKnown
    <2> QED
      BY <2>1, <2>2, <2>3 DEF HostInv
  <1>4. CASE Stumble
    BY <1>1, <1>3, <1>4, StumbleStays
  <1>5. CASE ~Stumble
    <2>1. /\ native'.hold /\ ~(worker.q.effects = <<>> /\ native.touched)
          /\ worker' = [worker EXCEPT !.step = "settle", !.next = "decide"]
      BY <1>5 DEF HoldGroup
    <2>2. ~native'.touched
      BY <1>1, <1>2, <2>1 DEF HostInv, EffectsHeld
    <2>3. /\ worker' \in WorkerType /\ worker'.step = "settle" /\ worker'.next = "decide"
          /\ worker'.q = worker.q /\ worker'.armed = worker.armed
          /\ worker'.settled = worker.settled
      BY <1>1, <2>1 DEF WorkerType, GroupStep
    <2>4. ~worker.armed /\ ~worker.settled
      BY <1>1 DEF WorkerInv, StepHeld, Opening
    <2>5. ~Stopping' /\ ~Advancing'
      BY <2>3 DEF Stopping, Advancing
    <2>6. JournalSame' /\ StepHeld'
      BY <1>1, <2>1, <2>2, <2>3, <2>4, <2>5 DEF JournalSame, StepHeld, Doing
    <2>7. StepEffect' /\ HelperWatched'
      BY <2>3, <2>5 DEF StepEffect, HelperWatched, Doing
    <2> QED
      BY <1>3, <2>3, <2>6, <2>7 DEF WorkerInv
  <1> QED
    BY <1>4, <1>5

(* The entry, where the deferred cleanup is registered.                      *)
LEMMA DecideEntryKeeps ==
  ASSUME GroupInv, DecideEntry
  PROVE  GroupInv'
  <1> USE DEF GroupInv
  <1>1. /\ worker \in WorkerType /\ worker.step = "decide" /\ worker.q = record.q
        /\ record.state = "pending" /\ native.hold /\ ~native.touched
        /\ ~worker.settled /\ UNCHANGED <<record, native, helper, saved, mishaps>>
    BY DEF DecideEntry, Doing, WorkerInv, StepHeld, JournalSame, Opening, groupHost
  <1>2. HostInv'
    BY HostSame DEF DecideEntry, Unharmed
  <1> DEFINE st == IF Decided THEN "find" ELSE "core-stop"
  <1>3. st \in GroupStep /\ Attempted \in BOOLEAN
    BY DEF GroupStep, Attempted
  <1>4. worker' = [worker EXCEPT !.armed = TRUE, !.attempted = Attempted, !.step = st]
    BY DEF DecideEntry
  <1>5. /\ worker' \in WorkerType /\ worker'.step = st /\ worker'.armed
        /\ worker'.attempted = Attempted /\ worker'.q = worker.q
        /\ worker'.settled = worker.settled
    <2> HIDE DEF st
    <2> QED
      BY <1>1, <1>3, <1>4 DEF WorkerType
  <1>6. ~Opening' /\ ~Advancing'
    BY <1>5 DEF Opening, Advancing
  <1>7. JournalSame' /\ StepHeld'
    BY <1>1, <1>5, <1>6 DEF JournalSame, StepHeld, Doing
  <1>8. StepEffect'
    BY <1>5, <1>6 DEF StepEffect, Doing
  <1>9. HelperWatched'
    <2>1. helper = "capturing" => Attempted
      BY <1>1 DEF HostInv, HelperKnown, Attempted
    <2> QED
      BY <1>1, <1>5, <2>1 DEF HelperWatched, Doing
  <1> QED
    BY <1>2, <1>5, <1>7, <1>8, <1>9 DEF WorkerInv

(* A process without a helper goes to its cleanup or to a step of it.        *)
LEMMA CleanupWorker ==
  ASSUME worker' \in WorkerType, record'.state = "pending", native'.hold, ~native'.touched,
         worker'.step \in {"cleanup", "settle-helper", "settle", "resuming"},
         worker'.step \in {"settle-helper", "settle"} => worker'.next = "resuming",
         worker'.q.initial = record'.q.initial, worker'.q.phase # "",
         \/ worker'.q.effects = record'.q.effects
         \/ helper' = "idle" /\ Ahead(worker'.q.effects, record'.q.effects),
         helper' = "capturing" => /\ worker'.step \in {"cleanup", "settle-helper"}
                                  /\ worker'.attempted /\ ~worker'.settled
  PROVE  WorkerInv'
  <1>1. ~Opening' /\ ~Stopping' /\ ~Advancing'
    BY DEF Opening, Stopping, Advancing
  <1>2. JournalSame'
    BY DEF JournalSame, Doing
  <1>3. StepHeld'
    BY <1>1 DEF StepHeld, Doing
  <1>4. StepEffect'
    BY <1>1 DEF StepEffect, Doing
  <1>5. HelperWatched'
    BY DEF HelperWatched, Doing
  <1> QED
    BY <1>2, <1>3, <1>4, <1>5 DEF WorkerInv

(* A resumed operation settles its helper before it looks for the snapshot.  *)
LEMMA FindKeeps ==
  ASSUME GroupInv, Find
  PROVE  GroupInv'
  <1> USE DEF GroupInv
  <1>1. /\ worker \in WorkerType /\ worker.step = "find" /\ worker.q = record.q
        /\ record.q.phase # ""
        /\ record.state = "pending" /\ native.hold /\ ~native.touched
        /\ UNCHANGED <<record, native, saved>> /\ mishaps' \in 0..MaxMishaps
        /\ helper' \in {helper, "idle"} /\ (Stumble => Stumbles)
        /\ record \in RecordType /\ saved \in BOOLEAN
    BY MishapsBounded, StumbleIs DEF Find, Doing, WorkerInv, StepHeld, JournalSame, HostInv,
       HostTypeOK, CaptureKnown
  <1>2. HostInv'
    BY <1>1, HostStays
  <1>3. CASE Stumble
    BY <1>1, <1>2, <1>3, StumbleStays
  <1>4. CASE ~Stumble
    <2>1. /\ helper' = "idle"
          /\ worker' = [worker EXCEPT !.settled = TRUE, !.step = "cleanup",
                                      !.failed = ~saved]
      BY <1>4 DEF Find
    <2>2. worker' \in WorkerType /\ worker'.step = "cleanup" /\ worker'.q = worker.q
      BY <1>1, <2>1 DEF WorkerType, GroupStep
    <2> QED
      BY <1>1, <1>2, <2>1, <2>2, CleanupWorker
  <1> QED
    BY <1>3, <1>4

(* The cleanup begins: a helper that may live is settled first.              *)
LEMMA CleanupGroupKeeps ==
  ASSUME GroupInv, CleanupGroup
  PROVE  GroupInv'
  <1> USE DEF GroupInv
  <1>1. /\ worker \in WorkerType /\ worker.step = "cleanup"
        /\ worker.q.initial = record.q.initial /\ worker.q.phase # ""
        /\ \/ worker.q.effects = record.q.effects
           \/ helper = "idle" /\ Ahead(worker.q.effects, record.q.effects)
        /\ record.state = "pending" /\ native.hold /\ ~native.touched
        /\ helper = "capturing" => worker.attempted /\ ~worker.settled
        /\ UNCHANGED <<record, native, helper, saved, mishaps>>
    BY DEF CleanupGroup, Doing, WorkerInv, StepHeld, JournalSame, HelperWatched, groupHost
  <1>2. HostInv'
    BY HostSame DEF CleanupGroup, Unharmed
  <1> DEFINE st == IF worker.attempted /\ ~worker.settled THEN "settle-helper" ELSE "settle"
  <1>3. st \in GroupStep /\ st \in {"settle-helper", "settle"}
        /\ (helper = "capturing" => st = "settle-helper")
    BY <1>1 DEF GroupStep
  <1>4. worker' = [worker EXCEPT !.armed = FALSE, !.next = "resuming", !.step = st]
    BY DEF CleanupGroup
  <1>5. /\ worker' \in WorkerType /\ worker'.step = st /\ worker'.next = "resuming"
        /\ worker'.q = worker.q /\ worker'.attempted = worker.attempted
        /\ worker'.settled = worker.settled
    <2> HIDE DEF st
    <2> QED
      BY <1>1, <1>3, <1>4 DEF WorkerType
  <1> HIDE DEF st
  <1> QED
    BY <1>1, <1>2, <1>3, <1>5, CleanupWorker

(* It settles the helper before any effect.                                  *)
LEMMA SettleHelperKeeps ==
  ASSUME GroupInv, SettleHelper
  PROVE  GroupInv'
  <1> USE DEF GroupInv
  <1>1. /\ worker \in WorkerType /\ worker.step = "settle-helper"
        /\ worker.q.initial = record.q.initial /\ worker.q.phase # ""
        /\ \/ worker.q.effects = record.q.effects
           \/ helper = "idle" /\ Ahead(worker.q.effects, record.q.effects)
        /\ record.state = "pending" /\ native.hold /\ ~native.touched
        /\ UNCHANGED <<record, native, saved>> /\ mishaps' \in 0..MaxMishaps
        /\ helper' \in {helper, "idle"} /\ (Stumble => Stumbles)
        /\ record \in RecordType /\ saved \in BOOLEAN
    BY MishapsBounded, StumbleIs DEF SettleHelper, Doing, WorkerInv, StepHeld, JournalSame,
       HostInv, HostTypeOK
  <1>2. HostInv'
    BY <1>1, HostStays
  <1>3. CASE Stumble
    BY <1>1, <1>2, <1>3, StumbleStays
  <1>4. CASE ~Stumble
    <2>1. helper' = "idle" /\ worker' = [worker EXCEPT !.step = "settle"]
      BY <1>4 DEF SettleHelper
    <2>2. Goes(worker.q, "settle") /\ worker.next = "resuming"
      BY <1>1, <2>1, GoesIs DEF WorkerInv, StepHeld, Doing, GroupStep
    <2> QED
      BY <1>1, <1>2, <2>1, <2>2, CleanupWorker DEF Goes
  <1> QED
    BY <1>3, <1>4

(* What a process with a confirmed journal knows at a step.                  *)
Confirmed ==
    /\ worker \in WorkerType /\ worker.q = record.q /\ record.q \in Quiescence
    /\ record.state = "pending" /\ native.hold /\ ~native.touched

(* The steps whose writes were all confirmed.                                *)
LEMMA ConfirmedIs ==
  ASSUME GroupInv,
         worker.step \in {"decide", "find", "core-stop", "advance", "prepare", "prepared",
           "dispatched", "dispatch", "advanced", "stopped", "create", "created", "resume",
           "verify", "core-start", "restored", "complete"}
  PROVE  Confirmed
  BY DEF GroupInv, HostInv, HostTypeOK, RecordType, WorkerInv, JournalSame, StepHeld,
     Confirmed

(* The other containers are stopped first.                                   *)
LEMMA CoreStopKeeps ==
  ASSUME GroupInv, CoreStop
  PROVE  GroupInv'
  <1> USE DEF GroupInv
  <1>1. /\ Confirmed /\ worker.step = "core-stop" /\ worker.armed /\ ~worker.settled
        /\ UNCHANGED <<record, native, helper, saved>> /\ (Stumble => Stumbles)
        /\ (helper = "capturing" => worker.attempted)
    BY StumbleIs, ConfirmedIs DEF CoreStop, Doing, WorkerInv, StepHeld, Stopping, groupHost,
       HelperWatched
  <1>2. HostInv'
    BY HostSame DEF CoreStop
  <1>3. CASE Stumble
    BY <1>1, <1>2, <1>3, StumbleStays
  <1>4. CASE ~Stumble
    <2> DEFINE st == IF worker.q.initial THEN "advance" ELSE "stopped"
    <2>1. worker' = [worker EXCEPT !.action = "stop", !.step = st]
      BY <1>4 DEF CoreStop
    <2>2. /\ worker' \in WorkerType /\ worker'.step = st /\ worker'.action = "stop"
          /\ worker'.q = worker.q /\ worker'.armed = worker.armed
          /\ worker'.settled = worker.settled /\ worker'.attempted = worker.attempted
      <3>1. st \in GroupStep
        BY DEF GroupStep
      <3> HIDE DEF st
      <3> QED
        BY <1>1, <2>1, <3>1 DEF Confirmed, WorkerType, GroupAction
    <2>3. ~Opening' /\ ~Advancing'
      BY <2>2 DEF Opening, Advancing
    <2>4. JournalSame' /\ StepHeld'
      BY <1>1, <2>2, <2>3 DEF JournalSame, StepHeld, Doing, Confirmed
    <2>5. ~worker.q.initial => StopObserved(worker.q)
      BY <1>1 DEF HostInv, EffectsHeld, StopObserved, Confirmed
    <2>6. StepEffect'
      BY <2>2, <2>3, <2>5 DEF StepEffect, Doing
    <2>7. HelperWatched'
      BY <1>1, <2>2 DEF HelperWatched, Doing
    <2> QED
      BY <1>2, <2>2, <2>4, <2>6, <2>7 DEF WorkerInv
  <1> QED
    BY <1>3, <1>4

(* A dormant exec takes the place of the last one, which has ended.          *)
LEMMA PrepareExecKeeps ==
  ASSUME GroupInv, PrepareExec
  PROVE  GroupInv'
  <1> USE DEF GroupInv
  <1>1. /\ Confirmed /\ worker.step = "prepare" /\ helper = "idle"
        /\ native \in NativeType /\ saved \in BOOLEAN /\ record \in RecordType
        /\ record.q.effects # <<>> /\ Latest(record.q.effects).state = "preparing"
        /\ UNCHANGED <<record, helper, saved>> /\ (Stumble => Stumbles)
        /\ mishaps' \in 0..MaxMishaps
    BY StumbleIs, ConfirmedIs, MishapsBounded DEF PrepareExec, Doing, WorkerInv, StepEffect,
       Advancing, HelperWatched, HostInv, HostTypeOK, Confirmed
  <1>2. CASE Stumble /\ UNCHANGED native
    <2>1. HostInv'
      BY <1>1, <1>2, HostStays
    <2> QED
      BY <1>1, <1>2, <2>1, StumbleStays
  <1>3. CASE ~(Stumble /\ UNCHANGED native)
    <2>1. /\ native' = [native EXCEPT !.outer = "dormant", !.row = "none"]
          /\ worker' = [worker EXCEPT !.step = "prepared"]
      BY <1>3 DEF PrepareExec
    <2>2. /\ native' \in NativeType /\ native'.outer = "dormant" /\ native'.row = "none"
          /\ native'.group = native.group /\ native'.hold = native.hold
          /\ native'.touched = native.touched
      BY <1>1, <2>1 DEF NativeType
    <2>3. Goes(worker.q, "prepared")
      BY <1>1, <2>1, GoesIs DEF Confirmed, GroupStep
    <2>4. HostInv'
      <3>1. EffectsSay(native'.group, native'.row, record'.q.effects)
        BY <1>1, <2>2 DEF HostInv, PowerKnown, EffectsSay
      <3>2. RowFollows' /\ CommandFenced'
        BY <2>2 DEF RowFollows, CommandFenced
      <3>3. /\ record.q.initial /\ record.q.phase # ""
            /\ Len(record.q.effects) <= EffectLimit
        BY <1>1 DEF HostInv, EffectsHeld, CaptureKnown, Confirmed, HostTypeOK
      <3> QED
        BY <1>1, <2>2, <3>1, <3>2, <3>3, HostEffects DEF Confirmed
    <2>5. ~Opening' /\ (Stopping' => worker.armed /\ ~worker.settled)
      BY <1>1, <2>3 DEF Opening, Stopping, Advancing, Goes, WorkerInv, StepHeld
    <2>6. JournalSame' /\ HelperWatched'
      BY <1>1, <2>3 DEF JournalSame, Doing, Confirmed, Goes, HelperWatched
    <2>7. StepHeld'
      BY <1>1, <2>2, <2>3, <2>5 DEF StepHeld, Doing, Goes, Confirmed
    <2>8. StepEffect'
      BY <1>1, <2>3 DEF StepEffect, Doing, Goes, WorkerInv, Advancing
    <2> QED
      BY <2>3, <2>4, <2>6, <2>7, <2>8 DEF WorkerInv, Goes
  <1> QED
    BY <1>2, <1>3

(* The dispatched exec starts.                                               *)
LEMMA DispatchKeeps ==
  ASSUME GroupInv, Dispatch
  PROVE  GroupInv'
  <1> USE DEF GroupInv
  <1>1. /\ Confirmed /\ worker.step = "dispatch" /\ helper = "idle"
        /\ native \in NativeType /\ saved \in BOOLEAN /\ record \in RecordType
        /\ native.outer = "dormant" /\ native.row = "none"
        /\ record.q.effects # <<>> /\ Latest(record.q.effects).state = "dispatched"
        /\ Latest(record.q.effects).action = worker.action /\ record.q.phase # ""
        /\ UNCHANGED <<record, helper, saved>> /\ (Stumble => Stumbles)
        /\ mishaps' \in 0..MaxMishaps
    BY StumbleIs, ConfirmedIs, MishapsBounded DEF Dispatch, Doing, WorkerInv, StepEffect,
       Advancing, HelperWatched, HostInv, HostTypeOK, Confirmed, StepHeld, RowFollows,
       CaptureKnown
  <1>2. /\ native' \in NativeType /\ native'.group = native.group
        /\ native'.row = native.row /\ native'.hold = native.hold
        /\ native'.touched = native.touched
        /\ native'.outer \in {"dormant", "running"}
    BY <1>1 DEF Dispatch, NativeType
  <1>3. HostInv'
    <2>1. EffectsSay(native'.group, native'.row, record'.q.effects)
      BY <1>1, <1>2 DEF HostInv, PowerKnown
    <2>2. RowFollows' /\ CommandFenced'
      BY <1>1, <1>2 DEF RowFollows, CommandFenced
    <2>3. /\ record.q.initial /\ record.q.phase # ""
          /\ Len(record.q.effects) <= EffectLimit
      BY <1>1 DEF HostInv, EffectsHeld, CaptureKnown, Confirmed, HostTypeOK
    <2> QED
      BY <1>1, <1>2, <2>1, <2>2, <2>3, HostEffects DEF Confirmed
  <1>4. CASE Stumble
    BY <1>1, <1>2, <1>3, <1>4, StumbleStays
  <1>5. CASE ~Stumble
    <2>1. worker' = [worker EXCEPT !.step = "settle", !.next = "advanced"]
      BY <1>5 DEF Dispatch
    <2>2. /\ worker' \in WorkerType /\ worker'.step = "settle"
          /\ worker'.next = "advanced" /\ worker'.q = worker.q
          /\ worker'.action = worker.action /\ worker'.armed = worker.armed
          /\ worker'.settled = worker.settled
      BY <1>1, <2>1 DEF Confirmed, WorkerType, GroupStep
    <2>3. ~Opening' /\ (Stopping' => worker.armed /\ ~worker.settled)
      BY <1>1, <2>2 DEF Opening, Stopping, Advancing, WorkerInv, StepHeld
    <2>4. JournalSame' /\ HelperWatched'
      BY <1>1, <2>2 DEF JournalSame, Doing, Confirmed, HelperWatched
    <2>5. StepHeld'
      BY <1>1, <1>2, <2>2, <2>3 DEF StepHeld, Doing, Confirmed
    <2>6. StepEffect'
      BY <1>1, <2>2 DEF StepEffect, Doing, Advancing, Confirmed
    <2> QED
      BY <1>3, <2>2, <2>4, <2>5, <2>6 DEF WorkerInv
  <1> QED
    BY <1>4, <1>5

(* A settled advance continues: the group it stopped is observed stopped.    *)
LEMMA AfterWorker ==
  ASSUME GroupInv, Confirmed, Goes(worker.q, After(worker.action)),
         UNCHANGED <<record, native, helper>>,
         worker.step \in {"advance", "advanced"}, worker.q.effects # <<>>,
         Latest(worker.q.effects).action = worker.action,
         Latest(worker.q.effects).state = "observed"
  PROVE  WorkerInv'
  <1> USE DEF GroupInv
  <1>1. worker.q.initial
    BY DEF HostInv, EffectsHeld, Confirmed
  <1>2. worker.action = "stop" =>
          worker.armed /\ ~worker.settled /\ StopObserved(worker.q)
    BY <1>1 DEF WorkerInv, StepHeld, Stopping, Advancing, StopObserved
  <1>3. helper = "capturing" =>
          worker.action = "stop" /\ worker.attempted /\ ~worker.settled
    BY DEF WorkerInv, HelperWatched, Doing
  <1>4. CASE worker.action = "stop"
    <2>1. worker'.step = "stopped"
      BY <1>4 DEF Goes, After
    <2>2. ~Opening' /\ ~Advancing'
      BY <2>1 DEF Opening, Advancing
    <2>3. JournalSame' /\ StepHeld'
      BY <1>2, <1>4, <2>1, <2>2 DEF JournalSame, StepHeld, Doing, Goes, Confirmed
    <2>4. StepEffect' /\ HelperWatched'
      BY <1>2, <1>3, <1>4, <2>1, <2>2 DEF StepEffect, HelperWatched, Doing, Goes
    <2> QED
      BY <2>3, <2>4 DEF WorkerInv, Goes
  <1>5. CASE worker.action # "stop"
    <2>1. worker'.step \in {"resume", "core-start"} /\ helper # "capturing"
      BY <1>3, <1>5 DEF Goes, After
    <2>2. ~Opening' /\ ~Stopping' /\ ~Advancing'
      BY <2>1 DEF Opening, Advancing, Stopping
    <2>3. JournalSame' /\ StepHeld'
      BY <2>1, <2>2 DEF JournalSame, StepHeld, Doing, Goes, Confirmed
    <2>4. StepEffect' /\ HelperWatched'
      BY <2>1, <2>2 DEF StepEffect, HelperWatched, Doing, Goes
    <2> QED
      BY <2>3, <2>4 DEF WorkerInv, Goes
  <1> QED
    BY <1>4, <1>5

(* The end of an advance: failed, or observed.                               *)
LEMMA AdvancedKeeps ==
  ASSUME GroupInv, Advanced
  PROVE  GroupInv'
  <1> USE DEF GroupInv
  <1>1. /\ Confirmed /\ worker.step = "advanced" /\ worker \in WorkerType
        /\ UNCHANGED <<record, native, helper>> /\ (Stumble => Stumbles)
        /\ worker.q.effects # <<>> /\ Latest(worker.q.effects).action = worker.action
        /\ Latest(worker.q.effects).state \in {"observed", "failed"}
    BY StumbleIs, ConfirmedIs DEF Advanced, Doing, WorkerInv, StepEffect, Advancing,
       groupHost, Unsettled, EffectSettled
  <1>2. HostInv'
    BY HostSame DEF Advanced, Unharmed
  <1>3. CASE Stumble
    BY <1>1, <1>2, <1>3, StumbleStays
  <1>4. CASE ~Stumble
    <2>1. /\ worker' = [worker EXCEPT !.step = After(worker.action)]
          /\ Latest(worker.q.effects).state = "observed"
      BY <1>1, <1>4 DEF Advanced
    <2>2. After(worker.action) \in GroupStep
      BY DEF After, GroupStep
    <2>3. Goes(worker.q, After(worker.action))
      BY <1>1, <2>1, <2>2, GoesIs
    <2> QED
      BY <1>1, <1>2, <2>1, <2>3, AfterWorker
  <1> QED
    BY <1>3, <1>4

(* Kopia captures a group that is recorded, and therefore is, down.          *)
LEMMA CreateSnapshotKeeps ==
  ASSUME GroupInv, CreateSnapshot
  PROVE  GroupInv'
  <1> USE DEF GroupInv
  <1>1. /\ Confirmed /\ worker.step = "create" /\ worker \in WorkerType
        /\ UNCHANGED <<record, native, saved>>
        /\ helper' \in {"idle", "capturing"} /\ mishaps' \in 0..MaxMishaps
        /\ StopObserved(record.q) /\ record.q.phase = "stopped"
        /\ worker.armed /\ ~worker.settled
    BY ConfirmedIs, MishapsBounded DEF CreateSnapshot, Doing, WorkerInv, StepEffect,
       StepHeld, Stopping, Confirmed, HostInv, HostTypeOK
  <1>2. native.group = "down"
    <2>1. CASE record.q.initial
      BY <1>1, <2>1 DEF StopObserved, HostInv, PowerKnown, EffectsSay, Power, controlStarts
    <2>2. CASE ~record.q.initial
      BY <1>1, <2>2 DEF StopObserved, HostInv, CaptureKnown, Confirmed
    <2> QED
      BY <2>1, <2>2
  <1>3. HostInv'
    <2>1. HostTypeOK' /\ PowerKnown' /\ CaptureKnown'
      BY <1>1 DEF HostInv, HostTypeOK, PowerKnown, CaptureKnown
    <2>2. EffectsHeld' /\ RowFollows' /\ CommandFenced'
      BY <1>1 DEF HostInv, EffectsHeld, RowFollows, CommandFenced
    <2>3. HelperKnown'
      BY <1>1, <1>2 DEF HelperKnown, Confirmed
    <2> QED
      BY <2>1, <2>2, <2>3 DEF HostInv
  <1>4. \/ worker' = [worker EXCEPT !.attempted = TRUE, !.step = "created"]
        \/ worker' = [worker EXCEPT !.attempted = TRUE, !.step = "cleanup",
                                    !.failed = TRUE]
    BY DEF CreateSnapshot
  <1>5. /\ worker' \in WorkerType /\ worker'.step \in {"created", "cleanup"}
        /\ worker'.q = worker.q /\ worker'.attempted /\ ~worker'.settled /\ worker'.armed
    BY <1>1, <1>4 DEF WorkerType, GroupStep
  <1>6. ~Opening' /\ ~Advancing'
    BY <1>5 DEF Opening, Advancing
  <1>7. JournalSame' /\ StepHeld'
    BY <1>1, <1>5, <1>6 DEF JournalSame, StepHeld, Doing, Confirmed
  <1>8. StepEffect' /\ HelperWatched'
    BY <1>5, <1>6 DEF StepEffect, HelperWatched, Doing
  <1> QED
    BY <1>3, <1>5, <1>7, <1>8 DEF WorkerInv

(* The process goes to a step of the resumption with the record's journal.   *)
LEMMA ResumeWorker ==
  ASSUME worker' \in WorkerType, worker'.q = record'.q, record'.state = "pending",
         native'.hold, ~native'.touched, helper' = "idle",
         \/ worker'.step \in {"resume", "verify", "core-start", "restored", "complete", "fail"}
         \/ /\ worker'.step = "advance" /\ worker'.action # "stop"
            /\ worker'.q.initial
  PROVE  WorkerInv'
  <1>1. ~Opening' /\ ~Stopping' /\ ~Advancing'
    BY DEF Opening, Advancing, Stopping
  <1>2. JournalSame' /\ StepHeld'
    BY <1>1 DEF JournalSame, StepHeld, Doing
  <1>3. StepEffect' /\ HelperWatched'
    BY <1>1 DEF StepEffect, HelperWatched, Doing
  <1> QED
    BY <1>2, <1>3 DEF WorkerInv

(* The resumption chooses its next command.                                  *)
LEMMA ResumeKeeps ==
  ASSUME GroupInv, Resume
  PROVE  GroupInv'
  <1> USE DEF GroupInv
  <1>1. /\ Confirmed /\ worker.step = "resume" /\ worker \in WorkerType /\ helper = "idle"
        /\ UNCHANGED <<record, native, helper>>
    BY ConfirmedIs DEF Resume, Doing, WorkerInv, groupHost, HelperWatched, HostInv, HostTypeOK
  <1>2. HostInv'
    BY HostSame DEF Resume, Unharmed
  <1> DEFINE a == IF ~AppGroupStopped(worker.q) THEN "rollback-stop"
                  ELSE IF \E i \in DOMAIN worker.q.effects :
                            \/ worker.q.effects[i].state = "failed"
                            \/ worker.q.effects[i].action = "rollback-stop"
                       THEN "rollback-start" ELSE "start"
  <1>3. a \in GroupAction /\ a # "stop"
    BY DEF GroupAction
  <1>4. \/ worker' = [worker EXCEPT !.step = "verify"]
        \/ worker' = [worker EXCEPT !.step = "advance", !.action = a] /\ worker.q.initial
    BY DEF Resume
  <1> HIDE DEF a
  <1>5. /\ worker' \in WorkerType /\ worker'.q = worker.q
        /\ \/ worker'.step = "verify"
           \/ worker'.step = "advance" /\ worker'.action # "stop" /\ worker'.q.initial
    BY <1>1, <1>3, <1>4 DEF WorkerType, GroupStep
  <1> QED
    BY <1>1, <1>2, <1>5, ResumeWorker DEF Confirmed

(* A call that changes nothing, returning or failing.                        *)
LEMMA CallKeeps ==
  ASSUME GroupInv, NEW s, s \in {"core-start", "restored"},
         worker.step \in {"verify", "core-start"}, UNCHANGED <<record, groupHost>>,
         Call(s) \/ (Stumble /\ Unharmed)
  PROVE  GroupInv'
  <1> USE DEF GroupInv
  <1>1. /\ Confirmed /\ worker \in WorkerType /\ helper = "idle"
        /\ UNCHANGED <<record, native, helper>> /\ (Stumble => Stumbles)
    BY ConfirmedIs, StumbleIs DEF WorkerInv, groupHost, HelperWatched, HostInv, HostTypeOK,
       Doing
  <1>2. HostInv'
    BY HostSame DEF Call
  <1>3. CASE Stumble
    BY <1>1, <1>2, <1>3, StumbleStays
  <1>4. CASE ~Stumble
    <2>1. Goes(worker.q, s)
      BY <1>1, <1>4, GoesIs DEF Call, GroupStep
    <2> QED
      BY <1>1, <1>2, <2>1, ResumeWorker DEF Confirmed, Goes
  <1> QED
    BY <1>3, <1>4

(* An untouched group is verified.                                           *)
LEMMA VerifyCurrentKeeps ==
  ASSUME GroupInv, VerifyCurrent
  PROVE  GroupInv'
  BY CallKeeps DEF VerifyCurrent, Doing

(* The other containers are started.                                         *)
LEMMA CoreStartKeeps ==
  ASSUME GroupInv, CoreStart
  PROVE  GroupInv'
  BY CallKeeps DEF CoreStart, Doing

(* The operation settles.                                                    *)
LEMMA CompleteSnapshotKeeps ==
  ASSUME GroupInv, CompleteSnapshot
  PROVE  GroupInv'
  <1> USE DEF GroupInv
  <1>1. /\ Confirmed /\ worker.step = "complete" /\ helper = "idle"
        /\ UNCHANGED <<native, helper, saved>> /\ record \in RecordType
        /\ saved \in BOOLEAN /\ mishaps' \in 0..MaxMishaps
    BY ConfirmedIs, MishapsBounded DEF CompleteSnapshot, Doing, WorkerInv, groupHost,
       HelperWatched, HostInv, HostTypeOK
  <1> DEFINE r == [record EXCEPT !.state = "completed"]
  <1>2. r \in RecordType /\ r.q = record.q /\ r.state = "completed"
    BY <1>1 DEF RecordType
  <1>3. record' \in {record, r}
    BY DEF CompleteSnapshot
  <1>4. HostInv'
    <2> HIDE DEF r
    <2> QED
      BY <1>1, <1>2, <1>3, HostStays
  <1>5. CASE worker' = Rest
    BY <1>4, <1>5, RestWorker
  <1>6. CASE worker' # Rest
    <2>1. record' = r /\ worker' = [worker EXCEPT !.step = "close"]
      BY <1>6 DEF CompleteSnapshot
    <2>2. worker' \in WorkerType /\ worker'.step = "close"
      BY <1>1, <2>1 DEF Confirmed, WorkerType, GroupStep
    <2> HIDE DEF r
    <2> QED
      BY <1>1, <1>2, <1>4, <2>1, <2>2, CloseWorker
  <1> QED
    BY <1>5, <1>6

(* A restored operation ends as failed.                                      *)
LEMMA SettleFailedSnapshotKeeps ==
  ASSUME GroupInv, SettleFailedSnapshot
  PROVE  GroupInv'
  <1> USE DEF GroupInv
  <1>1. /\ worker \in WorkerType /\ record.q \in Quiescence
        /\ UNCHANGED <<native, helper, saved>> /\ record \in RecordType
        /\ saved \in BOOLEAN /\ mishaps' \in 0..MaxMishaps
        /\ (record.q.phase = "restored" => helper = "idle")
    BY MishapsBounded DEF SettleFailedSnapshot, WorkerInv, groupHost, RecordType,
       HelperKnown, HostInv, HostTypeOK
  <1> DEFINE r == [record EXCEPT !.state = "failed"]
  <1>2. r \in RecordType /\ r.q = record.q /\ r.state = "failed"
    BY <1>1 DEF RecordType
  <1>3. record' = record \/ (record' = r /\ helper = "idle")
    BY <1>1 DEF SettleFailedSnapshot
  <1>4. HostInv'
    <2> HIDE DEF r
    <2> QED
      BY <1>1, <1>2, <1>3, HostStays
  <1>5. CASE worker' = Rest
    BY <1>4, <1>5, RestWorker
  <1>6. CASE worker' # Rest
    <2>1. /\ record' = r /\ worker' = [worker EXCEPT !.step = "close", !.q = record.q]
          /\ helper = "idle"
      BY <1>1, <1>6 DEF SettleFailedSnapshot
    <2>2. worker' \in WorkerType /\ worker'.step = "close"
      BY <1>1, <2>1 DEF WorkerType, GroupStep
    <2> HIDE DEF r
    <2> QED
      BY <1>1, <1>2, <1>4, <2>1, <2>2, CloseWorker
  <1> QED
    BY <1>5, <1>6

(* The hold is released, once the operation is settled.                      *)
LEMMA CloseGroupKeeps ==
  ASSUME GroupInv, CloseGroup
  PROVE  GroupInv'
  <1> USE DEF GroupInv
  <1>1. /\ native \in NativeType /\ record \in RecordType /\ helper = "idle"
        /\ record.state \in {"completed", "failed"}
        /\ UNCHANGED <<helper, saved>> /\ mishaps' \in 0..MaxMishaps /\ worker' = Rest
    BY MishapsBounded DEF CloseGroup, Doing, WorkerInv, StepHeld, HelperKnown, HostInv,
       HostTypeOK
  <1>2. /\ native' \in NativeType /\ native'.group = native.group
        /\ native'.row = native.row /\ native'.outer = native.outer
        /\ native'.touched = native.touched /\ (native'.hold => native.hold)
    BY <1>1 DEF CloseGroup, NativeType
  <1>3. record' \in RecordType /\ record'.q = record.q /\ record'.state = record.state
    <2>1. native'.hold \in BOOLEAN
      BY <1>2 DEF NativeType
    <2>2. \/ record' = record
          \/ record' = [record EXCEPT !.closed = TRUE]
          \/ record' = [record EXCEPT !.closed = ~native'.hold]
      BY DEF CloseGroup
    <2> QED
      BY <1>1, <2>1, <2>2 DEF RecordType
  <1>4. HostInv'
    <2>1. HostTypeOK' /\ PowerKnown' /\ CommandFenced'
      BY <1>1, <1>2, <1>3 DEF HostInv, HostTypeOK, PowerKnown, CommandFenced
    <2>2. CaptureKnown' /\ RowFollows'
      BY <1>2, <1>3 DEF HostInv, CaptureKnown, RowFollows
    <2>3. EffectsHeld' /\ HelperKnown'
      BY <1>1, <1>2, <1>3 DEF HostInv, EffectsHeld, HelperKnown
    <2> QED
      BY <2>1, <2>2, <2>3 DEF HostInv
  <1> QED
    BY <1>1, <1>4, RestWorker

-----------------------------------------------------------------------------
(* A native group: the writes of the journal.                              *)

(* A write of a phase leaves the recorded effects as they are: one that the  *)
(* process does not know of yet is refused.                                  *)
LEMMA PhaseWritten ==
  ASSUME GroupInv, NEW p, p \in {"stopped", "snapshot-created", "resuming", "restored"},
         NEW s \in GroupStep, WritePhase(p, s), UNCHANGED groupHost,
         worker.step \in {"stopped", "created", "resuming", "restored"},
         helper = "idle" \/ p = "stopped"
  PROVE  /\ HostInv'
         /\ \/ WorkerInv'
            \/ /\ worker' \in WorkerType /\ worker'.step = s /\ worker'.q = record'.q
               /\ worker'.armed = worker.armed /\ worker'.attempted = worker.attempted
               /\ worker'.settled = worker.settled
               /\ record'.q.effects = worker.q.effects
               /\ record'.q.initial = worker.q.initial /\ record'.q.phase = p
               /\ record'.state = "pending" /\ native'.hold /\ ~native'.touched
  <1> USE DEF GroupInv
  <1>1. /\ worker \in WorkerType /\ worker.q \in Quiescence
        /\ record \in RecordType /\ record.q \in Quiescence
        /\ mishaps \in 0..MaxMishaps /\ UNCHANGED <<native, helper, saved>>
    BY DEF WorkerInv, WorkerType, HostInv, HostTypeOK, RecordType, groupHost
  <1>2. /\ record.state = "pending" /\ native.hold /\ ~native.touched
        /\ record.q.phase # "" /\ worker.q.initial = record.q.initial
        /\ \/ worker.q.effects = record.q.effects
           \/ Ahead(worker.q.effects, record.q.effects)
    BY DEF WorkerInv, StepHeld, JournalSame, HostInv, CaptureKnown
  <1> DEFINE q == [worker.q EXCEPT !.phase = p]
  <1>3. /\ q \in Quiescence /\ q.phase = p /\ q.initial = worker.q.initial
        /\ q.effects = worker.q.effects
    BY <1>1 DEF Quiescence
  <1>4. Write(q, s)
    BY DEF WritePhase
  <1> HIDE DEF q
  <1>5. /\ record' \in RecordType /\ record'.state = record.state
        /\ mishaps' \in 0..MaxMishaps
        /\ record'.q = record.q \/ (Accepted(q) /\ record'.q = q)
        /\ Stumbles \/ (Goes(q, s) /\ record'.q = q)
    BY <1>1, <1>3, <1>4, WriteIs
  <1>6. Accepted(q) => q.effects = record.q.effects
    <2>1. worker.q.effects \in Seq(Effect) /\ record.q.effects \in Seq(Effect)
      BY <1>1 DEF Quiescence
    <2> QED
      BY <1>2, <1>3, <2>1, PhaseOnly DEF Accepted
  <1>7. HostInv'
    <2>1. CASE record'.q = record.q
      BY <1>1, <1>5, <2>1, HostStays DEF HostInv, HostTypeOK
    <2>2. CASE Accepted(q) /\ record'.q = q
      BY <1>1, <1>2, <1>3, <1>5, <1>6, <2>2, HostPhase
    <2> QED
      BY <1>5, <2>1, <2>2
  <1>8. record'.q.effects = record.q.effects /\ record'.q.initial = record.q.initial
    BY <1>2, <1>3, <1>5, <1>6
  <1>9. Stumbles => WorkerInv'
    BY <1>1, <1>5, <1>8, StumbleStays
  <1> QED
    BY <1>1, <1>2, <1>3, <1>5, <1>7, <1>9 DEF Goes

(* The stopped group is recorded.                                            *)
LEMMA StoppedKeeps ==
  ASSUME GroupInv, Stopped
  PROVE  GroupInv'
  <1> USE DEF GroupInv
  <1>1. /\ Confirmed /\ worker.step = "stopped" /\ worker.armed /\ ~worker.settled
        /\ StopObserved(worker.q) /\ UNCHANGED groupHost /\ (Stumble => Stumbles)
        /\ (helper = "capturing" => worker.attempted)
    BY StumbleIs, ConfirmedIs DEF Stopped, Doing, WorkerInv, StepHeld, Stopping,
       HelperWatched, StepEffect
  <1>2. CASE Stumble /\ Unharmed /\ UNCHANGED record
    <2>1. HostInv'
      BY <1>1, <1>2, HostSame
    <2> QED
      BY <1>1, <1>2, <2>1, StumbleStays DEF groupHost
  <1>3. CASE WritePhase("stopped", "create")
    <2>1. HostInv'
      BY <1>1, <1>3, PhaseWritten DEF GroupStep
    <2>2. CASE WorkerInv'
      BY <2>1, <2>2
    <2>3. CASE ~WorkerInv'
      <3>1. /\ worker' \in WorkerType /\ worker'.step = "create"
            /\ worker'.q = record'.q
            /\ worker'.armed = worker.armed /\ worker'.attempted = worker.attempted
            /\ worker'.settled = worker.settled
            /\ record'.q.effects = worker.q.effects
            /\ record'.q.initial = worker.q.initial /\ record'.q.phase = "stopped"
            /\ record'.state = "pending" /\ native'.hold /\ ~native'.touched
        BY <1>1, <1>3, <2>3, PhaseWritten DEF GroupStep
      <3>2. ~Opening' /\ ~Advancing'
        BY <3>1 DEF Opening, Advancing
      <3>3. JournalSame' /\ StepHeld'
        BY <1>1, <3>1, <3>2 DEF JournalSame, StepHeld, Doing
      <3>4. StopObserved(worker'.q)
        BY <1>1, <3>1 DEF StopObserved
      <3>5. StepEffect' /\ HelperWatched'
        BY <1>1, <3>1, <3>2, <3>4 DEF StepEffect, HelperWatched, Doing, groupHost
      <3> QED
        BY <2>1, <3>1, <3>3, <3>5 DEF WorkerInv
    <2> QED
      BY <2>2, <2>3
  <1> QED
    BY <1>2, <1>3 DEF Stopped

(* The snapshot is recorded.                                                 *)
LEMMA CreatedKeeps ==
  ASSUME GroupInv, Created
  PROVE  GroupInv'
  <1> USE DEF GroupInv
  <1>1. /\ Confirmed /\ worker.step = "created" /\ helper = "idle"
        /\ UNCHANGED groupHost /\ (Stumble => Stumbles)
    BY StumbleIs, ConfirmedIs DEF Created, Doing, WorkerInv
  <1>2. CASE Stumble /\ Unharmed /\ UNCHANGED record
    <2>1. HostInv'
      BY <1>1, <1>2, HostSame
    <2> QED
      BY <1>1, <1>2, <2>1, StumbleStays DEF groupHost
  <1>3. CASE WritePhase("snapshot-created", "cleanup")
    <2>1. HostInv'
      BY <1>1, <1>3, PhaseWritten DEF GroupStep
    <2>2. CASE WorkerInv'
      BY <2>1, <2>2
    <2>3. CASE ~WorkerInv'
      <3>1. /\ worker' \in WorkerType /\ worker'.step = "cleanup"
            /\ worker'.q = record'.q /\ record'.q.phase = "snapshot-created"
            /\ record'.state = "pending" /\ native'.hold /\ ~native'.touched
        BY <1>1, <1>3, <2>3, PhaseWritten DEF GroupStep
      <3> QED
        BY <1>1, <2>1, <3>1, CleanupWorker DEF groupHost
    <2> QED
      BY <2>2, <2>3
  <1> QED
    BY <1>2, <1>3 DEF Created

(* The resumption is recorded.                                               *)
LEMMA ResumingKeeps ==
  ASSUME GroupInv, Resuming
  PROVE  GroupInv'
  <1> USE DEF GroupInv
  <1>1. /\ worker.step = "resuming" /\ helper = "idle" /\ UNCHANGED groupHost
        /\ WritePhase("resuming", "resume")
    BY DEF Resuming, Doing, WorkerInv, HelperWatched, HostInv, HostTypeOK
  <1>2. HostInv'
    BY <1>1, PhaseWritten DEF GroupStep
  <1>3. CASE WorkerInv'
    BY <1>2, <1>3
  <1>4. CASE ~WorkerInv'
    <2>1. /\ worker' \in WorkerType /\ worker'.step = "resume" /\ worker'.q = record'.q
          /\ record'.state = "pending" /\ native'.hold /\ ~native'.touched
      BY <1>1, <1>4, PhaseWritten DEF GroupStep
    <2> QED
      BY <1>1, <1>2, <2>1, ResumeWorker DEF groupHost
  <1> QED
    BY <1>3, <1>4

(* The restored group is recorded.                                           *)
LEMMA RecordRestoredKeeps ==
  ASSUME GroupInv, RecordRestored
  PROVE  GroupInv'
  <1> USE DEF GroupInv
  <1> DEFINE s == IF worker.failed THEN "fail" ELSE "complete"
  <1>1. /\ worker.step = "restored" /\ helper = "idle" /\ UNCHANGED groupHost
        /\ WritePhase("restored", s) /\ s \in GroupStep /\ s \in {"fail", "complete"}
    BY DEF RecordRestored, Doing, WorkerInv, HelperWatched, HostInv, HostTypeOK, GroupStep
  <1> HIDE DEF s
  <1>2. HostInv'
    BY <1>1, PhaseWritten
  <1>3. CASE WorkerInv'
    BY <1>2, <1>3
  <1>4. CASE ~WorkerInv'
    <2>1. /\ worker' \in WorkerType /\ worker'.step = s /\ worker'.q = record'.q
          /\ record'.state = "pending" /\ native'.hold /\ ~native'.touched
      BY <1>1, <1>4, PhaseWritten
    <2> QED
      BY <1>1, <1>2, <2>1, ResumeWorker DEF groupHost
  <1> QED
    BY <1>3, <1>4

(* The power of the group is captured before the manager is closed.          *)
LEMMA CaptureKeeps ==
  ASSUME GroupInv, Capture
  PROVE  GroupInv'
  <1> USE DEF GroupInv
  <1>1. /\ worker \in WorkerType /\ worker.step = "capture" /\ record.q.phase = ""
        /\ record.q = Rest.q /\ ~native.hold /\ record.state = "pending"
        /\ record.q.effects = <<>> /\ helper = "idle" /\ native \in NativeType
        /\ record \in RecordType /\ saved \in BOOLEAN /\ mishaps \in 0..MaxMishaps
        /\ UNCHANGED <<helper, saved>> /\ ~worker.armed /\ ~worker.settled
    BY RestIs DEF Capture, Doing, WorkerInv, StepHeld, HostInv, HostTypeOK, CaptureKnown,
       HelperKnown, Opening
  <1> DEFINE q == [phase |-> "prepared", initial |-> native.group = "running",
                   effects |-> <<>>]
  <1>2. /\ q \in Quiescence /\ q.phase = "prepared" /\ q.effects = <<>>
        /\ (q.initial <=> native.group = "running")
    <2>1. <<>> \in Seq(Effect)
      OBVIOUS
    <2> QED
      BY <2>1 DEF Quiescence
  <1>3. Write(q, "hold")
    BY DEF Capture
  <1>4. /\ native' \in NativeType /\ native'.group = native.group
        /\ native'.row = native.row /\ native'.outer = native.outer
        /\ ~native'.touched /\ native'.hold = native.hold
    BY <1>1 DEF Capture, NativeType
  <1> HIDE DEF q
  <1>5. /\ record' \in RecordType /\ record'.state = record.state
        /\ mishaps' \in 0..MaxMishaps
        /\ record'.q = record.q \/ record'.q = q
        /\ Stumbles \/ (Goes(q, "hold") /\ record'.q = q)
    BY <1>1, <1>2, <1>3, WriteIs DEF GroupStep
  <1>6. record'.q.effects = <<>>
    BY <1>1, <1>2, <1>5
  <1>7. HostInv'
    <2>1. HostTypeOK'
      BY <1>1, <1>4, <1>5, <1>6 DEF HostInv, HostTypeOK
    <2>2. PowerKnown' /\ EffectsHeld' /\ HelperKnown'
      BY <1>1, <1>6 DEF PowerKnown, EffectsSay, EffectsHeld, HelperKnown
    <2>3. native.group \in {"running", "down"}
      BY <1>1 DEF HostInv, CaptureKnown
    <2>4. CaptureKnown'
      BY <1>1, <1>2, <1>4, <1>5, <1>6, <2>3 DEF CaptureKnown
    <2>5. RowFollows' /\ CommandFenced'
      BY <1>1, <1>4 DEF HostInv, RowFollows, CommandFenced
    <2> QED
      BY <2>1, <2>2, <2>4, <2>5 DEF HostInv
  <1>8. CASE Stumbles
    BY <1>1, <1>5, <1>7, <1>8, StumbleWorker
  <1>9. CASE Goes(q, "hold") /\ record'.q = q
    <2>1. ~Stopping' /\ ~Advancing'
      BY <1>9 DEF Stopping, Advancing, Goes
    <2>2. JournalSame' /\ StepHeld'
      BY <1>1, <1>2, <1>5, <1>9, <2>1 DEF JournalSame, StepHeld, Doing, Goes
    <2>3. StepEffect' /\ HelperWatched'
      BY <1>1, <1>9, <2>1 DEF StepEffect, HelperWatched, Doing, Goes
    <2> QED
      BY <1>7, <1>9, <2>2, <2>3 DEF WorkerInv, Goes
  <1> QED
    BY <1>5, <1>8, <1>9

(* A step of the latest effect is recorded: on its evidence, while no native *)
(* command may act.                                                          *)
LEMMA EffectWritten ==
  ASSUME GroupInv, NEW st \in EffectState, NEW oc \in Outcome, NEW s \in GroupStep,
         WriteLatest(st, oc, s),
         worker.step \in {"prepared", "dispatched", "settle", "cancel"},
         helper = "idle", helper' = helper, saved' = saved, native' \in NativeType,
         native'.group = native.group, native'.hold = native.hold,
         native'.touched = native.touched, RowFollows',
         native'.outer # "running", native'.row \notin {"accepted", "claimed", "acting"},
         EffectsSay(native'.group, native'.row, record.q.effects),
         worker.q.effects # <<>>,
         <<Latest(worker.q.effects).state, st>> \in EffectSteps,
         worker.q.effects = record.q.effects
           => Evidence(native'.row, Latest(worker.q.effects), st, oc),
         \/ worker.q.effects = record.q.effects
         \/ /\ Ahead(worker.q.effects, record.q.effects)
            /\ Latest(worker.q.effects).state \notin {"preparing", "prepared"}
  PROVE  /\ HostInv'
         /\ \/ WorkerInv'
            \/ /\ Goes(record'.q, s) /\ record'.q.effects # <<>>
               /\ Latest(record'.q.effects) = [action |-> Latest(worker.q.effects).action,
                                               state |-> st, outcome |-> oc]
               /\ record'.state = "pending" /\ native'.hold /\ ~native'.touched
  <1> USE DEF GroupInv
  <1>1. /\ worker \in WorkerType /\ worker.q \in Quiescence
        /\ worker.q.effects \in Seq(Effect)
        /\ record \in RecordType /\ record.q \in Quiescence
        /\ record.q.effects \in Seq(Effect)
        /\ mishaps \in 0..MaxMishaps /\ saved \in BOOLEAN
        /\ Len(record.q.effects) <= EffectLimit
    BY DEF WorkerInv, WorkerType, HostInv, HostTypeOK, RecordType, Quiescence
  <1>2. /\ record.state = "pending" /\ native.hold /\ ~native.touched
        /\ record.q.phase # "" /\ worker.q.initial = record.q.initial
        /\ worker.q.phase # ""
    BY DEF WorkerInv, StepHeld, JournalSame, HostInv, CaptureKnown
  <1>3. record.q.effects # <<>> /\ record.q.initial
    <2>1. record.q.effects # <<>>
      BY <1>1 DEF Ahead
    <2> QED
      BY <2>1 DEF HostInv, EffectsHeld
  <1> DEFINE q == WithLatest(worker.q, st, oc)
  <1>4. Write(q, s)
    BY DEF WriteLatest, WithLatest
  <1>5. /\ q \in Quiescence /\ q.phase = worker.q.phase /\ q.initial = worker.q.initial
        /\ q.effects # <<>> /\ Len(q.effects) = Len(worker.q.effects)
        /\ \A i \in 1..(Len(worker.q.effects) - 1) : q.effects[i] = worker.q.effects[i]
        /\ Latest(q.effects) = [action |-> Latest(worker.q.effects).action,
                                state |-> st, outcome |-> oc]
    BY <1>1, LatestWritten
  <1> HIDE DEF q
  <1>6. /\ q.effects \in Seq(Effect) /\ Latest(q.effects).state = st
        /\ Latest(q.effects).action = Latest(worker.q.effects).action
    <2>1. q.effects \in Seq(Effect)
      BY <1>5 DEF Quiescence
    <2> QED
      BY <1>5, <2>1
  <1>7. /\ record' \in RecordType /\ record'.state = record.state
        /\ mishaps' \in 0..MaxMishaps
        /\ record'.q = record.q \/ (Accepted(q) /\ record'.q = q)
        /\ Stumbles \/ (Goes(q, s) /\ record'.q = q)
    BY <1>1, <1>4, <1>5, WriteIs
  <1>8. Accepted(q) =>
          /\ EffectsSay(native'.group, native'.row, q.effects)
          /\ Len(q.effects) <= EffectLimit
    <2> SUFFICES ASSUME Accepted(q)
                 PROVE  /\ EffectsSay(native'.group, native'.row, q.effects)
                        /\ Len(q.effects) <= EffectLimit
      OBVIOUS
    <2>1. CASE worker.q.effects = record.q.effects
      <3>1. EffectsSay(native'.group, native'.row, q.effects)
        <4> DEFINE g == native'.group
                   row == native'.row
                   u == worker.q.effects
                   t == q.effects
        <4>1. /\ u \in Seq(Effect) /\ t \in Seq(Effect) /\ u # <<>> /\ Len(t) = Len(u)
              /\ \A i \in 1..(Len(u) - 1) : t[i] = u[i]
              /\ Latest(t) = [action |-> Latest(u).action, state |-> st, outcome |-> oc]
              /\ Evidence(row, Latest(u), st, oc) /\ EffectsSay(g, row, u)
          BY <1>1, <1>5, <1>6, <2>1
        <4> HIDE DEF g, row, u, t
        <4>2. EffectsSay(g, row, t)
          BY <4>1, StepSays
        <4> QED
          BY <4>2 DEF g, row, t
      <3> QED
        BY <1>1, <1>5, <2>1, <3>1
    <2>2. CASE worker.q.effects # record.q.effects
      <3>1. q.effects = record.q.effects \/ ValidAppGroupTransition(record.q.effects, q.effects)
        BY <1>2 DEF Accepted
      <3>2. q.effects = record.q.effects
        BY <1>1, <1>5, <1>6, <2>2, <3>1, NoOverwrite
      <3> QED
        BY <1>1, <3>2
    <2> QED
      BY <2>1, <2>2
  <1>9. HostInv'
    <2>1. /\ record'.q.effects # <<>> /\ record'.q.initial /\ record'.q.phase # ""
          /\ Len(record'.q.effects) <= EffectLimit
          /\ EffectsSay(native'.group, native'.row, record'.q.effects)
      <3>1. CASE record'.q = record.q
        BY <1>1, <1>2, <1>3, <3>1
      <3>2. CASE Accepted(q) /\ record'.q = q
        BY <1>2, <1>3, <1>5, <1>8, <3>2
      <3> QED
        BY <1>7, <3>1, <3>2
    <2>2. CommandFenced'
      BY DEF CommandFenced
    <2> QED
      BY <1>1, <1>2, <1>7, <2>1, <2>2, HostEffects
  <1>10. Stumbles => WorkerInv'
    <2>1. Ahead(worker.q.effects, q.effects)
      BY <1>5, <1>6 DEF Ahead
    <2>2. /\ worker.q.initial = record'.q.initial
          /\ \/ worker.q.effects = record'.q.effects
             \/ Ahead(worker.q.effects, record'.q.effects)
      BY <1>2, <1>5, <1>7, <2>1
    <2> QED
      BY <1>1, <1>2, <1>7, <2>2, StumbleWorker
  <1> QED
    BY <1>2, <1>5, <1>7, <1>9, <1>10

(* The exec is recorded, then its dispatch.                                  *)
LEMMA RecordPreparedKeeps ==
  ASSUME GroupInv, RecordPrepared
  PROVE  GroupInv'
  <1> USE DEF GroupInv
  <1> DEFINE u == worker.q.effects
             e == Latest(u)
  <1>1. /\ Confirmed /\ worker.step = "prepared" /\ helper = "idle"
        /\ native \in NativeType /\ native.outer = "dormant" /\ native.row = "none"
        /\ UNCHANGED <<native, helper, saved>> /\ RowFollows' /\ PowerKnown
        /\ u # <<>> /\ e.state = "preparing" /\ e.action = worker.action
        /\ WriteLatest("prepared", "none", "dispatched")
    BY ConfirmedIs DEF RecordPrepared, Doing, WorkerInv, StepEffect, Advancing,
       HelperWatched, HostInv, HostTypeOK, StepHeld, RowFollows, groupHost
  <1>2. /\ "prepared" \in EffectState /\ "none" \in Outcome /\ "dispatched" \in GroupStep
        /\ <<e.state, "prepared">> \in EffectSteps
        /\ Evidence(native'.row, e, "prepared", "none")
    BY <1>1 DEF EffectState, Outcome, GroupStep, EffectSteps, Evidence
  <1>3. EffectsSay(native'.group, native'.row, record.q.effects)
    BY <1>1 DEF PowerKnown
  <1>4. HostInv'
    BY <1>1, <1>2, <1>3, EffectWritten DEF Confirmed
  <1>5. CASE WorkerInv'
    BY <1>4, <1>5
  <1>6. CASE ~WorkerInv'
    <2>1. /\ Goes(record'.q, "dispatched") /\ record'.q.effects # <<>>
          /\ Latest(record'.q.effects) = [action |-> e.action,
                                          state |-> "prepared", outcome |-> "none"]
          /\ record'.state = "pending" /\ native'.hold /\ ~native'.touched
      BY <1>1, <1>2, <1>3, <1>6, EffectWritten DEF Confirmed
    <2>2. ~Opening' /\ (Stopping' => worker.armed /\ ~worker.settled)
      BY <1>1, <2>1 DEF Opening, Stopping, Advancing, WorkerInv, StepHeld, Goes
    <2>3. JournalSame' /\ HelperWatched'
      BY <1>1, <2>1 DEF JournalSame, Doing, HelperWatched, Goes
    <2>4. StepHeld'
      BY <1>1, <2>1, <2>2 DEF StepHeld, Doing, Goes
    <2>5. StepEffect'
      BY <1>1, <2>1 DEF StepEffect, Doing, Advancing, Goes
    <2> QED
      BY <1>4, <2>1, <2>3, <2>4, <2>5 DEF WorkerInv, Goes
  <1> QED
    BY <1>5, <1>6

(* The dispatch is recorded before the exec starts.                          *)
LEMMA RecordDispatchedKeeps ==
  ASSUME GroupInv, RecordDispatched
  PROVE  GroupInv'
  <1> USE DEF GroupInv
  <1> DEFINE u == worker.q.effects
             e == Latest(u)
  <1>1. /\ Confirmed /\ worker.step = "dispatched" /\ helper = "idle"
        /\ native \in NativeType /\ native.outer = "dormant" /\ native.row = "none"
        /\ UNCHANGED <<native, helper, saved>> /\ RowFollows' /\ PowerKnown
        /\ u # <<>> /\ e.state = "prepared" /\ e.action = worker.action
        /\ WriteLatest("dispatched", "none", "dispatch")
    BY ConfirmedIs DEF RecordDispatched, Doing, WorkerInv, StepEffect, Advancing,
       HelperWatched, HostInv, HostTypeOK, StepHeld, RowFollows, groupHost
  <1>2. /\ "dispatched" \in EffectState /\ "none" \in Outcome /\ "dispatch" \in GroupStep
        /\ <<e.state, "dispatched">> \in EffectSteps
        /\ Evidence(native'.row, e, "dispatched", "none")
    BY <1>1 DEF EffectState, Outcome, GroupStep, EffectSteps, Evidence
  <1>3. EffectsSay(native'.group, native'.row, record.q.effects)
    BY <1>1 DEF PowerKnown
  <1>4. HostInv'
    BY <1>1, <1>2, <1>3, EffectWritten DEF Confirmed
  <1>5. CASE WorkerInv'
    BY <1>4, <1>5
  <1>6. CASE ~WorkerInv'
    <2>1. /\ Goes(record'.q, "dispatch") /\ record'.q.effects # <<>>
          /\ Latest(record'.q.effects) = [action |-> e.action,
                                          state |-> "dispatched", outcome |-> "none"]
          /\ record'.state = "pending" /\ native'.hold /\ ~native'.touched
      BY <1>1, <1>2, <1>3, <1>6, EffectWritten DEF Confirmed
    <2>2. ~Opening' /\ (Stopping' => worker.armed /\ ~worker.settled)
      BY <1>1, <2>1 DEF Opening, Stopping, Advancing, WorkerInv, StepHeld, Goes
    <2>3. JournalSame' /\ HelperWatched'
      BY <1>1, <2>1 DEF JournalSame, Doing, HelperWatched, Goes
    <2>4. StepHeld'
      BY <1>1, <2>1, <2>2 DEF StepHeld, Doing, Goes
    <2>5. StepEffect'
      BY <1>1, <2>1 DEF StepEffect, Doing, Advancing, Goes
    <2> QED
      BY <1>4, <2>1, <2>3, <2>4, <2>5 DEF WorkerInv, Goes
  <1> QED
    BY <1>5, <1>6

(* An outcome is recorded, and the settlement goes on.                       *)
LEMMA SettleWritten ==
  ASSUME GroupInv, NEW st \in EffectState, NEW oc \in Outcome,
         WriteLatest(st, oc, "settle"), worker.step \in {"settle", "cancel"},
         helper = "idle", helper' = helper, saved' = saved, native' \in NativeType,
         native'.group = native.group, native'.hold = native.hold,
         native'.touched = native.touched, RowFollows',
         native'.outer # "running", native'.row \notin {"accepted", "claimed", "acting"},
         EffectsSay(native'.group, native'.row, record.q.effects),
         worker.q.effects # <<>>,
         <<Latest(worker.q.effects).state, st>> \in EffectSteps,
         worker.q.effects = record.q.effects
           => Evidence(native'.row, Latest(worker.q.effects), st, oc),
         \/ worker.q.effects = record.q.effects
         \/ /\ Ahead(worker.q.effects, record.q.effects)
            /\ Latest(worker.q.effects).state \notin {"preparing", "prepared"}
  PROVE  GroupInv'
  <1> USE DEF GroupInv
  <1>1. "settle" \in GroupStep
    BY DEF GroupStep
  <1>2. HostInv'
    BY <1>1, EffectWritten
  <1>3. CASE WorkerInv'
    BY <1>2, <1>3
  <1>4. CASE ~WorkerInv'
    <2>1. /\ Goes(record'.q, "settle") /\ record'.q.effects # <<>>
          /\ Latest(record'.q.effects) = [action |-> Latest(worker.q.effects).action,
                                          state |-> st, outcome |-> oc]
          /\ record'.state = "pending" /\ native'.hold /\ ~native'.touched
      BY <1>1, <1>4, EffectWritten
    <2>2. /\ Opening' => ~worker.armed /\ ~worker.settled
          /\ Stopping' => worker.armed /\ ~worker.settled
      BY <2>1 DEF Opening, Stopping, Advancing, WorkerInv, StepHeld, Goes
    <2>3. record'.q.phase # ""
      BY <1>2, <2>1 DEF HostInv, CaptureKnown
    <2>4. JournalSame' /\ HelperWatched'
      BY <2>1, <2>3 DEF JournalSame, Doing, HelperWatched, Goes
    <2>5. StepHeld'
      BY <2>1, <2>2 DEF StepHeld, Doing, Goes
    <2>6. StepEffect'
      <3>1. Advancing' => Latest(worker.q.effects).action = worker.action
        BY <2>1 DEF WorkerInv, StepEffect, Advancing, Goes
      <3> QED
        BY <2>1, <3>1 DEF StepEffect, Doing, Goes
    <2> QED
      BY <1>2, <2>1, <2>4, <2>5, <2>6 DEF WorkerInv, Goes
  <1> QED
    BY <1>3, <1>4

(* A cancelled command is one that nobody claimed.                           *)
LEMMA CancelAcceptedKeeps ==
  ASSUME GroupInv, CancelAccepted
  PROVE  GroupInv'
  <1> USE DEF GroupInv
  <1> DEFINE u == worker.q.effects
             e == Latest(u)
  <1>1. /\ worker \in WorkerType /\ worker.step = "cancel" /\ helper = "idle"
        /\ native \in NativeType /\ native.outer = "ended" /\ u = record.q.effects
        /\ UNCHANGED <<helper, saved>> /\ PowerKnown /\ (Stumble => Stumbles)
        /\ u # <<>> /\ e.state = "dispatched"
    BY StumbleIs DEF CancelAccepted, Doing, WorkerInv, StepEffect, HelperWatched, HostInv,
       HostTypeOK, StepHeld, JournalSame
  <1>2. CASE Stumble /\ UNCHANGED <<record, native>> /\ (Mishap \/ Unharmed)
    <2>1. HostInv'
      BY <1>1, <1>2, HostSame DEF groupHost
    <2> QED
      BY <1>1, <1>2, <2>1, StumbleStays
  <1>3. CASE /\ native.row = "accepted"
             /\ native' = [native EXCEPT !.row = "cancelled"]
             /\ WriteLatest("negative-adopted", "inert", "settle")
    <2>1. /\ native' \in NativeType /\ native'.row = "cancelled"
          /\ native'.outer = "ended" /\ native'.group = native.group
          /\ native'.hold = native.hold /\ native'.touched = native.touched
      BY <1>1, <1>3 DEF NativeType
    <2>2. /\ "negative-adopted" \in EffectState /\ "inert" \in Outcome
          /\ <<e.state, "negative-adopted">> \in EffectSteps
          /\ Evidence(native'.row, e, "negative-adopted", "inert")
      BY <1>1, <2>1 DEF EffectState, Outcome, EffectSteps, Evidence
    <2>3. EffectsSay(native'.group, native'.row, record.q.effects)
      BY <1>1, <1>3, <2>1 DEF PowerKnown, EffectsSay
    <2>4. RowFollows'
      BY <2>1 DEF RowFollows
    <2> QED
      BY <1>1, <1>3, <2>1, <2>2, <2>3, <2>4, SettleWritten
  <1> QED
    BY <1>2, <1>3 DEF CancelAccepted, CancelAdmitted

(* What a settlement knows of the latest effect it has to settle.            *)
LEMMA SettleKnows ==
  ASSUME GroupInv, worker.step = "settle", Unsettled(worker.q.effects)
  PROVE  /\ helper = "idle" /\ worker \in WorkerType /\ native \in NativeType
         /\ record.state = "pending" /\ native.hold /\ ~native.touched
         /\ worker.q.effects # <<>> /\ worker.q.effects \in Seq(Effect)
         /\ record.q.effects \in Seq(Effect)
         /\ Latest(worker.q.effects).outcome \in Outcome
         /\ RowFollows /\ EffectsSay(native.group, native.row, record.q.effects)
         /\ \/ worker.q.effects = record.q.effects
            \/ Ahead(worker.q.effects, record.q.effects)
  <1> USE DEF GroupInv
  <1>1. /\ worker \in WorkerType /\ native \in NativeType /\ record.state = "pending"
        /\ native.hold /\ ~native.touched /\ RowFollows
        /\ EffectsSay(native.group, native.row, record.q.effects)
        /\ \/ worker.q.effects = record.q.effects
           \/ Ahead(worker.q.effects, record.q.effects)
    BY DEF WorkerInv, HostInv, HostTypeOK, StepHeld, JournalSame, PowerKnown
  <1>2. worker.q.effects \in Seq(Effect) /\ record.q.effects \in Seq(Effect)
    BY <1>1 DEF HostInv, HostTypeOK, RecordType, WorkerType, Quiescence
  <1>3. worker.q.effects # <<>>
    BY DEF Unsettled
  <1>4. Latest(worker.q.effects).outcome \in Outcome
    BY <1>2, <1>3, LatestType DEF Effect
  <1>5. helper = "idle"
    <2>1. helper = "capturing" => worker.q = record.q /\ StopObserved(record.q)
      BY DEF WorkerInv, HelperWatched, Doing, JournalSame, HostInv, HelperKnown
    <2>2. StopObserved(worker.q) => ~Unsettled(worker.q.effects)
      BY DEF StopObserved, Unsettled, EffectSettled
    <2> QED
      BY <2>1, <2>2 DEF HostInv, HostTypeOK
  <1> QED
    BY <1>1, <1>2, <1>3, <1>4, <1>5

(* A settlement that has nothing to settle returns to its caller.            *)
LEMMA SettleReturns ==
  ASSUME GroupInv, worker.step = "settle", ~Unsettled(worker.q.effects),
         worker' = [worker EXCEPT !.step = worker.next],
         UNCHANGED <<record, groupHost, mishaps>>
  PROVE  GroupInv'
  <1> USE DEF GroupInv
  <1>1. /\ worker \in WorkerType /\ worker.next \in {"decide", "advanced", "resuming"}
        /\ UNCHANGED <<record, native, helper, saved, mishaps>>
        /\ record.state = "pending" /\ native.hold /\ ~native.touched
    BY DEF WorkerInv, WorkerType, groupHost, StepHeld
  <1>2. Goes(worker.q, worker.next)
    BY <1>1, GoesIs DEF GroupStep
  <1>3. HostInv'
    BY HostSame DEF Unharmed
  <1>4. CASE worker.next = "resuming"
    <2>1. /\ worker.q.initial = record.q.initial /\ worker.q.phase # ""
          /\ \/ worker.q.effects = record.q.effects
             \/ helper = "idle" /\ Ahead(worker.q.effects, record.q.effects)
          /\ helper # "capturing"
      BY <1>4 DEF WorkerInv, JournalSame, HelperWatched, Doing
    <2> QED
      BY <1>1, <1>2, <1>3, <1>4, <2>1, CleanupWorker DEF Goes
  <1>5. CASE worker.next = "decide"
    <2>1. worker.q = record.q /\ ~worker.armed /\ ~worker.settled
      BY <1>5 DEF WorkerInv, JournalSame, StepHeld, Opening
    <2>2. ~Stopping' /\ ~Advancing'
      BY <1>2, <1>5 DEF Stopping, Advancing, Goes
    <2>3. JournalSame' /\ StepHeld'
      BY <1>1, <1>2, <1>5, <2>1, <2>2 DEF JournalSame, StepHeld, Doing, Goes
    <2>4. StepEffect' /\ HelperWatched'
      BY <1>2, <1>5, <2>2 DEF StepEffect, HelperWatched, Doing, Goes
    <2> QED
      BY <1>2, <1>3, <2>3, <2>4 DEF WorkerInv, Goes
  <1>6. CASE worker.next = "advanced"
    <2>1. /\ worker.q = record.q /\ helper # "capturing"
          /\ worker.q.effects # <<>> /\ Latest(worker.q.effects).action = worker.action
      BY <1>6 DEF WorkerInv, JournalSame, HelperWatched, StepEffect, Doing, Advancing
    <2>2. ~Opening' /\ (Stopping' => worker.armed /\ ~worker.settled)
      BY <1>2, <1>6 DEF Opening, Stopping, Advancing, Goes, WorkerInv, StepHeld
    <2>3. JournalSame' /\ StepHeld'
      BY <1>1, <1>2, <1>6, <2>1, <2>2 DEF JournalSame, StepHeld, Doing, Goes
    <2>4. StepEffect' /\ HelperWatched'
      BY <1>1, <1>2, <1>6, <2>1 DEF StepEffect, HelperWatched, Doing, Goes, Advancing
    <2> QED
      BY <1>2, <1>3, <2>3, <2>4 DEF WorkerInv, Goes
  <1> QED
    BY <1>1, <1>4, <1>5, <1>6

(* An accepted command is put to its cancellation.                           *)
LEMMA SettleCancels ==
  ASSUME GroupInv, worker.step = "settle", Unsettled(worker.q.effects),
         Latest(worker.q.effects).state = "dispatched", native.outer = "ended",
         native.row = "accepted", worker' = [worker EXCEPT !.step = "cancel"],
         UNCHANGED <<record, groupHost, mishaps>>
  PROVE  GroupInv'
  <1> USE DEF GroupInv
  <1>1. /\ helper = "idle" /\ worker \in WorkerType
        /\ UNCHANGED <<record, native, helper, saved, mishaps>>
        /\ record.state = "pending" /\ native.hold /\ ~native.touched
        /\ worker.q.effects # <<>>
    BY SettleKnows DEF groupHost
  <1>2. Goes(worker.q, "cancel")
    BY <1>1, GoesIs DEF GroupStep
  <1>3. HostInv'
    BY HostSame DEF Unharmed
  <1>4. worker.q.effects = record.q.effects
    <2>1. Latest(record.q.effects).state = "dispatched"
      BY DEF HostInv, CommandFenced
    <2>2. <<"dispatched", "dispatched">> \notin EffectSteps
      BY DEF EffectSteps
    <2>3. ~Ahead(worker.q.effects, record.q.effects)
      BY <2>1, <2>2 DEF Ahead
    <2> QED
      BY <2>3, SettleKnows
  <1>5. /\ Opening' => ~worker.armed /\ ~worker.settled
        /\ Stopping' => worker.armed /\ ~worker.settled
    BY <1>2 DEF Opening, Stopping, Advancing, WorkerInv, StepHeld, Goes
  <1>6. JournalSame'
    BY <1>1, <1>2, <1>4 DEF WorkerInv, JournalSame, Doing, Goes
  <1>7. StepHeld' /\ HelperWatched'
    BY <1>1, <1>2, <1>5 DEF StepHeld, HelperWatched, Doing, Goes
  <1>8. StepEffect'
    <2>1. Advancing' => Latest(worker.q.effects).action = worker.action
      BY <1>2 DEF WorkerInv, StepEffect, Advancing, Goes
    <2> QED
      BY <1>1, <1>2, <2>1 DEF StepEffect, Doing, Goes
  <1> QED
    BY <1>2, <1>3, <1>6, <1>7, <1>8 DEF WorkerInv, Goes

(* Every outcome is recorded by its own evidence.                            *)
LEMMA SettleRecords ==
  ASSUME GroupInv, worker.step = "settle", Unsettled(worker.q.effects),
         UNCHANGED groupHost, NEW st \in EffectState, NEW oc \in Outcome,
         WriteLatest(st, oc, "settle"),
         LET e == Latest(worker.q.effects)
         IN  \/ /\ e.state \in {"preparing", "prepared"}
                /\ record.q.effects = worker.q.effects
                /\ st = "negative-adopted" /\ oc = "inert"
             \/ /\ e.state = "dispatched" /\ native.outer = "ended"
                /\ \/ st = "adopted" /\ native.row = "ok"
                   \/ /\ st = "negative-adopted" /\ oc = "inert"
                      /\ native.row \in {"inert", "cancelled"}
                   \/ st = "negative-adopted" /\ oc = "closed" /\ native.row = "closed"
             \/ e.state = "adopted" /\ st = "observed"
             \/ e.state = "negative-adopted" /\ st = "failed" /\ oc = e.outcome
  PROVE  GroupInv'
  <1> USE DEF GroupInv
  <1> DEFINE u == worker.q.effects
             e == Latest(u)
             r == record.q.effects
  <1>1. /\ helper = "idle" /\ native \in NativeType /\ u # <<>>
        /\ RowFollows /\ EffectsSay(native.group, native.row, r)
        /\ (u = r \/ Ahead(u, r)) /\ UNCHANGED <<native, helper, saved>>
    BY SettleKnows DEF groupHost
  <1>2. <<e.state, st>> \in EffectSteps
    BY DEF EffectSteps
  <1>3. Evidence(native.row, e, st, oc)
    BY DEF Evidence
  <1>4. native.outer # "running" /\ native.row \notin {"accepted", "claimed", "acting"}
    <2>1. CASE e.state = "dispatched"
      BY <2>1
    <2>2. CASE e.state # "dispatched"
      <3>1. ~(r # <<>> /\ Latest(r).state = "dispatched")
        <4>1. CASE u = r
          BY <2>2, <4>1
        <4>2. CASE Ahead(u, r) /\ u # r
          <5>1. <<e.state, Latest(r).state>> \in EffectSteps
            BY <4>2 DEF Ahead
          <5> QED
            BY <2>2, <4>2, <5>1 DEF EffectSteps
        <4> QED
          BY <1>1, <4>1, <4>2
      <3> QED
        BY <3>1 DEF HostInv, CommandFenced
    <2> QED
      BY <2>1, <2>2
  <1>5. u = r \/ (Ahead(u, r) /\ e.state \notin {"preparing", "prepared"})
    BY <1>1
  <1>6. RowFollows'
    BY <1>1 DEF RowFollows
  <1> QED
    BY <1>1, <1>2, <1>3, <1>4, <1>5, <1>6, SettleWritten

(* The settlement: return, cancel or record an outcome.                      *)
LEMMA SettleAppGroupKeeps ==
  ASSUME GroupInv, SettleAppGroup
  PROVE  GroupInv'
  <1> USE DEF GroupInv
  <1> DEFINE e == Latest(worker.q.effects)
  <1>1. /\ worker.step = "settle" /\ UNCHANGED groupHost /\ worker \in WorkerType
        /\ (Stumble => Stumbles)
    BY StumbleIs DEF SettleAppGroup, Doing, WorkerInv
  <1>2. CASE ~Unsettled(worker.q.effects)
    BY <1>1, <1>2, SettleReturns DEF SettleAppGroup, Unharmed
  <1>3. CASE Stumble /\ UNCHANGED record /\ (Mishap \/ Unharmed)
    <2>1. HostInv'
      BY <1>1, <1>3, HostSame
    <2> QED
      BY <1>1, <1>3, <2>1, StumbleStays DEF groupHost
  <1>4. CASE Unsettled(worker.q.effects) /\ ~(Stumble /\ UNCHANGED record /\ (Mishap \/ Unharmed))
    <2>1. /\ {"negative-adopted", "adopted", "observed", "failed"} \subseteq EffectState
          /\ {"positive", "inert", "closed"} \subseteq Outcome /\ e.outcome \in Outcome
      BY <1>1, <1>4, SettleKnows DEF EffectState, Outcome
    <2>2. CASE e.state \in {"preparing", "prepared"} /\ SettleUndispatched
      <3>1. /\ record.q.effects = worker.q.effects
            /\ WriteLatest("negative-adopted", "inert", "settle")
        BY <1>4, <2>2 DEF SettleUndispatched
      <3> QED
        BY <1>1, <1>4, <2>1, <2>2, <3>1, SettleRecords
    <2>3. CASE e.state = "dispatched" /\ SettleDispatched
      <3>1. native.outer = "ended"
        BY <1>4, <2>3 DEF SettleDispatched
      <3>2. CASE native.row = "ok"
        <4>1. Verdict = "positive"
          BY <3>2 DEF Verdict
        <4>2. WriteLatest("adopted", "positive", "settle")
          BY <2>3, <3>1, <3>2, <4>1 DEF SettleDispatched
        <4> QED
          BY <1>1, <1>4, <2>1, <2>3, <3>1, <3>2, <4>2, SettleRecords
      <3>3. CASE native.row \in {"inert", "cancelled"}
        <4>1. Verdict = "inert"
          BY <3>3 DEF Verdict
        <4>2. WriteLatest("negative-adopted", "inert", "settle")
          BY <2>3, <3>1, <3>3, <4>1 DEF SettleDispatched
        <4> QED
          BY <1>1, <1>4, <2>1, <2>3, <3>1, <3>3, <4>2, SettleRecords
      <3>4. CASE native.row = "closed"
        <4>1. Verdict = "closed"
          BY <3>4 DEF Verdict
        <4>2. WriteLatest("negative-adopted", "closed", "settle")
          BY <2>3, <3>1, <3>4, <4>1 DEF SettleDispatched
        <4> QED
          BY <1>1, <1>4, <2>1, <2>3, <3>1, <3>4, <4>2, SettleRecords
      <3>5. CASE native.row = "accepted"
        <4>1. Verdict = "none"
          BY <3>5 DEF Verdict
        <4>2. worker' = [worker EXCEPT !.step = "cancel"] /\ Unharmed /\ UNCHANGED record
          BY <2>3, <3>1, <3>5, <4>1 DEF SettleDispatched
        <4> QED
          BY <1>1, <1>4, <2>3, <3>1, <3>5, <4>2, SettleCancels DEF Unharmed
      <3>6. CASE native.row \notin {"ok", "inert", "cancelled", "closed", "accepted"}
        <4>1. Verdict = "none"
          BY <3>6 DEF Verdict
        <4> QED
          BY <1>4, <2>3, <3>1, <3>6, <4>1 DEF SettleDispatched
      <3> QED
        BY <3>2, <3>3, <3>4, <3>5, <3>6
    <2>4. CASE e.state = "adopted" /\ WriteLatest("observed", e.outcome, "settle")
      BY <1>1, <1>4, <2>1, <2>4, SettleRecords
    <2>5. CASE e.state = "negative-adopted" /\ WriteLatest("failed", e.outcome, "settle")
      BY <1>1, <1>4, <2>1, <2>5, SettleRecords
    <2> QED
      BY <1>4, <2>2, <2>3, <2>4, <2>5 DEF SettleAppGroup
  <1> QED
    BY <1>2, <1>3, <1>4

(* The power of a settled group, from its recorded effects.                  *)
LEMMA GroupSays ==
  ASSUME HostInv, native.hold, ~native.touched, record.q.initial,
         ~Unsettled(record.q.effects)
  PROVE  Says(native.group, record.q.effects, Counting(record.q.effects))
  <1>1. record.q.effects \in Seq(Effect)
    BY DEF HostInv, HostTypeOK, RecordType, Quiescence
  <1>2. record.q.effects = <<>> => native.group = "running"
    BY DEF HostInv, CaptureKnown
  <1>3. EffectsSay(native.group, native.row, record.q.effects)
    BY DEF HostInv, PowerKnown
  <1> DEFINE g == native.group
             row == native.row
             s == record.q.effects
  <1>4. s \in Seq(Effect) /\ (s = <<>> => g = "running") /\ EffectsSay(g, row, s) /\ ~Unsettled(s)
    BY <1>1, <1>2, <1>3
  <1> HIDE DEF g, row, s
  <1>5. Says(g, s, Counting(s))
    BY <1>4, SettledSays
  <1> QED
    BY <1>5 DEF g, s

(* The intent of a command is recorded before anything is done.              *)
LEMMA IntentWritten ==
  ASSUME GroupInv, Confirmed, worker.step = "advance", UNCHANGED groupHost,
         groupActionAllowed(worker.q, worker.action), helper = "idle",
         Write([worker.q EXCEPT !.effects = Append(worker.q.effects, Intent(worker.action))],
               "prepare")
  PROVE  GroupInv'
  <1> USE DEF GroupInv
  <1> DEFINE u == worker.q.effects
             a == worker.action
             q == WithIntent(worker.q, a)
  <1>1. /\ worker \in WorkerType /\ worker.q \in Quiescence /\ a \in GroupAction
        /\ worker.q = record.q /\ u \in Seq(Effect) /\ record \in RecordType
        /\ mishaps \in 0..MaxMishaps /\ saved \in BOOLEAN /\ native \in NativeType
        /\ UNCHANGED <<native, helper, saved>> /\ worker.q.initial /\ worker.q.phase # ""
        /\ record.state = "pending" /\ native.hold /\ ~native.touched
    <2>1. /\ worker \in WorkerType /\ record \in RecordType /\ mishaps \in 0..MaxMishaps
          /\ saved \in BOOLEAN /\ native \in NativeType
          /\ UNCHANGED <<native, helper, saved>>
      BY DEF HostInv, HostTypeOK, groupHost, WorkerInv
    <2>2. worker.q \in Quiescence /\ a \in GroupAction /\ u \in Seq(Effect)
      BY <2>1 DEF WorkerType, Quiescence
    <2>3. worker.q = record.q
      BY DEF WorkerInv, JournalSame
    <2>4. record.state = "pending" /\ native.hold /\ ~native.touched
      BY DEF WorkerInv, StepHeld
    <2>5. worker.q.initial
      BY DEF WorkerInv, StepEffect, Doing
    <2>6. worker.q.phase # ""
      BY <2>3, <2>4 DEF HostInv, CaptureKnown
    <2> QED
      BY <2>1, <2>2, <2>3, <2>4, <2>5, <2>6
  <1>2. /\ q \in Quiescence /\ q.phase = worker.q.phase /\ q.initial = worker.q.initial
        /\ q.effects = Append(u, Intent(a))
        /\ q.effects # <<>> /\ Len(q.effects) = Len(u) + 1
        /\ \A i \in 1..Len(u) : q.effects[i] = u[i]
        /\ Latest(q.effects) = Intent(a)
    <2>1. worker.q \in Quiescence /\ a \in GroupAction
      BY <1>1
    <2> QED
      BY <2>1, IntentAppended
  <1>e. Latest(q.effects).state = "preparing" /\ Latest(q.effects).action = a
    <2> HIDE DEF q
    <2> QED
      BY <1>2 DEF Intent
  <1>3. Write(q, "prepare")
    BY DEF WithIntent
  <1> HIDE DEF q
  <1>4. ~Unsettled(u) /\ Len(u) < EffectLimit
    <2>1. CASE u = <<>>
      BY <2>1, GroupAssumption DEF Unsettled
    <2>2. CASE u # <<>>
      BY <2>2 DEF groupActionAllowed, Follows, Unsettled, EffectSettled
    <2> QED
      BY <2>1, <2>2
  <1>5. /\ record' \in RecordType /\ record'.state = record.state
        /\ mishaps' \in 0..MaxMishaps
        /\ record'.q = record.q \/ record'.q = q
        /\ Stumbles \/ (Goes(q, "prepare") /\ record'.q = q)
    BY <1>1, <1>2, <1>3, WriteIs DEF GroupStep
  <1>6. q.effects \in Seq(Effect) /\ Len(q.effects) <= EffectLimit
    <2>1. q.effects \in Seq(Effect)
      BY <1>2 DEF Quiescence
    <2>2. Len(u) \in Nat
      <3>1. u \in Seq(Effect)
        BY <1>1
      <3> HIDE DEF u
      <3> QED
        BY <3>1
    <2>3. EffectLimit \in Nat
      BY GroupAssumption
    <2> QED
      BY <1>2, <1>4, <2>1, <2>2, <2>3
  <1>7. HostInv'
    <2>1. CASE record'.q = record.q
      BY <1>1, <1>5, <2>1, HostStays DEF HostInv, HostTypeOK
    <2>2. CASE record'.q = q
      <3>1. Says(native.group, u, Counting(u))
        BY <1>1, <1>4, GroupSays
      <3>2. Says(native.group, q.effects, Earlier(q.effects))
        <4> DEFINE g == native.group
                   t == q.effects
        <4>1. /\ u \in Seq(Effect) /\ t \in Seq(Effect) /\ Len(t) = Len(u) + 1
              /\ \A i \in 1..Len(u) : t[i] = u[i]
              /\ Says(g, u, Counting(u))
          BY <1>1, <1>2, <1>6, <3>1
        <4> HIDE DEF g, t, u
        <4>2. Says(g, t, Earlier(t))
          BY <4>1, IntentSays
        <4> QED
          BY <4>2 DEF g, t
      <3>3. EffectsSay(native'.group, native'.row, record'.q.effects)
        BY <1>1, <1>e, <2>2, <3>2 DEF EffectsSay
      <3>4. RowFollows' /\ CommandFenced'
        <4>1. ~(u # <<>> /\ Latest(u).state = "dispatched")
          BY <1>4 DEF Unsettled, EffectSettled
        <4> QED
          BY <1>1, <4>1 DEF HostInv, RowFollows, CommandFenced
      <3> QED
        BY <1>1, <1>2, <1>5, <1>6, <2>2, <3>3, <3>4, HostEffects
    <2> QED
      BY <1>5, <2>1, <2>2
  <1>8. CASE Stumbles
    <2>1. Ahead(u, q.effects)
      BY <1>1, <1>2, <1>4 DEF Ahead
    <2>2. /\ worker.q.initial = record'.q.initial
          /\ \/ worker.q.effects = record'.q.effects
             \/ Ahead(worker.q.effects, record'.q.effects)
      BY <1>1, <1>2, <1>5, <2>1
    <2> QED
      BY <1>1, <1>5, <1>7, <1>8, <2>2, StumbleWorker
  <1>9. CASE Goes(q, "prepare") /\ record'.q = q
    <2>1. ~Opening' /\ (Stopping' => worker.armed /\ ~worker.settled)
      BY <1>9 DEF Opening, Stopping, Advancing, Goes, WorkerInv, StepHeld
    <2>2. JournalSame' /\ HelperWatched'
      BY <1>1, <1>9 DEF JournalSame, HelperWatched, Doing, Goes
    <2>3. StepHeld'
      BY <1>1, <1>5, <1>9, <2>1 DEF StepHeld, Doing, Goes
    <2>4. StepEffect'
      BY <1>2, <1>e, <1>9 DEF StepEffect, Doing, Goes, Advancing
    <2> QED
      BY <1>7, <1>9, <2>2, <2>3, <2>4 DEF WorkerInv, Goes
  <1> QED
    BY <1>5, <1>8, <1>9

(* An advance repeats nothing observed, and records its intent first.        *)
LEMMA AdvanceKeeps ==
  ASSUME GroupInv, Advance
  PROVE  GroupInv'
  <1> USE DEF GroupInv
  <1> DEFINE u == worker.q.effects
             a == worker.action
             same == u # <<>> /\ Latest(u).action = a
  <1>1. /\ Confirmed /\ worker.step = "advance" /\ UNCHANGED groupHost
        /\ worker \in WorkerType /\ (Stumble => Stumbles) /\ worker.q.initial
        /\ (helper = "capturing" => a = "stop")
    BY StumbleIs, ConfirmedIs DEF Advance, Doing, WorkerInv, StepEffect, HelperWatched
  <1>2. CASE same /\ Latest(u).state = "observed"
    <2>1. /\ worker' = [worker EXCEPT !.step = After(a)] /\ Unharmed /\ UNCHANGED record
      BY <1>2 DEF Advance
    <2>2. HostInv'
      BY <1>1, <2>1, HostSame
    <2>3. After(a) \in GroupStep
      BY DEF After, GroupStep
    <2>4. Goes(worker.q, After(a))
      BY <1>1, <2>1, <2>3, GoesIs
    <2> QED
      BY <1>1, <1>2, <2>1, <2>2, <2>4, AfterWorker DEF groupHost
  <1>3. CASE ~(same /\ Latest(u).state = "observed")
    <2>1. CASE \/ same /\ Latest(u).state = "failed" /\ a # "rollback-stop"
               \/ ~groupActionAllowed(worker.q, a)
      <3>1. Stumble /\ Unharmed /\ UNCHANGED record
        BY <1>3, <2>1 DEF Advance
      <3>2. HostInv'
        BY <1>1, <3>1, HostSame
      <3> QED
        BY <1>1, <3>1, <3>2, StumbleStays DEF groupHost
    <2>2. CASE ~(\/ same /\ Latest(u).state = "failed" /\ a # "rollback-stop"
                 \/ ~groupActionAllowed(worker.q, a))
      <3>1. Write([worker.q EXCEPT !.effects = Append(u, Intent(a))], "prepare")
        BY <1>3, <2>2 DEF Advance
      <3>2. helper = "idle"
        <4>1. helper = "capturing" => StopObserved(worker.q)
          BY <1>1 DEF HostInv, HelperKnown, Confirmed
        <4> QED
          BY <1>1, <1>3, <4>1 DEF StopObserved, HostInv, HostTypeOK
      <3> QED
        BY <1>1, <2>2, <3>1, <3>2, IntentWritten
    <2> QED
      BY <2>1, <2>2
  <1> QED
    BY <1>2, <1>3

-----------------------------------------------------------------------------
(* A native group: the invariant and what it implies.                      *)

(* The first state has the invariant.                                        *)
LEMMA GroupInvInit == GroupInit => GroupInv
  <1> SUFFICES ASSUME GroupInit PROVE GroupInv
    OBVIOUS
  <1> USE DEF GroupInit
  <1>1. /\ record.state = "absent" /\ record.q = Rest.q /\ worker = Rest
        /\ record \in RecordType /\ native \in NativeType /\ native.row = "none"
        /\ native.outer = "none" /\ ~native.hold /\ native.group \in {"running", "down"}
        /\ Len(record.q.effects) = 0 /\ record.q.effects = <<>> /\ record.q.phase = ""
    BY RestIs DEF RecordType, NativeType
  <1>2. HostTypeOK
    <2>1. 0 \in 0..MaxMishaps /\ 0 <= EffectLimit
      BY GroupAssumption
    <2> QED
      BY <1>1, <2>1 DEF HostTypeOK
  <1>3. PowerKnown /\ CaptureKnown /\ EffectsHeld
    BY <1>1 DEF PowerKnown, EffectsSay, CaptureKnown, EffectsHeld
  <1>4. RowFollows /\ CommandFenced /\ HelperKnown
    BY <1>1 DEF RowFollows, CommandFenced, HelperKnown
  <1>5. ~Opening /\ ~Stopping /\ ~Advancing
    BY <1>1, RestIs DEF Opening, Stopping, Advancing
  <1>6. JournalSame /\ StepHeld /\ StepEffect
    BY <1>1, <1>5, RestIs DEF JournalSame, StepHeld, StepEffect, Doing
  <1>7. HelperWatched /\ worker \in WorkerType
    BY <1>1, RestIs DEF HelperWatched
  <1> QED
    BY <1>2, <1>3, <1>4, <1>6, <1>7 DEF GroupInv, HostInv, WorkerInv

(* Every step keeps it.                                                      *)
LEMMA GroupInvNext == GroupInv /\ GroupNext => GroupInv'
  <1> SUFFICES ASSUME GroupInv, GroupNext PROVE GroupInv'
    OBVIOUS
  <1>1. CASE WorkerStep
    BY <1>1, CaptureKeeps, HoldGroupKeeps, SettleAppGroupKeeps, CancelAcceptedKeeps,
       DecideEntryKeeps, FindKeeps, CoreStopKeeps, AdvanceKeeps, PrepareExecKeeps,
       RecordPreparedKeeps, RecordDispatchedKeeps, DispatchKeeps, AdvancedKeeps,
       StoppedKeeps, CreateSnapshotKeeps, CreatedKeeps, CleanupGroupKeeps,
       SettleHelperKeeps, ResumingKeeps, ResumeKeeps, VerifyCurrentKeeps, CoreStartKeeps,
       RecordRestoredKeeps, CompleteSnapshotKeeps, SettleFailedSnapshotKeeps,
       CloseGroupKeeps DEF WorkerStep
  <1>2. CASE ManagerStep
    BY <1>2, SubmitKeeps, SubmissionEndsKeeps, ClaimKeeps, ActKeeps, ChildEndsKeeps
       DEF ManagerStep
  <1> QED
    BY <1>1, <1>2, GroupRunKeeps, GroupReplayKeeps, HelperEndsKeeps, TouchKeeps,
       GroupCrashKeeps DEF GroupNext

(* So does a step of something else.                                         *)
LEMMA GroupInvStays == GroupInv /\ UNCHANGED groupVars => GroupInv'
  <1> SUFFICES ASSUME GroupInv, UNCHANGED groupVars PROVE GroupInv'
    OBVIOUS
  <1> USE DEF groupVars, GroupInv
  <1>1. HostInv'
    BY HostSame DEF groupHost, Unharmed
  <1>2. WorkerInv /\ UNCHANGED <<record, worker, helper, native>>
    OBVIOUS
  <1>3. WorkerInv'
    BY <1>2, WorkerStays DEF WorkerInv, StepHeld
  <1> QED
    BY <1>1, <1>3

(* The types, the quiet capture, the fenced command and the truth of the     *)
(* record.                                                                   *)
LEMMA GroupInvImplies ==
  GroupInv => GroupTypeOK /\ GroupQuiesced /\ CommandFenced /\ RecordMatchesNative
  <1> SUFFICES ASSUME GroupInv
               PROVE  GroupTypeOK /\ GroupQuiesced /\ CommandFenced /\ RecordMatchesNative
    OBVIOUS
  <1> USE DEF GroupInv
  <1>1. GroupTypeOK
    BY DEF HostInv, HostTypeOK, WorkerInv, GroupTypeOK, RecordType, WorkerType, NativeType
  <1>2. GroupQuiesced /\ CommandFenced
    BY DEF HostInv, HelperKnown, GroupQuiesced
  <1>3. RecordMatchesNative
    <2> SUFFICES ASSUME native.hold, ~native.touched, ~Unsettled(record.q.effects)
                 PROVE  /\ AppGroupStopped(record.q) => native.group = "down"
                        /\ AppGroupRestored(record.q) =>
                             (native.group = "running") = record.q.initial
      BY DEF RecordMatchesNative
    <2>1. record.q \in Quiescence /\ record.q.initial \in BOOLEAN
      BY DEF HostInv, HostTypeOK, RecordType, Quiescence
    <2>2. CASE record.q.initial
      <3>1. Says(native.group, record.q.effects, Counting(record.q.effects))
        BY <2>2, GroupSays
      <3>2. /\ AppGroupStopped(record.q) => native.group = "down"
            /\ AppGroupRestored(record.q) => native.group = "running"
        BY <2>1, <2>2, <3>1, JournalTrue
      <3> QED
        BY <2>1, <2>2, <3>2
    <2>3. CASE ~record.q.initial
      <3>1. record.q.effects = <<>> /\ record.q.phase # ""
        BY <2>3 DEF HostInv, EffectsHeld, CaptureKnown
      <3>2. native.group = "down"
        BY <2>3, <3>1 DEF HostInv, CaptureKnown
      <3> QED
        BY <2>1, <2>3, <3>2
    <2> QED
      BY <2>1, <2>2, <2>3
  <1> QED
    BY <1>1, <1>2, <1>3

-----------------------------------------------------------------------------
(* The theorems, of a host that runs either protocol.                      *)

(* The next-state relation is a step of one protocol that leaves the other.  *)
LEMMA EitherProtocol ==
  [Next]_vars => \/ QuiescenceNext /\ UNCHANGED groupVars
                 \/ GroupNext /\ UNCHANGED quiescenceVars
                 \/ UNCHANGED quiescenceVars /\ UNCHANGED groupVars
  BY DEF Next, vars

(* The inductive invariant: what the journals, the containers, the manager   *)
(* and the Kopia helper know of each other between any two steps of a        *)
(* process, across its crashes and over writes it never saw confirmed.       *)
THEOREM BackupInvariant == Spec => [](QuiescenceInv /\ GroupInv)
  <1>1. Init => QuiescenceInv /\ GroupInv
    BY QuiescenceInvInit, GroupInvInit DEF Init
  <1>2. QuiescenceInv /\ GroupInv /\ [Next]_vars => (QuiescenceInv /\ GroupInv)'
    BY EitherProtocol, QuiescenceInvNext, GroupInvNext, QuiescenceInvStays, GroupInvStays
  <1> QED
    BY <1>1, <1>2, PTL DEF Spec

(* Type correctness, and no group has more effects than groupActionAllowed   *)
(* admits, for any limit.                                                    *)
THEOREM BackupTypeCorrect == Spec => []TypeOK
  <1>1. QuiescenceInv => QuiescenceTypeOK
    BY DEF QuiescenceInv, WorldInv, WorldTypeOK, RunInv, RunType, OpType, QuiescenceTypeOK
  <1>2. QuiescenceInv /\ GroupInv => TypeOK
    BY <1>1, GroupInvImplies DEF TypeOK
  <1> QED
    BY <1>2, BackupInvariant, PTL

(* While CreateSnapshot's Kopia helper captures, no governed container runs  *)
(* and the native group is down, for any containers, stop order and limit of *)
(* effects and over any number of failures: helpers that outlived their      *)
(* process included.                                                         *)
THEOREM WritersQuiesced == Spec => []CaptureQuiesced
  <1>1. QuiescenceInv => ContainersQuiesced
    BY DEF QuiescenceInv, WorldInv, HelperAlone, ContainersQuiesced
  <1>2. QuiescenceInv /\ GroupInv => CaptureQuiesced
    BY <1>1, GroupInvImplies DEF CaptureQuiesced
  <1> QED
    BY <1>2, BackupInvariant, PTL

(* Containers lose and regain power in the order of the graph, for any graph *)
(* of containers, until a stop was given up that the record does not know.   *)
THEOREM PowerInGraphOrder == Spec => []PowerFollowsGraph
  <1>1. QuiescenceInv => PowerFollowsGraph
    BY DEF QuiescenceInv, WorldInv
  <1> QED
    BY <1>1, BackupInvariant, PTL

(* The phase "restored" is recorded only over writers that all run and that  *)
(* no stop can still reach, until a stop was given up that the record does   *)
(* not know.                                                                 *)
THEOREM RestoredMeansRunning == Spec => RestoredWhenRunning
  <1>1. QuiescenceInv /\ [Next]_vars =>
          [~unrecorded
             /\ op.journal.phase # "restored" /\ op'.journal.phase = "restored"
             => op.journal.set \subseteq running \ stopping]_quiescenceVars
    BY EitherProtocol, RestoredStep
  <1> QED
    BY <1>1, BackupInvariant, PTL DEF Spec, RestoredWhenRunning

(* A native command that may still act is the one the recorded effects wait  *)
(* for: no retry, settlement or cancellation issues a second one beside it.  *)
THEOREM CommandsFenced == Spec => []CommandFenced
  <1>1. QuiescenceInv /\ GroupInv => CommandFenced
    BY GroupInvImplies
  <1> QED
    BY <1>1, BackupInvariant, PTL

(* Under the hold, settled effects tell the power of the native group: what  *)
(* counts as stopped is down, and what counts as restored is as it was found. *)
THEOREM RecordTrueOfGroup == Spec => []RecordMatchesNative
  <1>1. QuiescenceInv /\ GroupInv => RecordMatchesNative
    BY GroupInvImplies
  <1> QED
    BY <1>1, BackupInvariant, PTL

(* An application never runs on both nodes: the source stays stopped from the *)
(* receipt on unless the destination has stopped, for any containers and any *)
(* number of failures and retries, as long as no hold is recorded by a write *)
(* that reports an error.                                                    *)
THEOREM MigrationHoldsSource ==
  ASSUME HoldsConfirmed
  PROVE  Spec => []OneLiveCopy
  <1>1. Init => TransferInv
    <2> SUFFICES ASSUME QuiescenceInit PROVE TransferInv
      BY DEF Init
    <2>1. op.journal = FreshJournal /\ run = Idle /\ ~receipt /\ destination = "none"
      <3>1. op.journal \in {FreshJournal}
        BY DEF QuiescenceInit
      <3> QED
        BY <3>1 DEF QuiescenceInit
    <2>2. FreshJournal.outcome = "none" /\ FreshJournal.hold = FALSE
      BY DEF FreshJournal
    <2> QED
      BY <2>1, <2>2, IdleOutcome DEF TransferInv, OutcomeKnown, ReceiptHeld, HeldAlone, At
  <1>2. QuiescenceInv /\ TransferInv /\ [Next]_vars => TransferInv'
    <2> SUFFICES ASSUME QuiescenceInv, TransferInv, [Next]_vars
                 PROVE  TransferInv'
      OBVIOUS
    <2>1. CASE QuiescenceNext
      BY <2>1, TransferInvNext
    <2>2. CASE UNCHANGED quiescenceVars
      BY <2>2 DEF quiescenceVars, TransferInv, OutcomeKnown, ReceiptHeld, HeldAlone, At
    <2> QED
      BY <2>1, <2>2, EitherProtocol
  <1>3. TransferInv => OneLiveCopy
    BY DEF TransferInv, OutcomeKnown, ReceiptHeld, HeldAlone, OneLiveCopy
  <1> QED
    BY <1>1, <1>2, <1>3, BackupInvariant, PTL DEF Spec

=============================================================================
