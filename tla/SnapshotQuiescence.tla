-------------------------- MODULE SnapshotQuiescence --------------------------
(* One snapshot operation of the local backup runtime: the writers of the    *)
(* governed volumes are stopped in graph order, Kopia captures them, and they *)
(* are started again in the reverse order, each phase in the signed operation *)
(* journal.  A migration stops after the capture: the operation then holds    *)
(* the source stopped until the destination reports its outcome.              *)
(*   op      : the operation file in the workspace                            *)
(*   run     : the process that executes the operation, if one does           *)
(*   running, stopping : the power of the containers, and the docker stops    *)
(*             whose caller has given up                                      *)
(*   kopia, stored : the Kopia helper container and its repository            *)
(*   receipt, destination : the export receipt and the receiving node         *)
(*   unrecorded : history, whether a stop was ever under way that the record  *)
(*             does not know of                                               *)
EXTENDS Integers, FiniteSets

CONSTANTS Writer,          \* the managed containers
          StopRank,        \* their place in quiescenceStopOrder
          Unconfirmed,     \* the records whose write may fail once installed
          MaxFaults        \* bound on failing calls, lost writes and crashes

ASSUME QuiescenceAssumption ==
    /\ IsFiniteSet(Writer)
    /\ StopRank \in [Writer -> Nat]
    /\ \A v, w \in Writer : StopRank[v] = StopRank[w] => v = w
    /\ Unconfirmed \subseteq {"phase", "hold"}
    /\ MaxFaults \in Nat

VARIABLES op, run, running, stopping, kopia, stored, receipt, destination, faults,
          unrecorded

quiescenceVars ==
    <<op, run, running, stopping, kopia, stored, receipt, destination, faults,
      unrecorded>>

world == <<running, stopping, kopia, stored>>
transfer == <<receipt, destination>>

\* What the operation snapshots: applications with a graph, a core without one
\* ("core"), or applications that migrate.
OperationMode == {"backup", "core", "migrate"}
Mode == OperationMode \cup {"resume"}
Phase == {"", "prepared", "stopped", "snapshot-created", "restored",
          "transfer-retired"}

\* The part of a snapshot operation the phases and the transfer hold change.
Journal == [phase : Phase, set : SUBSET Writer, hold : BOOLEAN,
            outcome : {"none", "activated", "stopped"}, planned : BOOLEAN]

FreshJournal == [phase |-> "", set |-> {}, hold |-> FALSE,
                 outcome |-> "none", planned |-> FALSE]

Step == {"idle", "enter", "settle", "lookup", "prepare", "reprepare", "stop",
         "verify", "create", "finalize", "export", "hold", "cleanup",
         "resettle", "restop", "start", "restore", "complete"}

\* The process: the step it is at, its copy of the journal, and the variables
\* its deferred cleanup reads.
Idle == [step |-> "idle", mode |-> "backup", journal |-> FreshJournal,
         resume |-> FALSE, settled |-> FALSE, attempted |-> FALSE,
         failed |-> FALSE]

\* Type correctness: of the operation file, the process and the containers.
QuiescenceTypeOK ==
    /\ op \in [state : {"absent", "pending", "completed", "transferred"},
               mode : OperationMode, journal : Journal]
    /\ run \in [step : Step, mode : Mode, journal : Journal, resume : BOOLEAN,
                settled : BOOLEAN, attempted : BOOLEAN, failed : BOOLEAN]
    /\ running \subseteq Writer
    /\ stopping \subseteq running
    /\ kopia \in {"idle", "capturing"}
    /\ stored \in BOOLEAN
    /\ receipt \in BOOLEAN
    /\ destination \in {"none", "activated", "stopped"}
    /\ faults \in 0..MaxFaults
    /\ unrecorded \in BOOLEAN

QuiescenceInit ==
    /\ op \in [state : {"absent"}, mode : OperationMode,
               journal : {FreshJournal}]
    /\ run = Idle
    /\ running \in SUBSET Writer
    /\ stopping = {}
    /\ kopia = "idle"
    /\ stored = FALSE
    /\ receipt = FALSE
    /\ destination = "none"
    /\ faults = 0
    /\ unrecorded = FALSE

-----------------------------------------------------------------------------
(* The steps of the process and what a failing call does to it *)

At(s) == run.step = s
Go(s) == run' = [run EXCEPT !.step = s]
Fault == faults < MaxFaults /\ faults' = faults + 1
NoFault == UNCHANGED faults

\* A return with an error: the deferred cleanup of CreateSnapshotWithQuiescence
\* runs, unless the journal of this process holds a transfer or nothing was
\* prepared.
FailWith(j) ==
    run' = IF j.phase = "" \/ j.hold THEN Idle
           ELSE [run EXCEPT !.step = "cleanup", !.journal = j, !.failed = TRUE]
Fail == FailWith(run.journal)

\* persistSnapshotQuiescence installs the record, or fails before, or (when
\* its write is Unconfirmed) fails after the rename installed it.
Persist(kind, j, ok, refused) ==
    \/ op' = [op EXCEPT !.journal = j] /\ ok /\ NoFault
    \/ UNCHANGED op /\ refused /\ Fault
    \/ kind \in Unconfirmed /\ op' = [op EXCEPT !.journal = j]
       /\ refused /\ Fault

\* The phase is assigned to the journal of the process and persisted.
PersistPhase(p, s) ==
    LET j == [run.journal EXCEPT !.phase = p]
    IN  Persist("phase", j, run' = [run EXCEPT !.step = s, !.journal = j],
                FailWith(j))

needsSettlement(p) == p \in {"stopped", "snapshot-created"}

\* The journal has a GraphDigest.
HasGraph == op.mode # "core"

\* quiescenceStopOrder: the next container of a set to stop.
FirstToStop(W) == CHOOSE w \in W : \A v \in W : StopRank[w] <= StopRank[v]

\* quiescenceRestoreOrder: the reverse of it, and without a graph the same.
FirstToStart(W) ==
    IF HasGraph THEN CHOOSE w \in W : \A v \in W : StopRank[w] >= StopRank[v]
    ELSE FirstToStop(W)

-----------------------------------------------------------------------------
(* service.run and CreateSnapshotWithQuiescence *)

\* A resume that does not ask for the outcome of the transfer.
ResumableAnytime(m) == op.journal.hold => m = "resume"

\* A recorded hold ends a command at once, unless it is the resume of a
\* transfer whose destination reported that it stopped.
Resumable(m) ==
    op.journal.hold => m = "resume" /\ op.journal.outcome = "stopped"

\* A command enters the operation.
Run(m) ==
    /\ run = Idle
    /\ op.state \in {"absent", "pending"}
    /\ m \in {op.mode, "resume"}
    /\ m = "resume" => op.journal.hold
    /\ Resumable(m)
    /\ op' = [op EXCEPT !.state = "pending"]
    /\ run' = [Idle EXCEPT !.step = "enter", !.mode = m,
                 !.journal = [op.journal EXCEPT !.hold = FALSE],
                 !.resume = needsSettlement(op.journal.phase)]
    /\ UNCHANGED <<world, transfer, faults>>

\* Readiness, custody and graph checks.
Enter ==
    /\ At("enter")
    /\ \/ Go(IF needsSettlement(run.journal.phase) THEN "settle" ELSE "lookup")
          /\ NoFault
       \/ Fail /\ Fault
    /\ UNCHANGED <<op, world, transfer>>

\* settleSnapshotRuntime ends a Kopia helper of an earlier attempt.  When it
\* cannot, the command returns and its cleanup leaves the writers stopped.
Settle ==
    /\ At("settle")
    /\ \/ /\ kopia' = "idle"
          /\ run' = [run EXCEPT !.step = "lookup", !.settled = TRUE]
          /\ NoFault
       \/ UNCHANGED kopia /\ run' = Idle /\ Fault
    /\ UNCHANGED <<op, running, stopping, stored, transfer>>

\* The step after a lookup that leaves the cleanup of a found snapshot out.
AfterLookupUnarmed ==
    CASE stored -> "complete"
      [] ~stored /\ run.journal.phase = "" -> "prepare"
      [] ~stored /\ run.journal.phase = "prepared" -> "stop"
      [] OTHER -> "reprepare"

\* A stored snapshot of this request is the result, and its writers resume.
AfterLookup ==
    CASE stored -> "cleanup"
      [] ~stored /\ run.journal.phase = "" -> "prepare"
      [] ~stored /\ run.journal.phase = "prepared" -> "stop"
      [] OTHER -> "reprepare"

\* FindSnapshot.
Lookup ==
    /\ At("lookup")
    /\ \/ Go(AfterLookup) /\ NoFault
       \/ Fail /\ Fault
    /\ UNCHANGED <<op, world, transfer>>

\* prepareQuiescence records the running containers before any is stopped.
Prepare ==
    /\ At("prepare")
    /\ LET j == [run.journal EXCEPT !.phase = "prepared", !.set = running]
       IN  Persist("phase", j, run' = [run EXCEPT !.step = "stop", !.journal = j],
                   run' = Idle)
    /\ UNCHANGED <<world, transfer>>

\* A retained journal starts over from "prepared".
Reprepare ==
    /\ At("reprepare")
    /\ PersistPhase("prepared", "stop")
    /\ UNCHANGED <<world, transfer>>

\* StopContainer returns when the container is stopped, or fails while the
\* daemon may still be stopping it.
StopContainer(w) ==
    \/ /\ running' = running \ {w} /\ stopping' = stopping \ {w}
       /\ UNCHANGED run /\ NoFault
    \/ stopping' \in {stopping, stopping \cup {w}} /\ UNCHANGED running
       /\ Fail /\ Fault

\* ValidateCleanDockerStop refuses a container found stopped.
StopUnclean ==
    /\ run.journal.set \ running # {}
    /\ Fail /\ Fault /\ UNCHANGED <<running, stopping>>

\* stopQuiescence, one running container after the other.
Stop ==
    /\ At("stop")
    /\ LET left == run.journal.set \cap running
       IN  \/ /\ left = {}
              /\ Go("verify") /\ NoFault /\ UNCHANGED <<running, stopping>>
           \/ left # {} /\ StopContainer(FirstToStop(left))
           \/ StopUnclean
    /\ UNCHANGED <<op, kopia, stored, transfer>>

\* Its last check, and the record that the writers are stopped.
Verify ==
    /\ At("verify")
    /\ IF running = {} THEN PersistPhase("stopped", "create")
       ELSE Fail /\ NoFault /\ UNCHANGED op
    /\ UNCHANGED <<world, transfer>>

\* CreateSnapshot starts the helper.  Its answer may be lost while it works.
Create ==
    /\ At("create")
    /\ kopia' = "capturing"
    /\ \/ run' = [run EXCEPT !.step = "finalize", !.attempted = TRUE,
                             !.settled = FALSE] /\ NoFault
       \/ run' = [run EXCEPT !.step = "cleanup", !.attempted = TRUE,
                             !.settled = FALSE, !.failed = TRUE] /\ Fault
    /\ UNCHANGED <<op, running, stopping, stored, transfer>>

\* The helper (external) ends, with a snapshot or without one.
KopiaEnds ==
    /\ kopia = "capturing"
    /\ kopia' = "idle"
    /\ \/ stored' = TRUE /\ NoFault
       \/ UNCHANGED stored /\ Fault
    /\ UNCHANGED <<op, run, running, stopping, transfer>>

\* The answer of CreateSnapshot, and the record of the snapshot.
Finalize ==
    /\ At("finalize") /\ kopia = "idle"
    /\ IF stored THEN PersistPhase("snapshot-created", "export")
       ELSE Fail /\ NoFault /\ UNCHANGED op
    /\ UNCHANGED <<world, transfer>>

\* The export of a transfer, and the check that its source stayed stopped.
Export ==
    /\ At("export")
    /\ \/ /\ IF run.mode = "migrate" /\ run.journal.set \cap running # {} THEN Fail
             ELSE Go(IF run.mode = "migrate" THEN "hold" ELSE "cleanup")
          /\ NoFault
       \/ Fail /\ Fault
    /\ UNCHANGED <<op, world, transfer>>

\* The hold is recorded and the process returns; when the record is refused the
\* process forgets the hold and resumes its writers.
Hold ==
    /\ At("hold")
    /\ Persist("hold", [run.journal EXCEPT !.hold = TRUE], run' = Idle, Fail)
    /\ UNCHANGED <<world, transfer>>

-----------------------------------------------------------------------------
(* The deferred cleanup: settlement, then restoreQuiescence *)

\* A settlement that only looks at what an earlier process attempted.
SettlementDueOnResume == run.resume /\ ~run.settled

SettlementDue ==
    \/ run.resume /\ ~run.settled
    \/ run.attempted /\ run.failed /\ ~run.settled

Cleanup ==
    /\ At("cleanup")
    /\ Go(IF SettlementDue THEN "resettle"
          ELSE IF run.journal.phase = "prepared" THEN "restop" ELSE "start")
    /\ UNCHANGED <<op, world, transfer, faults>>

Resettle ==
    /\ At("resettle")
    /\ \/ /\ kopia' = "idle"
          /\ run' = [run EXCEPT !.settled = TRUE,
                       !.step = IF run.journal.phase = "prepared" THEN "restop"
                                ELSE "start"]
          /\ NoFault
       \/ UNCHANGED kopia /\ run' = Idle /\ Fault
    /\ UNCHANGED <<op, running, stopping, stored, transfer>>

\* settleQuiescenceStop: in phase "prepared" a stop may still be under way, so
\* every container that runs is stopped before any is started.
NothingToSettle == {}
LeftToSettle == run.journal.set \cap running

Restop ==
    /\ At("restop")
    /\ IF LeftToSettle = {} THEN Go("start") /\ NoFault /\ UNCHANGED <<running, stopping>>
       ELSE LET w == FirstToStop(LeftToSettle)
            IN  \/ /\ running' = running \ {w} /\ stopping' = stopping \ {w}
                   /\ UNCHANGED run /\ NoFault
                \/ stopping' \in {stopping, stopping \cup {w}}
                   /\ UNCHANGED running /\ run' = Idle /\ Fault
    /\ UNCHANGED <<op, kopia, stored, transfer>>

\* The containers of the journal are started in the reverse order.
Start ==
    /\ At("start")
    /\ LET left == run.journal.set \ running
       IN  IF left = {} THEN Go("restore") /\ NoFault /\ UNCHANGED running
           ELSE LET w == FirstToStart(left)
                IN  \/ running' = running \cup {w} /\ UNCHANGED run /\ NoFault
                    \/ running' \in {running, running \cup {w}}
                       /\ run' = Idle /\ Fault
    /\ UNCHANGED <<op, stopping, kopia, stored, transfer>>

\* The journal is recorded as restored; an operation that failed ends here.
Restore ==
    /\ At("restore")
    /\ LET j == [run.journal EXCEPT !.phase = "restored"]
       IN  Persist("phase", j,
                   run' = IF run.failed THEN Idle
                          ELSE [run EXCEPT !.step = "complete", !.journal = j],
                   run' = Idle)
    /\ UNCHANGED <<world, transfer>>

\* completeSnapshot signs an anchor for a stored snapshot of a restored journal.
Complete ==
    /\ At("complete")
    /\ run' = Idle
    /\ \/ /\ op' = IF op.journal.phase = "restored"
                   THEN [op EXCEPT !.state = "completed"] ELSE op
          /\ NoFault
       \/ UNCHANGED op /\ Fault
    /\ UNCHANGED <<world, transfer>>

-----------------------------------------------------------------------------
(* The transfer of a held source *)

\* recoverApplicationTransferSourceReceipt reads the hold in the journal, and
\* takes no lease for it: another process may be executing the operation.
SignReceipt ==
    /\ op.state = "pending" /\ op.journal.hold
    /\ op.journal.phase = "snapshot-created"
    /\ receipt' = TRUE
    /\ UNCHANGED <<op, run, world, destination, faults>>

\* The receiving node (external) activates the data or stops for good.
Decide(d) ==
    /\ receipt /\ destination = "none"
    /\ destination' = d
    /\ UNCHANGED <<op, run, world, receipt, faults>>

RecordApplicationTransferOutcome ==
    /\ run = Idle
    /\ op.state = "pending" /\ op.journal.hold
    /\ destination # "none" /\ op.journal.outcome = "none"
    /\ op' = [op EXCEPT !.journal.outcome = destination]
    /\ UNCHANGED <<run, world, transfer, faults>>

PrepareApplicationTransferRetirement ==
    /\ run = Idle
    /\ op.state = "pending" /\ op.journal.hold
    /\ op.journal.outcome = "activated"
    /\ op' = [op EXCEPT !.journal.planned = TRUE]
    /\ UNCHANGED <<run, world, transfer, faults>>

CompleteApplicationTransferRetirement ==
    /\ run = Idle
    /\ op.state = "pending" /\ op.journal.hold
    /\ op.journal.outcome = "activated" /\ op.journal.planned
    /\ op' = [op EXCEPT !.state = "transferred",
                        !.journal.phase = "transfer-retired"]
    /\ UNCHANGED <<run, world, transfer, faults>>

-----------------------------------------------------------------------------
(* The host *)

\* A stop whose caller gave up lands.
LateStop(w) ==
    /\ w \in stopping
    /\ running' = running \ {w} /\ stopping' = stopping \ {w}
    /\ UNCHANGED <<op, run, kopia, stored, transfer, faults>>

\* The process ends between two of its steps.
Crash ==
    /\ run # Idle /\ Fault
    /\ run' = Idle
    /\ UNCHANGED <<op, world, transfer>>

ProcessStep ==
    \/ Enter \/ Settle \/ Lookup \/ Prepare \/ Reprepare \/ Stop \/ Verify
    \/ Create \/ Finalize \/ Export \/ Hold \/ Cleanup \/ Resettle \/ Restop
    \/ Start \/ Restore \/ Complete

TransferStep ==
    \/ SignReceipt \/ \E d \in {"activated", "stopped"} : Decide(d)
    \/ RecordApplicationTransferOutcome
    \/ PrepareApplicationTransferRetirement
    \/ CompleteApplicationTransferRetirement

\* A retry whose "prepared" record was refused still stops its writers as in
\* that phase; a stop it gives up on is under way over a record that says
\* "stopped" or "restored", so no later cleanup settles it.
UnrecordedStop == stopping # {} /\ op.journal.phase # "prepared"

Remember == unrecorded' = (unrecorded \/ UnrecordedStop')

QuiescenceStep ==
    \/ \E m \in Mode : Run(m)
    \/ ProcessStep \/ TransferStep \/ KopiaEnds \/ Crash
    \/ \E w \in Writer : LateStop(w)

QuiescenceNext == QuiescenceStep /\ Remember

QuiescenceSpec == QuiescenceInit /\ [][QuiescenceNext]_quiescenceVars

-----------------------------------------------------------------------------
(* Properties *)

\* While Kopia captures, no writer of the governed volumes runs: whatever was
\* lost or crashed before, an earlier helper is settled before a writer starts.
ContainersQuiesced == kopia = "capturing" => running = {}

\* An operation is recorded as restored only when every writer it stopped runs
\* again and no stop it gave up on can still land, unless one was unrecorded.
RestoredWhenRunning ==
    [][~unrecorded
         /\ op.journal.phase # "restored" /\ op'.journal.phase = "restored"
         => op.journal.set \subseteq running \ stopping]_quiescenceVars

\* The writers of a journal with a graph lose and regain power in its order: one
\* runs only while all that stop after it run, unless a stop was unrecorded.
PowerFollowsGraph ==
    HasGraph /\ ~unrecorded =>
      \A v \in op.journal.set \cap running, w \in op.journal.set :
          StopRank[v] < StopRank[w] => w \in running

\* An application never runs on both nodes: once the destination has activated
\* the transferred data, no source writer of that operation runs.
OneLiveCopy == destination = "activated" => op.journal.set \cap running = {}

\* The writers that ran return, or the operation holds them stopped.
WritersReturn ==
    []<>(op.journal.hold \/ op.journal.set \subseteq running)

=============================================================================
