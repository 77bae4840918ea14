------------------------- MODULE RestoreActivation -------------------------
(***************************************************************************)
(* One restore activation (internal/restoreactivation): the staged data of *)
(* a backup replaces the live volumes of the running services, with a      *)
(* rollback copy of every volume, under the signed mutation journal.       *)
(*                                                                         *)
(* The driver is Activate, its automatic recovery recoverAfterFailure, or  *)
(* an explicit Recover; the journal lock lets one of them run at a time.   *)
(* What the driver did is only what the journal's newest record says: every *)
(* error path either reconciles with that record or ends the process, so   *)
(* the record is the journal's whole state here (module MutationJournal    *)
(* has its pointer, history and locks).  Copies and digests run in helper  *)
(* containers of the Docker daemon, which outlive a killed Docker CLI.     *)
(***************************************************************************)
EXTENDS LifecyclePhases, Integers

CONSTANTS
    N,          \* number of managed volumes, in the order of the authority
    Powers,     \* who may stop and start the services
    FaultKind,  \* the faults the environment may inject
    MaxFaults   \* how many of them

Vol == 1..N

\* The plain Compose runtime, an application's manager, a native app group.
PowerControl == {"compose", "application", "group"}

ASSUME RestoreAssumption ==
    /\ N \in Nat \ {0}
    /\ Powers \subseteq PowerControl
    /\ FaultKind \subseteq {"journal", "call", "cancel", "crash"}
    /\ MaxFaults \in Nat

VARIABLES
    jrn,       \* newest signed record of the operation
    live,      \* content of each live volume
    rollback,  \* content of each rollback volume
    wrote,     \* volumes whose original data the services have since changed
    staged,    \* TRUE while the staged restore tree exists
    running,   \* TRUE while a service runs
    helpers,   \* helper containers the Docker daemon runs
    pc,        \* where the driver is
    entry,     \* the call it runs
    waiting,   \* the helper it waits for: {} or {h}
    done,      \* runtime calls finished: of this phase, or of this rollback
    result,    \* the persisted result
    finalized, \* results handed to FinalizeResult
    faults     \* faults injected so far

data == <<live, rollback, wrote, staged, running>>
driver == <<pc, entry, waiting, done>>
evidence == <<result, finalized>>
vars == <<jrn, data, helpers, driver, evidence, faults>>

Content == {"original", "newer", "staged", "partial", "absent"}

\* power: who stops and starts the services the operation is bound to.
Record == [power : Powers, phase : Phase \cup {"none"}, status : Status,
           prepared : 0..N, activated : 0..N, inFlight : 0..N,
           custody : BOOLEAN, unresolved : {"none", "stop", "start"},
           closed : BOOLEAN]

NotBegun == [power : Powers, phase : {"none"}, status : {Active},
             prepared : {0}, activated : {0}, inFlight : {0},
             custody : {FALSE}, unresolved : {"none"}, closed : {FALSE}]

NoResult == [status |-> "none", evidence |-> 0]

Init ==
    /\ jrn \in NotBegun
    /\ live = [v \in Vol |-> "original"]
    /\ rollback = [v \in Vol |-> "absent"]
    /\ wrote = {} /\ staged = TRUE /\ running = TRUE /\ helpers = {}
    /\ pc = "idle" /\ entry = "none" /\ waiting = {} /\ done = {}
    /\ result = NoResult /\ finalized = {}
    /\ faults = 0

-----------------------------------------------------------------------------
(* Faults and the driver's error path.                                     *)

Fault(kind) ==
    kind \in FaultKind /\ faults < MaxFaults /\ faults' = faults + 1

\* An error before the activation is verified starts automatic recovery; any
\* other error ends the driver and leaves the rest to explicit recovery.
Fail ==
    /\ IF pc = "activate" THEN pc' = "reconcile" /\ entry' = "auto"
                          ELSE pc' = "idle" /\ entry' = "none"
    /\ waiting' = {} /\ done' = {}

Goto(next) == pc' = next /\ UNCHANGED <<entry, waiting, done>>

-----------------------------------------------------------------------------
(* Journal writes.                                                         *)

\* The record is signed, or the write fails with or without installing it.
\* A phase's calls are forgotten with the phase; a rollback stops the services
\* and verifies once.
Sign(r, next) ==
    /\ \/ /\ jrn' = r
          /\ pc' = next
          /\ done' = IF pc = "rollback" THEN done \cap {"stop", "verify"} ELSE {}
          /\ UNCHANGED <<entry, waiting, faults>>
       \/ Fault("journal") /\ jrn' \in {jrn, r} /\ Fail
    /\ UNCHANGED <<data, helpers, evidence>>

\* validateRestoreActivationPhaseProgress
PhaseProgress(r) ==
    CASE r.phase \in {"prepared", "quiesce-started", "quiesced"} ->
            r.prepared = 0 /\ r.activated = 0 /\ r.inFlight = 0
      [] r.phase = "rollback-copy-started" ->
            r.activated = 0 /\ r.prepared < N /\ r.inFlight = r.prepared + 1
      [] r.phase = "rollback-copy-succeeded" ->
            r.prepared > 0 /\ r.activated = 0 /\ r.inFlight = 0
      [] r.phase = "rollback-ready" ->
            r.prepared = N /\ r.activated = 0 /\ r.inFlight = 0
      [] r.phase = "activation-copy-started" ->
            r.prepared = N /\ r.activated < N /\ r.inFlight = r.activated + 1
      [] r.phase = "activation-copy-succeeded" ->
            r.prepared = N /\ r.activated > 0 /\ r.inFlight = 0
      [] r.phase \in {"activation-succeeded", "runtime-start-started",
                      "runtime-start-succeeded", "verify-started",
                      "verify-succeeded", "commit-started",
                      "commit-succeeded"} ->
            r.prepared = N /\ r.activated = N /\ r.inFlight = 0
      [] r.phase \in {"rollback-started", "rollback-volume-succeeded"} ->
            r.inFlight = 0
      [] r.phase = "rollback-volume-started" ->
            r.activated > 0 /\ r.inFlight = r.activated
      [] OTHER -> r.activated = 0 /\ r.inFlight = 0

\* validateRestoreActivationProgressTransition: each phase adds or removes
\* exactly the volume it names, and a rollback takes the volume whose copy was
\* in flight for changed.
ExactProgress(r) ==
    CASE r.phase \in {"rollback-copy-started", "activation-copy-started",
                      "rollback-volume-started"} ->
            /\ r.prepared = jrn.prepared /\ r.activated = jrn.activated
            /\ jrn.inFlight = 0
      [] r.phase = "rollback-copy-succeeded" ->
            r.prepared = jrn.inFlight /\ r.activated = jrn.activated
      [] r.phase = "activation-copy-succeeded" ->
            r.activated = jrn.inFlight /\ r.prepared = jrn.prepared
      [] r.phase = "rollback-started" ->
            /\ r.prepared = jrn.prepared
            /\ r.activated = IF jrn.phase = "activation-copy-started"
                             THEN jrn.inFlight ELSE jrn.activated
      [] r.phase = "rollback-volume-succeeded" ->
            r.prepared = jrn.prepared /\ r.activated = jrn.inFlight - 1
      [] OTHER ->
            /\ r.prepared = jrn.prepared /\ r.activated = jrn.activated
            /\ r.inFlight = jrn.inFlight

\* TransitionRestoreActivation
Transition(r, next) ==
    /\ AllowedTransition(RestoreActivation, jrn.phase, r.phase)
    /\ PhaseProgress(r) /\ ExactProgress(r)
    /\ Sign(r, next)

\* The journal's next record: a phase without progress of its own.
To(phase) == [jrn EXCEPT !.phase = phase]

\* Begin: runtime and staging inspected, safety snapshot taken, then the
\* first record.  Nothing is changed before it, so a failure leaves no trace.
Begin ==
    /\ pc = "idle" /\ jrn.phase = "none"
    /\ \/ /\ jrn' = To("prepared")
          /\ pc' = "activate" /\ entry' = "activate"
          /\ UNCHANGED faults
       \/ /\ Fault("journal") /\ jrn' \in {jrn, To("prepared")}
          /\ UNCHANGED <<pc, entry>>
    /\ UNCHANGED <<data, helpers, waiting, done, evidence>>

-----------------------------------------------------------------------------
(* Runtime calls.                                                          *)

\* rollbackPhase
RollbackPhase == {"rollback-started", "rollback-volume-started",
                  "rollback-volume-succeeded", "rollback-runtime-started",
                  "rollback-runtime-succeeded", "rollback-verify-started",
                  "rollback-verify-succeeded", "rollback-succeeded"}

\* Mutant of RequiresQuiesce: a fresh rollback trusts the activation's stop.
QuiesceWhenResumed == {"rollback-volume-started", "rollback-volume-succeeded"}

\* Phases in which a rollback stops the services again before it goes on.
RequiresQuiesce == {"rollback-started", "rollback-volume-started",
                    "rollback-volume-succeeded"}

RequiresVerify == {"rollback-verify-started", "rollback-verify-succeeded",
                   "rollback-succeeded"}

\* The runtime calls activateLocked makes in a phase, in this order.
CallsOf(phase) ==
    CASE phase = "quiesce-started" -> <<"stop">>
      [] phase = "rollback-copy-started" -> <<"copy">>
      [] phase = "activation-copy-started" ->
            <<"copy", "digest-staged", "digest-live">>
      [] phase = "runtime-start-started" -> <<"start">>
      [] phase = "verify-started" -> <<"verify">>
      [] OTHER -> <<>>

ActivateDue(k) ==
    /\ pc = "activate" /\ k \notin done
    /\ \E i \in DOMAIN CallsOf(jrn.phase) :
          /\ CallsOf(jrn.phase)[i] = k
          /\ \A j \in 1..(i - 1) : CallsOf(jrn.phase)[j] \in done

RollbackDue(k) ==
    /\ pc = "rollback" /\ k \notin done
    /\ \/ k = "stop" /\ jrn.phase \in RequiresQuiesce
       \/ k = "copy" /\ jrn.phase = "rollback-volume-started" /\ "stop" \in done
       \/ k = "start" /\ jrn.phase = "rollback-runtime-started"
       \/ k = "verify" /\ jrn.phase \in RequiresVerify

\* Recover of a committed activation only verifies it.
CommitDue(k) == pc = "committed" /\ k = "verify" /\ k \notin done

\* The runtime call the driver makes next.
Due(k) == waiting = {} /\ (ActivateDue(k) \/ RollbackDue(k) \/ CommitDue(k))

Ran(k) == done' = done \cup {k} /\ UNCHANGED <<pc, entry>>

IsDigest(h) == h.call \in {"digest-staged", "digest-live"}

\* An application's or a group's power custody is captured only while
\* quiescing; without it neither is ever stopped.
HasCustody == jrn.power = "compose" \/ jrn.custody

\* A manager's stop or start is journaled before it is dispatched and never
\* dispatched again: an interrupted one may stay unresolved for good.
Interrupted(k) ==
    jrn' \in {jrn} \cup (IF jrn.power # "compose" /\ jrn.custody /\ Due(k)
                        THEN {[jrn EXCEPT !.unresolved = k]} ELSE {})

\* The process ends; what the journal, Docker and the files hold stays.
Crash ==
    /\ pc # "idle" /\ Fault("crash")
    /\ Interrupted("stop") \/ Interrupted("start")
    /\ pc' = "idle" /\ entry' = "none" /\ waiting' = {} /\ done' = {}
    /\ UNCHANGED <<data, helpers, evidence>>

\* captureControls and bindGroups, inside the first Stop.
CaptureCustody ==
    /\ Due("stop") /\ ~HasCustody /\ jrn.phase = "quiesce-started"
    /\ Sign([jrn EXCEPT !.custody = TRUE], pc)

\* Stop ends the operation's copy helpers first, then the services.
Stop ==
    /\ Due("stop") /\ HasCustody /\ jrn.unresolved = "none"
    /\ \A h \in helpers : ~IsDigest(h)
    /\ helpers' = {}
    /\ running' = FALSE
    /\ Ran("stop")
    /\ UNCHANGED <<jrn, live, rollback, wrote, staged, waiting, evidence,
                   faults>>

\* Stop refuses a helper it does not know, such as an interrupted digest, a
\* runtime whose power custody was never captured, and an unresolved control.
StopRefused ==
    /\ Due("stop")
    /\ \/ \E h \in helpers : IsDigest(h)
       \/ ~HasCustody /\ jrn.phase # "quiesce-started"
       \/ jrn.unresolved # "none"
    /\ Fail
    /\ UNCHANGED <<jrn, data, helpers, evidence, faults>>

StopFails ==
    /\ Due("stop") /\ (Fault("call") \/ Fault("cancel"))
    /\ helpers' \in SUBSET helpers
    /\ running' \in {running, FALSE}
    /\ Interrupted("stop")
    /\ Fail
    /\ UNCHANGED <<live, rollback, wrote, staged, evidence>>

Start ==
    /\ Due("start") /\ jrn.unresolved = "none"
    /\ running' = TRUE
    /\ Ran("start")
    /\ UNCHANGED <<jrn, live, rollback, wrote, staged, helpers, waiting,
                   evidence, faults>>

\* Some services may already run when Start fails.
StartFails ==
    /\ Due("start") /\ (Fault("call") \/ Fault("cancel"))
    /\ running' \in BOOLEAN
    /\ Interrupted("start")
    /\ Fail
    /\ UNCHANGED <<live, rollback, wrote, staged, helpers, evidence>>

\* A control left unresolved by an interrupted start refuses the next one.
StartRefused ==
    /\ Due("start") /\ jrn.unresolved # "none"
    /\ Fail
    /\ UNCHANGED <<jrn, data, helpers, evidence, faults>>

\* The manager carries an unresolved command out late.
ManagerActsLate ==
    /\ jrn.unresolved # "none" /\ running' = (jrn.unresolved = "start")
    /\ UNCHANGED <<jrn, live, rollback, wrote, staged, helpers, driver, evidence,
                   faults>>

\* VerifyLive probes the running services; it reads no volume.
VerifyLive ==
    /\ Due("verify")
    /\ \/ running /\ Ran("verify") /\ UNCHANGED <<waiting, faults>>
       \/ (Fault("call") \/ Fault("cancel")) /\ Fail
    /\ UNCHANGED <<jrn, data, helpers, evidence>>

-----------------------------------------------------------------------------
(* Helper containers: PrepareRollback, ActivateVolume, RestoreVolume and    *)
(* DigestVolume each run one.                                              *)

Helper == [call : {"save", "activate", "restore", "digest-staged",
                   "digest-live"}, vol : Vol]

CopyCall == CASE jrn.phase = "rollback-copy-started" -> "save"
              [] jrn.phase = "activation-copy-started" -> "activate"
              [] OTHER -> "restore"

\* Mutant of CopyStarts: the helper is started and not waited for.
CopyDetached ==
    /\ Due("copy")
    /\ \A h \in helpers : h.vol = jrn.inFlight => IsDigest(h)
    /\ CopyCall = "restore" => rollback[jrn.inFlight] # "absent"
    /\ helpers' = helpers \cup {[call |-> CopyCall, vol |-> jrn.inFlight]}
    /\ Ran("copy")
    /\ IF CopyCall = "save"
       THEN /\ rollback' = [rollback EXCEPT ![jrn.inFlight] = "partial"]
            /\ UNCHANGED live
       ELSE /\ live' = [live EXCEPT ![jrn.inFlight] = "partial"]
            /\ UNCHANGED rollback
    /\ UNCHANGED <<jrn, wrote, staged, running, waiting, evidence, faults>>

\* copyVolume empties the target first; a taken helper name is refused.
CopyStarts ==
    /\ Due("copy")
    /\ \A h \in helpers : h.vol = jrn.inFlight => IsDigest(h)
    /\ CopyCall = "restore" => rollback[jrn.inFlight] # "absent"
    /\ LET h == [call |-> CopyCall, vol |-> jrn.inFlight]
       IN helpers' = helpers \cup {h} /\ waiting' = {h}
    /\ IF CopyCall = "save"
       THEN /\ rollback' = [rollback EXCEPT ![jrn.inFlight] = "partial"]
            /\ UNCHANGED live
       ELSE /\ live' = [live EXCEPT ![jrn.inFlight] = "partial"]
            /\ UNCHANGED rollback
    /\ UNCHANGED <<jrn, wrote, staged, running, pc, entry, done, evidence,
                   faults>>

DigestStarts(k) ==
    /\ k \in {"digest-staged", "digest-live"} /\ Due(k)
    /\ LET h == [call |-> k, vol |-> jrn.inFlight]
       IN helpers' = helpers \cup {h} /\ waiting' = {h}
    /\ UNCHANGED <<jrn, data, pc, entry, done, evidence, faults>>

\* The driver that waits for h goes on; nobody waits for an orphan.
Resume(h, k) ==
    IF h \in waiting THEN waiting' = {} /\ Ran(k) ELSE UNCHANGED driver

CopyEnds(h) ==
    /\ ~IsDigest(h)
    /\ helpers' = helpers \ {h}
    /\ rollback' = IF h.call = "save"
                   THEN [rollback EXCEPT ![h.vol] = live[h.vol]] ELSE rollback
    /\ live' = CASE h.call = "activate" -> [live EXCEPT ![h.vol] = "staged"]
                 [] h.call = "restore" ->
                        [live EXCEPT ![h.vol] = rollback[h.vol]]
                 [] OTHER -> live
    /\ Resume(h, "copy")
    /\ UNCHANGED <<jrn, wrote, staged, running, evidence, faults>>

\* readBackVolume compares the live volume with the staged one.
DigestEnds(h) ==
    /\ IsDigest(h)
    /\ helpers' = helpers \ {h}
    /\ IF h \in waiting /\ h.call = "digest-live" /\ live[h.vol] # "staged"
       THEN Fail
       ELSE Resume(h, h.call)
    /\ UNCHANGED <<jrn, data, evidence, faults>>

\* The helper exits with an error, before or after it changed its target.
HelperFails(h) ==
    /\ h \in waiting /\ Fault("call")
    /\ helpers' = helpers \ {h}
    /\ Fail
    /\ UNCHANGED <<jrn, data, evidence>>

\* The context ends: the Docker CLI is killed, the daemon's helper is not.
Cancel ==
    /\ waiting # {} /\ Fault("cancel")
    /\ Fail
    /\ UNCHANGED <<jrn, data, helpers, evidence>>

\* The services change their own data while they run.
ServiceWrites(v) ==
    /\ running /\ live[v] = "original" /\ v \notin wrote
    /\ live' = [live EXCEPT ![v] = "newer"]
    /\ wrote' = wrote \cup {v}
    /\ UNCHANGED <<jrn, rollback, staged, running, helpers, driver, evidence,
                   faults>>

-----------------------------------------------------------------------------
(* activateLocked: the forward phases.                                     *)

CallsDone == \A i \in DOMAIN CallsOf(jrn.phase) : CallsOf(jrn.phase)[i] \in done

ActivateVolumes ==
    \/ /\ jrn.phase \in {"quiesced", "rollback-copy-succeeded"}
       /\ jrn.prepared < N
       /\ Transition([To("rollback-copy-started") EXCEPT
                        !.inFlight = jrn.prepared + 1], pc)
    \/ /\ jrn.phase = "rollback-copy-started"
       /\ Transition([To("rollback-copy-succeeded") EXCEPT
                        !.prepared = @ + 1, !.inFlight = 0], pc)
    \/ /\ jrn.phase = "rollback-copy-succeeded" /\ jrn.prepared = N
       /\ Transition(To("rollback-ready"), pc)
    \/ /\ jrn.phase \in {"rollback-ready", "activation-copy-succeeded"}
       /\ jrn.activated < N
       /\ Transition([To("activation-copy-started") EXCEPT
                        !.inFlight = jrn.activated + 1], pc)
    \/ /\ jrn.phase = "activation-copy-started"
       /\ Transition([To("activation-copy-succeeded") EXCEPT
                        !.activated = @ + 1, !.inFlight = 0], pc)
    \/ /\ jrn.phase = "activation-copy-succeeded" /\ jrn.activated = N
       /\ Transition(To("activation-succeeded"), pc)

\* Phases around the volume loops, without progress of their own.
ActivateRuntime ==
    \E next \in {"quiesce-started", "quiesced", "runtime-start-started",
                 "runtime-start-succeeded", "verify-started",
                 "verify-succeeded"} : Transition(To(next), pc)

activateLocked ==
    /\ pc = "activate" /\ waiting = {} /\ CallsDone
    /\ ActivateVolumes \/ ActivateRuntime

\* Activate signs its result before the commit; a failure still rolls back.
SignActivated ==
    /\ pc = "activate" /\ jrn.phase = "verify-succeeded"
    /\ \/ Goto("commit") /\ UNCHANGED faults
       \/ Fault("call") /\ Fail
    /\ UNCHANGED <<jrn, data, helpers, evidence>>

Commit ==
    /\ pc = "commit"
    /\ \/ jrn.phase = "verify-succeeded" /\ Transition(To("commit-started"), pc)
       \/ /\ jrn.phase = "commit-started"
          /\ Transition(To("commit-succeeded"), "persist")

-----------------------------------------------------------------------------
(* rollbackLocked: from any phase before the commit, or resumed.           *)

\* Mutant of RollbackStarts: a volume whose copy never completed is left out.
RollbackCompleted ==
    /\ jrn.phase \notin RollbackPhase
    /\ Transition([To("rollback-started") EXCEPT !.inFlight = 0], pc)

\* The volume whose activation copy was in flight counts as changed.
RollbackStarts ==
    /\ jrn.phase \notin RollbackPhase
    /\ Transition([To("rollback-started") EXCEPT
                     !.activated = IF jrn.phase = "activation-copy-started"
                                   THEN @ + 1 ELSE @,
                     !.inFlight = 0], pc)

RollbackVolumes ==
    \/ /\ jrn.phase \in {"rollback-started", "rollback-volume-succeeded"}
       /\ jrn.activated > 0
       /\ Transition([To("rollback-volume-started") EXCEPT
                        !.inFlight = jrn.activated], pc)
    \/ /\ jrn.phase = "rollback-volume-started" /\ "copy" \in done
       /\ Transition([To("rollback-volume-succeeded") EXCEPT
                        !.activated = @ - 1, !.inFlight = 0], pc)

RollbackRuntime ==
    \/ /\ jrn.phase \in {"rollback-started", "rollback-volume-succeeded"}
       /\ jrn.activated = 0
       /\ Transition(To("rollback-runtime-started"), pc)
    \/ /\ jrn.phase = "rollback-runtime-started" /\ "start" \in done
       /\ Transition(To("rollback-runtime-succeeded"), pc)
    \/ /\ jrn.phase = "rollback-runtime-succeeded"
       /\ Transition(To("rollback-verify-started"), pc)
    \/ /\ jrn.phase = "rollback-verify-started" /\ "verify" \in done
       /\ Transition(To("rollback-verify-succeeded"), pc)
    \/ /\ jrn.phase = "rollback-verify-succeeded" /\ "verify" \in done
       /\ Transition(To("rollback-succeeded"), pc)

rollbackLocked ==
    /\ pc = "rollback" /\ waiting = {}
    /\ jrn.phase \in RequiresQuiesce => "stop" \in done
    /\ RollbackStarts \/ RollbackVolumes \/ RollbackRuntime

\* Mutant of RolledBack: the rollback counts as done one record early.
RolledBackEarly ==
    /\ pc = "rollback" /\ "verify" \in done
    /\ jrn.phase \in {"rollback-verify-succeeded", "rollback-succeeded"}
    /\ Goto("persist")
    /\ UNCHANGED <<jrn, data, helpers, evidence, faults>>

RolledBack ==
    /\ pc = "rollback" /\ jrn.phase = "rollback-succeeded" /\ "verify" \in done
    /\ Goto("persist")
    /\ UNCHANGED <<jrn, data, helpers, evidence, faults>>

\* recoverAfterFailure first reads the newest record back.
ReconcileForRecovery ==
    /\ pc = "reconcile"
    /\ \/ Goto("rollback") /\ UNCHANGED faults
       \/ Fault("journal") /\ Fail
    /\ UNCHANGED <<jrn, data, helpers, evidence>>

-----------------------------------------------------------------------------
(* The end of Activate, recoverAfterFailure and Recover.                   *)

Outcome(phase) ==
    IF phase = "commit-succeeded" THEN "activated" ELSE "recovered"

Settled == jrn.status # Active
SettledOutcome == IF jrn.status = Succeeded THEN "activated" ELSE "recovered"

\* Recover opens the journal and takes one of its three branches.
Recover ==
    /\ pc = "idle" /\ jrn.phase # "none"
    /\ entry' = "recover" /\ waiting' = {} /\ done' = {}
    /\ \/ /\ Settled /\ result.status = SettledOutcome
          /\ pc' = "close"
       \/ /\ ~Settled /\ jrn.phase = "commit-succeeded"
          /\ pc' = "committed"
       \/ /\ ~Settled /\ jrn.phase # "commit-succeeded"
          /\ pc' = "rollback"
    /\ UNCHANGED <<jrn, data, helpers, evidence, faults>>

CommittedVerified ==
    /\ pc = "committed" /\ "verify" \in done
    /\ Goto("persist")
    /\ UNCHANGED <<jrn, data, helpers, evidence, faults>>

\* A result signed now carries evidence no earlier result carries.
signResult ==
    [status |-> Outcome(jrn.phase), evidence |-> result.evidence + 1]

\* Mutant of resultForFinalization: every retry signs a result of its own.
AlwaysSigned == signResult

\* Explicit recovery hands the finalizer the result it finds, if there is one.
resultForFinalization ==
    IF entry = "recover" /\ result # NoResult THEN result ELSE signResult

\* The write may fail with the result already in place.
persistResult ==
    /\ pc = "persist"
    /\ entry = "recover" => result.status \in {"none", Outcome(jrn.phase)}
    /\ \/ result' = resultForFinalization /\ Goto("cleanup") /\ UNCHANGED faults
       \/ /\ Fault("call") /\ result' \in {result, resultForFinalization}
          /\ Fail
    /\ UNCHANGED <<jrn, data, helpers, finalized>>

\* Mutant of Cleanup: a volume that cannot be removed is passed over.
CleanupLenient ==
    /\ pc = "cleanup"
    /\ \E kept \in SUBSET Vol :
          rollback' = [v \in Vol |-> IF v \in kept THEN rollback[v]
                                     ELSE "absent"]
    /\ Goto("finalize")
    /\ UNCHANGED <<jrn, live, wrote, staged, running, helpers, evidence, faults>>

\* cleanupRollbackVolumes tries every volume; removeActivatedStaging, after a
\* committed activation only, may fail silently.
Cleanup ==
    /\ pc = "cleanup"
    /\ \/ /\ rollback' = [v \in Vol |-> "absent"]
          /\ staged' \in (IF jrn.phase = "commit-succeeded"
                          THEN {staged, FALSE} ELSE {staged})
          /\ Goto("finalize") /\ UNCHANGED faults
       \/ /\ Fault("call") \/ Fault("cancel")
          /\ \E kept \in SUBSET Vol :
                rollback' = [v \in Vol |-> IF v \in kept THEN rollback[v]
                                           ELSE "absent"]
          /\ Fail /\ UNCHANGED staged
    /\ UNCHANGED <<jrn, live, wrote, running, helpers, evidence>>

\* A failing finalizer may have committed part of its work.
FinalizeResult ==
    /\ pc = "finalize"
    /\ finalized' = finalized \cup {result}
    /\ \/ Goto("complete") /\ UNCHANGED faults
       \/ Fault("call") /\ Fail
    /\ UNCHANGED <<jrn, data, helpers, result>>

Complete ==
    /\ pc = "complete"
    /\ Sign([jrn EXCEPT !.status = IF jrn.phase = "commit-succeeded"
                                   THEN Succeeded ELSE Recovered], "close")

\* closeOriginalAppGroups: the native close, then its signed acknowledgement.
ClosePending == jrn.power = "group" /\ jrn.custody /\ ~jrn.closed

CloseAppGroupHolds ==
    /\ pc = "close" /\ ClosePending
    /\ Sign([jrn EXCEPT !.closed = TRUE], "close")

Return ==
    /\ pc = "close" /\ ~ClosePending
    /\ pc' = "idle" /\ entry' = "none" /\ waiting' = {} /\ done' = {}
    /\ UNCHANGED <<jrn, data, helpers, evidence, faults>>

-----------------------------------------------------------------------------

RuntimeCall ==
    \/ CaptureCustody \/ Stop \/ StopRefused \/ StopFails
    \/ Start \/ StartFails \/ StartRefused \/ VerifyLive \/ CopyStarts
    \/ \E k \in {"digest-staged", "digest-live"} : DigestStarts(k)

Driver ==
    \/ Begin \/ activateLocked \/ SignActivated \/ Commit
    \/ ReconcileForRecovery \/ rollbackLocked \/ RolledBack
    \/ CommittedVerified \/ persistResult \/ Cleanup \/ FinalizeResult
    \/ Complete \/ CloseAppGroupHolds \/ Return

HelperEnds == \E h \in helpers : CopyEnds(h) \/ DigestEnds(h)

Next ==
    \/ RuntimeCall \/ Driver \/ Recover \/ HelperEnds
    \/ Cancel \/ Crash \/ ManagerActsLate
    \/ \E h \in helpers : HelperFails(h)
    \/ \E v \in Vol : ServiceWrites(v)

Spec == Init /\ [][Next]_vars

\* A running driver takes its next step, a helper container ends, and the
\* Owner repeats Recover as long as the operation is not settled.
Fairness ==
    /\ WF_vars(RuntimeCall) /\ WF_vars(Driver) /\ WF_vars(HelperEnds)
    /\ WF_vars(Recover)

FairSpec == Spec /\ Fairness

-----------------------------------------------------------------------------

\* Type correctness; the driver waits only for a helper the daemon still runs.
TypeOK ==
    /\ jrn \in Record
    /\ live \in [Vol -> Content] /\ rollback \in [Vol -> Content]
    /\ wrote \subseteq Vol /\ staged \in BOOLEAN /\ running \in BOOLEAN
    /\ helpers \subseteq Helper /\ waiting \subseteq helpers
    /\ pc \in {"idle", "activate", "reconcile", "rollback", "commit",
               "committed", "persist", "cleanup", "finalize", "complete",
               "close"}
    /\ entry \in {"none", "activate", "auto", "recover"}
    /\ done \subseteq {"stop", "start", "copy", "verify", "digest-staged",
                       "digest-live"}
    /\ result \in [status : {"none", "activated", "recovered"}, evidence : Nat]
    /\ finalized \subseteq [status : {"activated", "recovered"}, evidence : Nat]
    /\ faults \in 0..MaxFaults

\* The newest content of a volume's own data, before any activation.
Newest(v) == IF v \in wrote THEN "newer" ELSE "original"

\* Every live volume that does not hold its own data is one the signed record
\* counts as activated, or the one it names in flight: whatever the crash, the
\* journal knows every volume a rollback has to restore.
JournalCoversChanges ==
    \A v \in Vol : live[v] # Newest(v) =>
        v <= jrn.activated \/ (v = jrn.inFlight /\ jrn.phase # "rollback-copy-started")

\* Until the commit is signed the newest own data of every volume exists, in
\* the live volume or in its rollback volume: no copy, orphaned helper, resumed
\* rollback or restart of the services loses it.
OriginalDataKept ==
    jrn.phase # "commit-succeeded" =>
        \A v \in Vol : live[v] = Newest(v) \/ rollback[v] = Newest(v)

\* Services never run on a mixture of restored and own volumes, on a half
\* copied one, or while a copy helper of the operation still writes.
NoMixedServing ==
    running => /\ \/ \A v \in Vol : live[v] = Newest(v)
                  \/ \A v \in Vol : live[v] = "staged"
               /\ \A h \in helpers : IsDigest(h)

\* A settled operation is what it says it is: all volumes restored, or all
\* rolled back with the staged data kept; the services run, no rollback
\* volume is left.
SettledIsTrue ==
    Settled =>
        /\ running
        /\ \A v \in Vol : rollback[v] = "absent"
        /\ jrn.status = Succeeded => \A v \in Vol : live[v] = "staged"
        /\ jrn.status = Recovered => staged /\ \A v \in Vol : live[v] = Newest(v)

\* The finalizer never sees two different results of one operation, and a
\* settled operation's persisted result is the finalized one and agrees with
\* the journal.
OneFinalizedResult ==
    /\ \A a, b \in finalized : a = b
    /\ Settled => result \in finalized /\ result.status = SettledOutcome

(* The driver implements SignedOperations for its one operation.           *)
Signed == INSTANCE SignedOperations WITH
    SignedOp <- {RestoreActivation},
    SignedKind <- [o \in {RestoreActivation} |-> RestoreActivation],
    head <- [o \in {RestoreActivation} |->
                [phase |-> jrn.phase, status |-> jrn.status, recorded |-> {},
                 closes |-> IF ClosePending THEN "owed" ELSE "none"]]

\* Over failed writes, automatic and explicit recovery, the driver signs only what
\* SignedOperations allows: the outcome its phase allows, once, and after it nothing
\* but the acknowledged close of a group it bound.
SignsAsAgreed == Signed!SignedSpec

\* Once begun, the operation is settled and its native closes acknowledged,
\* however often it is interrupted, as long as the interruptions end.
RecoverySettles == jrn.phase # "none" ~> Settled /\ ~ClosePending

\* Once begun, and once the power custody that an application or a group needs
\* is signed, every interruption is recovered from that leaves no manager
\* control unresolved, and the native closes are acknowledged.
CustodySettles ==
    jrn.phase # "none" /\ HasCustody ~>
        (Settled /\ ~ClosePending) \/ jrn.unresolved # "none"

\* A canceled activation rolls back by itself: with no further fault Activate
\* returns with its operation settled, unless the commit was already signed.
CanceledActivationRecovers ==
    pc = "idle" /\ jrn.phase \notin {"none", "commit-succeeded"} => Settled

=============================================================================
