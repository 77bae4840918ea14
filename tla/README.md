# Verification of the StackKits lifecycle core

StackKits installs and maintains self-hosted stacks on a host. Most of the
repository computes plans and renders artifacts. What can lose an owner's data
or wedge a host is smaller: the code that *changes a running installation* and
must come back from an interruption at any point. This project models that
core in TLA+, checks it with TLC and proves its central safety properties with
TLAPS.

- [Inventory](#inventory): the parts, their state, how they interact
- [Modules](#modules-and-the-code): which definition stands for which code
- [Runs](#runs): what TLC checks, the bounds, the fairness
- [Proofs](#proofs)
- [Where the code and its documentation disagree](#where-the-code-and-its-documentation-disagree)
- [Not modelled](#not-modelled), [Plan](#plan)

`PROJECT.json` holds the machine-readable side: components, runs, mutants, the
map from definitions to source lines, findings, hazards and theorems.

## Inventory

### The lifecycle core

**Mutation journal** (`internal/lifecyclemutation`). The authority under which
an upgrade or a restore activation may change a workspace.
*State*: one directory of immutable, owner-signed records per operation (each
names its predecessor's digest), the active pointer `active.json` (a copy of
one record), one-use claim files of joined children; two kinds of kernel locks,
the journal lock and one claim lock per operation.
*Operations*: begin an upgrade or a restore; transition to a phase; begin a
join, that is, let a child process of a given release run `generate`, `apply`
or `verify`; record power controls and application groups; complete; open an
explicit recovery; reconcile after a failed write; acknowledge the native close
of an application group; run an ordinary mutation if nothing is unsettled.
*Hard*: a crash or a failed sync between record and pointer; a session whose
record lags the installed history; a child that outlives its parent; reads
without a lock; older releases that do not keep their claim lock.
*Correct when*: every history is one chain; at most one operation is unsettled;
ordinary mutations are fenced whatever the pointer says; a child acts alone and
under the newest phase; recovery is never locked out; a settled outcome is
final.

**Upgrade transaction** (`cmd/stackkit/commands/upgrade_transaction.go`,
`upgrade_recover.go`, `upgrade_forward.go`). Drives the target release through
generate, apply, verify and commit; rolls back to the prior release before
target Apply; completes forward, with the same or a newer target, after it.
*State*: the journal session, the success proof, the live data and which
release serves it. *Hard*: children that fail after doing their work, orphaned
children, a session that is stale after a failed write and is not reconciled,
proof and commit record being two writes, a retarget that returns to an early
phase. *Correct when*: the prior runtime never opens data the target may have
changed; the terminal record names the release that serves and was verified;
every interrupted upgrade can be settled.

**Restore activation** (`internal/restoreactivation`). Replaces the live
volumes by staged backup data: quiesce, save a rollback copy of each volume,
copy and read back each staged volume, start, verify, commit; or roll back.
*State*: the signed record (phase, prepared and activated prefixes of the
volume list, the volume in flight, power custody), the volumes, the helper
containers, the persisted result. *Hard*: helper containers outlive a killed
CLI; rollback may begin or resume at any phase; results, cleanup, finalizer and
terminal record are separate steps. *Correct when*: own data always survives in
one of two places until the commit; services never run on mixed or half-copied
volumes; the settled outcome is true, final evidence is unique; repeated
recovery ends.

**Runtime controls** (`internal/backuplifecycle/runtime_control.go`, used by
`application_runtime.go` and `marketplace_service_runtime.go`). Stops and
starts writers through a manager that may act late. *State*: per component four
effects (stop, start, rollback-stop, rollback-start), each journaled as
preparing, prepared, dispatched, observed; at the manager, accepted commands
and receipts. *Hard*: lost responses, late execution, partial stops, two tables
(phases and effects) that must agree. *Correct when*: no command is sent twice
or out of turn, no writer runs during a copy, initial power is restored.

**Application groups** (`internal/backuplifecycle/app_group_control.go`,
`internal/localbackupruntime/app_group_control.go`, the Runtipi drivers). A
group of containers that only its own manager may stop and start. *State*: per
group a growing list of effects, each preparing, prepared, dispatched, adopted
or negatively adopted, observed or failed; at the manager a hold, the exec that
submits a command and the manager's row for it. *Hard*: a lost submission, a
command claimed while it is being cancelled, a failed child that leaves part of
the group behind, the owner acting before the hold, a limit on the effects.
*Correct when*: at most one native command can act and the journal waits for
it; a settled list tells the truth of the group; a retried operation returns
the group to its power.

**Snapshots** (`internal/localbackupruntime/runtime.go`, `service.go` of
`internal/backuplifecycle`). Stop the writers in graph order, let Kopia
capture, start them in reverse; for a migration, hold the source stopped until
the destination reports its outcome. *State*: the operation file (phase,
containers, hold, outcome, retirement), the containers, the Kopia helper, the
receiving node. *Hard*: a helper or a docker stop outlives its caller; the
cleanup is deferred and acts on the process's own copy of the journal; the hold
is one write that may fail after it was installed. *Correct when*: nothing runs
while Kopia captures; graph order always holds; stopped writers come back; an
application never runs on both nodes.

**Product Apply** (`internal/runtimeexecutordispatch`,
`architecturev2/product_apply_file_journal.go`, `contracts/runtimeapply`,
`architecturev2/authorization.go`, `apply_authorization.go`). A resolution is
authorized once, and its children are executed in order over a durable journal.
*State*: the generation slot with its read lock and the authorizations derived
from it; the operation record with its fence token and steps; what each
dispatcher remembers. *Hard*: a second caller takes the fence over while the
first executes, executors outlive dispatchers, installed but unconfirmed
commits, copied authorizations, a resolution superseded while it is in use.
*Correct when*: executions never overlap or repeat a success; the answer is
true; the platform comes before what deploys through it; only the newest
resolution is worked under; applying again completes the operation.

**Host maintenance** (`internal/hostmaintenance`). Installs a planned package
set in a transient unit and reboots the node through a guard. *State*: the
maintenance lock, the package locks, the update units, the reboot timers and
guards. *Hard*: a unit outlives the command that waits for it, a command may be
killed while its request is on its way to systemd, the guard checks and locks
in separate steps, other package runs come and go. *Correct when*: a reboot
interrupts no package run and no update, and updates do not overlap.

### Interactions

The upgrade command and the restore service both hold a journal *session*; the
journal calls back nothing. A joined child is a separate process that finds its
admission in the journal and inherits no lock. The restore service calls its
runtime (Docker, application, Store or group), which calls back into the
session to record controls. Docker's daemon, the manager and the services run
on their own. The snapshot runtime drives the same controls outside a lifecycle
operation, under its own signed operation file. Apply is the work an upgrade's
joined child does; it meets the journal only as that child. An ordinary
mutation (every other changing command) meets the core only through the journal
lock and `recordBlocksMutation`.

### Around the core

Checkpoints and shadow inspection (`upgradelifecycle`), the file-system
primitives (`confinedfs`), the apply ledger, application lifecycle leases,
advanced rollback and change sets, backup schedule,
custody, restore staging and retention, fleet and federation control, identity,
plan resolution and rendering, the executors and the CLI/API/MCP surfaces.
`PROJECT.json` lists each with the reason it is not modelled yet or at all.

## Modules and the code

| Module | Models | State |
| --- | --- | --- |
| `LifecyclePhases` | the phase graph of `journal.go` (`allowedTransition`, `joinPhase`, `ForwardRecoveryPhase`, ...) | none, pure |
| `MutationJournal` | `internal/lifecyclemutation` | history, pointer, locks, claims; per process mode, record, draft, child |
| `LifecycleAuthority` | abstract: what the journal promises | owner, outcome, mutators |
| `SignedOperations` | abstract: what the journal and its drivers agree on | newest signed record of each operation |
| `UpgradeTransaction` | the upgrade command and its recoveries | newest phase, session phase, driver position, child, proof, effects on live data |
| `RestoreActivation` | the restore service and its Docker runtime | newest record, volumes, helpers, driver position, results |
| `RuntimeControl` | power commands of applications and Store services | effects, manager queue and receipts, power |
| `AppGroupControl` | a snapshot of a native application group | operation file, process, manager, Kopia helper |
| `SnapshotQuiescence` | a snapshot of containers, and the transfer hold | operation file, process, containers, Kopia helper, destination |
| `ApplyOperation` | the Apply dispatcher over its file journal | record, dispatchers, executors at work |
| `ApplyAuthorization` | the generation coordinator | slot, read lock, authorizations |
| `HostMaintenance` | package updates and guarded reboots of a node | commands, two locks, units, guards |
| `*Proofs` | theorems about the module of that name; `JournalAuthorityProofs` continues `MutationJournalProofs`, `ApplyProofs` has the two Apply modules, `BackupProofs` the two snapshot protocols | |
| `MC*` | TLC instances | |

`MCApply` and `MCBackup` hold three and two protocols that share no state, side
by side: a behaviour is a behaviour of one of them (`part`, `host`).
`MutationJournal`, `UpgradeTransaction` and `RestoreActivation` extend
`LifecyclePhases`. The drivers of the lifecycle operations use the journal at
the granularity `MutationJournal` justifies: writes by one lock holder, linear
history, one unsettled operation. So a driver module keeps the newest record
instead of histories and pointers. `SignedOperations` is where the two sides
meet: it says how the newest record of an operation may change (phase, status,
the phases an upgrade has recorded, a close still owed), `MutationJournal`
implements it whatever its callers ask for, and each driver module implements it
whatever fails (`SignsAsAgreed` in all three). That both sides implement it means
that they agree on the phase graph, on what a recovery may sign and on when an
outcome is final; it does not say that a write of a driver succeeds, and the
driver modules let every write fail.

**`MutationJournal`.** A *record* is `[op, seq, phase, status, pending, id,
prev]`: `id` stands for the digest, `pending` for the number of native closes
still owed. `persistRecord` is split where a crash or an error can fall:
directory (`StartPersist`), immutable record (`HistoryInstalled`,
`HistoryInstalledUnconfirmed`, `HistoryFails`), pointer and re-read
(`PointerInstalled`, `PointerInstalledUnconfirmed`, `PointerFails`).
`LoadOK` and `RecoverOK` say when `loadRecord` and `recoverLatestRecord`
succeed. Signatures are taken to be unforgeable; the fields of a record that no
decision reads are left out. A stop of a process and a crash are one action,
`Stop`: the kernel releases the locks either way, and the deferred `Close` does
nothing more. `Authority` maps this state to `LifecycleAuthority`: an operation
is open while the newest record of its history blocks, wherever the pointer is;
its outcome is the status of the first settled record; a process inside an
ordinary mutation is a mutator. `ImplementsAuthority` is the refinement. `Signed`
maps it to `SignedOperations`: the newest record of each history, wherever the
pointer is.

**`UpgradeTransaction`.** `phase` is the newest signed phase and `mine` the
session's; `stale` says that the session or the pointer lags, in which case
every transition is refused (`transitionWithUpgradeData` compares the digest).
`Sign` has the four outcomes of a journal write. `touched` and `opened` are the
effects that matter: target Apply may have changed live data, the prior runtime
was started again. `target`, chosen at the start, says whether the upgrade is
to another release, which its begin installs in the workspace release cache, or
to the prior one again, as drift reconciliation begins it:
`requirePreparedTargetNeverApplied` refuses to release the former from
`prepared` on every try. Plans, receipts, executable hashes and owner bindings
are checks that may fail (`TargetCheckFails`, `RollbackCheckFails`).

**`RestoreActivation`.** Volumes are `1..N` in authority order; the contents
are `original`, `newer` (written by the services since), `staged`, `partial`
and `absent`. The driver's position is `pc`, and `done` holds the runtime calls
finished in the phase. `PhaseProgress` and `ExactProgress` are the two
validators of the journal, so a driver step they would refuse is not enabled
and shows up as a deadlock. Copies and digests are *helpers* that the daemon
ends at any time, also when their CLI was killed. `jrn.power`, one of `Powers`
chosen at the start, is the runtime: `compose` stops services directly;
`application` and `group` need power custody captured while quiescing, and
their manager may carry an interrupted command out late (`ManagerActsLate`).

**`RuntimeControl`.** Opens the step that `RestoreActivation` treats as one
call. Each journaled state change, the dispatch, the manager's execution and
the observation are separate actions. `receipts` distinguishes drivers whose
manager retains a terminal receipt from synchronous ones whose receipt lives
in the process. The container identity never changes in the model; the code's
checks of it only add refusals. `writer`, one of `Writers`, is an application
or a Store service, which settle differently.

**`AppGroupControl`.** Opens the group's control further: intent, exec,
submission, claim, action and result are separate steps of the process and of
the manager. `native.outer` is the exec that submits, `native.row` the
manager's own record of the command, `native.group` what really runs.
`ValidAppGroupTransition` and `Accepted` are the validators of the signed
journal. The stop and start of the containers outside the group are one step
each here. Everything the Runtipi manager does is external and taken from what
the driver expects of it; `Touch` is the owner using it before the hold.

**`SnapshotQuiescence`.** `run` is the process with the local variables its
deferred cleanup reads (`resume`, `settled`, `attempted`, the error) and its
own copy of the journal, `op` the installed file. Every persist has three
outcomes; `Unconfirmed` says for which records the third one (installed, but
reported as failed) is explored. `stopping` holds docker stops that have lost
their caller; a docker start is synchronous. Custody, readiness and authority
checks are one failing step (`Enter`). `unrecorded` is a history variable that
no action reads: a stop was given up while the file does not say `prepared`
(see the snapshot properties). `op.mode` also says whether the journal has an
application graph: one of a core alone (`core`) restarts its containers in the
order in which it stopped them. A receipt is signed without the operation's
lease, so also while a process executes the operation.

**`ApplyOperation`.** A journal call is one step because the file journal holds
a lock per operation. The random fence token is modelled by the caller that
knows it. `Child`, `Rank`, `Critical` and `Platform` are the outcome of
partitioning a request. `run[p].seen` is the snapshot the dispatcher compares
and sets with; `work` are executors, which survive their dispatcher; `last` is
a history variable, how each child's last execution ended.

**`ApplyAuthorization`.** One slot of the coordinator. Calls may come in any
order for any epoch, because authorizations are values a caller may copy; a
write-locked section is one step and waits for the readers.

**`HostMaintenance`.** Each probe and each lock is a step of its own. `packages`
stands for the files apt and dpkg lock. `launching` is a `systemd-run` whose
request systemd has not served; `late` are the units and timers it serves after
their command was killed, which no check can have listed. The plan itself
(simulation, digest, pinned versions, marks) is a refusal or a success. The
guard is taken to live until the shutdown it requested, which its ten-minute
hold is for: the release after that hold (`reboot.go:368-369`), and the release
when `systemctl reboot` reports an error although systemd accepted the request
(`reboot.go:361-364`), are left out.

## Runs

| Run | Instance | Result |
| --- | --- | --- |
| `journal_upgrade` | 3 processes, 2 upgrades, histories up to 6 records, an older prior release | passes, about 192,000 states |
| `journal_restore` | 2 processes, 1 restore with one group, histories up to 11 records | passes, about 252,000 states |
| `upgrade` | both kinds of target, 5 faults | passes, about 6,000 states |
| `upgrade_proof`, `upgrade_settles` | 1 and 2 faults | violated, see findings |
| `restore` | 3 volumes, each of the three runtimes, 4 faults of all kinds | passes, about 140,000 states |
| `restore_cancel`, `restore_capture` | 1 volume, one cancel; one crash | violated, see findings |
| `control` | 3 components, both writers, both kinds of receipts, 4 faults | passes, about 44,000 states |
| `apply` | 2 callers, 3 children (platform, workload on it, core), 4 disturbances; 3 resolutions, 2 leases; 2 operators, 2 updates, 2 reboots | passes, about 209,000 states |
| `backup` | 2 containers with and without a graph, 5 faults; 1 group, 4 effects, 4 mishaps | passes, about 64,000 states |
| `transfer_hold` | the same, with an unconfirmed hold record | violated, see findings |

**Journal properties.** `LinearHistory`, `OneUnsettledOperation`,
`JoinedChildExclusive` and `RecoveryReaches` state four of the promises above
as invariants; `ImplementsAuthority` states them together, as a refinement of a
module without files, pointers, locks or crashes, in which an ordinary mutation
runs only while no operation owns the workspace; `SettledIsFinal` is an action
property: history only grows, and after a settled record only acknowledgements
of closes follow. `RecoveryReaches` is conditional on `HistoriesReadable`: the code has
no way out of an operation directory without a record (a crash right after
`MkdirAll`) nor of a history that outgrew its limit, which is checked when a
history is read and not before a record is written. Both states are reachable
in the model, and `UnreadableFailsClosed` is about them: from there on nothing
starts and nothing is signed. `SignsAsAgreed` is the second refinement: no
session behind a stale pointer or an unconfirmed record takes an operation off
its phase graph.

**Upgrade properties.** `PriorNeverOpensChangedData` is what
`RequirePreApplyUpgradeRollback` exists for. `SettledNamesRelease` relates the
terminal record to what was applied and verified last. `SignsAsAgreed` has the
driver sign only what `SignedOperations` allows, through every recovery: prior Generate
starts again only on a history without target Apply, and target Apply or another
target only on one with it. Under fairness,
`SettlesUnlessRefused` says that recovery settles every upgrade but those in
the two places where the code refuses (`RecoveryRefused`): the prior release's
Apply and what follows it, and `prepared` for an upgrade to another release.
`RefusedStaysActive` is the converse: once no process drives an upgrade there,
it never gets an outcome, so the exception is exactly what finding 2 is about.

**Restore properties.** `JournalCoversChanges`, `OriginalDataKept` and
`NoMixedServing` are the data-safety properties; `SettledIsTrue` and
`OneFinalizedResult` relate the outcome to the world and to the evidence handed
out; `SignsAsAgreed` has the driver follow the phase graph, bind its group once,
decide the outcome once, in the phase that allows it, and then only acknowledge
the close; `CustodySettles` is the liveness property: once a runtime that needs power
custody has it, recovery settles the operation and its native closes, unless a
manager control stays unresolved. For a Compose runtime, which needs no
custody, that is every operation. The deadlock check is on in these runs: a
step refused by a validator would stop the driver.

**Control properties.** `QuietWhileCopying`, `SentOnceInTurn`,
`InitialPowerRestored`, and under fairness `ControlsSettle`: recovery ends with
the services started, unless an interruption left a control the code itself
declares unresolved. Those are: a control without a handle (`preparing`); one
`prepared` and, for an application, never resumed, because `settleControls`
refuses it before `AdvanceRuntimeControl` could; one dispatched whose receipt
was lost.

**Apply properties.** `ExecutionFenced`, `AnswerIsTrue` and `PlatformFirst`
hold over takeovers, lost and unconfirmed commits and executors that outlive
their dispatcher; `CurrentResolutionOnly` over any order of calls on copied
authorizations. Under fairness `OperationSettles` says that applying again
completes the operation, unless it is `Abandoned`: a step marked running by a
dispatcher that is gone makes `Begin` refuse for good ("durable
abandoned-operation reconciliation is required", which nothing of this commit
performs). `RebootInterruptsNothing` says that a requested reboot meets no
package run and no update unit, and that updates do not overlap, for every unit
and timer that systemd started while its command lived. A late one is not
excluded by any check: an update launched by a killed `apply` can start after
the guard looked, and be rebooted while it restores its marks; dpkg itself
stays excluded by the package locks.

**Snapshot properties.** `CaptureQuiesced` says that no writer runs while Kopia
captures, for containers and for a group. `PowerFollowsGraph` and
`RestoredWhenRunning` relate the operation file to the containers,
`CommandFenced` and `RecordMatchesNative` the group's effects to its manager.
Under fairness `WritersReturn` and `GroupReturns` say that stopped writers come
back. `OneLiveCopy` says that a migrated application never runs on both nodes;
this run has every hold write confirmed or refused, `transfer_hold` has not.
`GroupReturns` excepts `Wedged`, where the code fails closed on every
retry: a dispatched command that never reached the manager; a `rollback-start`
that failed without actuation, which `AdvanceAppGroup` returns as failed
although `groupActionAllowed` would admit another; the limit of effects; and an
owner's restart between capture and hold.

`PowerFollowsGraph` and `RestoredWhenRunning` except the time after an
`unrecorded` stop. A retry over a `stopped` or `restored` record assigns
`prepared` in memory first (`runtime.go:448`). When that write is refused, the
cleanup of the same process still settles the stop as if it were recorded, and
may give up on a docker stop that lands later; the file keeps its old phase, so
the cleanup of the next retry skips `settleQuiescenceStop`
(`runtime.go:740`). Without the exception TLC violates the first property with
four faults, the second with five, and the search for an inductive invariant
fails at the same place. No document promises otherwise, so it is not listed as
a finding; `CaptureQuiesced` and `WritersReturn` hold without any exception.

**Why the bounds suffice.** Three processes are a parent, its joined child and
a competitor; two operations are needed for an orphan head next to a pointer of
another operation. Six records reach every join of the forward path and a first
rollback, eleven a settled restore with its closes (the shortest way there is a
rollback of an activation that changed nothing, with its group bound). Three
volumes have a first, a middle and a last one, which is all the prefix logic
distinguishes; likewise three components. Fault bounds are reached by several
failed recoveries in a row: four faults interrupt the activation, the automatic
recovery and two explicit ones. Two callers are an owner of the fence and the
one that takes it over; three children have a platform, a child bound to it
that sorts before it, and a critical one after both; three resolutions are the
used one, the one that supersedes it and the next. Two containers have an order
to violate, and five faults reach an unrecorded stop and what two retries make
of it. Four effects hold a stop, its retry and two rollbacks, and reach the
limit. Where a theorem states the property the bounds matter only to the
liveness properties. `Symmetry` permutes processes, which are
interchangeable; no liveness property is checked in those runs.

**Fairness.** Weak fairness of the driver's own steps: a running process goes
on. Weak fairness of a helper's and a child's end: Docker ends a container
whose command ends; a copy, a digest and a release command are finite. Weak
fairness of explicit recovery: the owner, told the operation ID by every
refused command, repeats it. In `UpgradeTransaction` strong fairness of
`RecoverForward`: the owner eventually adds `--forward` as the refusal of the
plain recovery asks. In `ApplyOperation` one caller applies again, as a
`Retryable` failure asks; other callers and takeovers have no fairness. A
pending snapshot is retried, by the timer or by its owner, and a transfer whose
destination stopped is resumed by its owner. The manager executes what it
accepted. Faults have no fairness and are bounded, so the liveness properties
say: once interruptions stop, the operation is settled.

**Mutants.** For every property of a passing run there is a mutant of the
code's definition (a dropped check, a stale read, a repeated request, a lenient
cleanup) under which TLC finds the property violated. Their definitions stand
next to the definitions they replace and are used by nothing else.

## Proofs

TLAPS checks every theorem from nothing, for every value of the constants. The
assumptions are the modules' `ASSUME`s. Most only give the constants' types;
the others are: names do not collide (`Nobody \notin Caller`,
`"execution" \notin Lease`, operators, updates and guards disjoint); children
are numbered from 1 and a platform sorts into the first rank, as the partition
of a request does it; the stop order of finitely many containers is total; a
group may have at least one effect. The fault bounds (`MaxFaults`, `MaxMishaps`,
`MaxDisturbances`) are arbitrary naturals, so the results hold for any number
of failures.

Every invariant of a passing run has a theorem, and so have the action
properties and the refinements. None of the properties is inductive as it
stands; each section names what is added and why. Only the `backup` run checks
its type invariant too, which bounds the effects of a group; the others leave
theirs to the theorems.

**`MutationJournalProofs`** (`JournalInvariant`, `TypeCorrect`,
`HistoryStaysLinear`, `AtMostOneUnsettled`), for any processes, operations,
history limit and group count. A draft could fork the chain if it did not
extend the newest record. `JournalInv` adds that the holder of the journal lock
is the only session (`LockHeld`, `SessionShape`), that a draft being written
follows the newest record of its operation or starts a new operation while
nothing else is unsettled (`DraftExtends`, `DraftInstalled`,
`NothingUnsettled`), and that every non-empty history has a newest record
(`HistoryShape`). The link to the code is `LoadedPointer` and `LoadedIdle`:
what a successful `loadRecord` proves about the whole history. `InstallDraft`
is the one place where the history changes.

**`JournalAuthorityProofs`** (`AuthorityInvariant`, `OutcomeIsFinal`,
`UnreadableIsClosed`, `NeverWedged`, `ChildInvariant`, `ChildrenExclusive`,
`JournalImplementsAuthority`, `JournalSignsAsAgreed`) rests on `JournalInv`. `AuthorityInv` adds that
records after a settled one only acknowledge it (`RecordsFinal`), that a draft
may be signed after the record it follows (`DraftLegal`), that the pointer is a
copy of an installed record and is moved once per draft
(`PointerInstalledOnce`, `PreparedOnReadable`), and that who writes owns the
operation (`WrittenOwns`). `ChildInv` adds that a session owns the unsettled
operation, that children's admissions agree with its newest record and that a
claim is held by the process it names (`SessionOwns`, `ChildrenBehind`,
`ClaimCustody`). In the refinement the installation of a first record is
`Open`, that of the first settled one `Decide`, that of the last acknowledgement
`Release`; an ordinary mutation begins and ends (also by a crash) as `Mutate`
and `MutationEnds`; everything else, pointer writes and repairs included, is a
stutter. `SignedOperations` sees only installed records, so its refinement needs
`DraftAgreed`: a draft that is still to be installed follows the record its
session holds as the abstract specification asks, with respect to the phases the
history holds at that time. That record is the newest one by `DraftExtends`,
and the installation is the abstract step (`InstallIsSigned`); a session's
operations draft agreed records only (`SessionAgrees`).

**`UpgradeTransactionProofs`** (`PriorDataSafe`, `ReleaseInvariant`,
`UpgradeTypeCorrect`, `TerminalNamesRelease`, `UpgradeSignsAsAgreed`,
`RefusalIsFinal`). `DataInv` says that effects need their phase on record (`EffectsRecorded`), that a session which is not stale
stands at the newest phase (`SessionCurrent`), and that no history holds both
Apply admissions (`AppliesExclusive`): a driver in its rollback has proved
target Apply absent, and a history that admitted prior Apply never leaves the
rollback. `ReleaseInv` adds what each recorded phase proves of the release that
serves (`PhaseProves`), that a driver waits for the child of its own phase
(`WaitsForChild`) and which phases end an upgrade (`TerminalPhase`). For the
refinement `RecoveryAdmitted` adds what a recovery has proved of the history when
it is about to sign: target Apply is absent before a rollback starts, and forward
recovery is admitted before it joins again. `RefusalIsFinal` is a safety
argument from `Refused`, which no step leaves: nobody drives the upgrade, or a
recovery is about to refuse it.

**`RuntimeControlProofs`** (`ControlInvariant`, `ControlTypeCorrect`,
`CopiesMeetNoWriter`, `CommandsInTurn`, `PowerComesBack`), for any number of
components, both writers and both kinds of receipts. `ControlInv` says,
component by component, that effects advance one after the other (`InTurn`),
that power is what the observed effects leave unless a dispatched command
decides it (`PowerKnown`), that the manager holds only dispatched commands,
each sent once (`CommandsFollow`), where the process stands (`ProcessAt`) and
which controls a phase requires (`PhaseKeepsControls`). `EffectAdvances` is the
central lemma: one effect's step keeps the component's part.

**`RestoreActivationProofs`** (`RestoreInvariant`, `RestoreTypeCorrect`,
`JournalKnowsChanges`, `OwnDataKept`, `ServicesNeverMixed`,
`SettledRecordTrue`, `ResultFinalizedOnce`, `RestoreSignsAsAgreed`), for any
number of volumes and the three runtimes. The invariant separates what survives the driver from what does
not. `VolumesInv` is what the signed record alone proves: which volumes are
copied, changed and restored (`Progress`), which helpers may still run
(`HelpersKnown`), where each volume's own data is (`VolumesKept`) and which
services may run (`PowerKnown`). It is a predicate on a record, because a write
that reports failure may have installed the next one and both have to be true.
`CallsInv` is what the driver's position adds (`DriverAt`, `WaitsFor`,
`DoneMeans`), `ResultInv` and `CleanInv` what the result and the cleanup left.
The refinement of `SignedOperations` needs of it only the phase the driver stands
at, and that nothing is bound before the first record (`UnboundFirst`).

**`BackupProofs`** (`BackupInvariant`, `BackupTypeCorrect`, `WritersQuiesced`,
`PowerInGraphOrder`, `RestoredMeansRunning`, `CommandsFenced`,
`RecordTrueOfGroup`, `MigrationHoldsSource`), for any containers and stop order,
any limit of effects and any set of unconfirmed writes. For containers, `WorldInv` is what the
operation file knows of containers and helper (`RecordShape`, `HelperAlone`,
`StopsKnown`), and `RunInv` where the process stands: its copy of the journal
against the file (`ProcessFollows`), what is settled and stopped by then
(`PhaseByNow`, `HelperSettled`, `StoppedByNow`), and that starts meet no stop
(`StartsAlone`). For a group, `HostInv` rests on `EffectsSay`, what a list of
effects proves of the group's power: the latest effect decides once the manager
has acted on it, until then the effects before it do. `WorkerInv` relates the
process to its file, which is at most one write ahead (`JournalSame`, `Ahead`).
Its lemmas carry the argument: an effect steps only on its evidence
(`StepSays`), and a process one write behind never takes a recorded effect back
(`NoOverwrite`, `PhaseOnly`). `MigrationHoldsSource` alone has a proviso,
`HoldsConfirmed`: finding 5 is what it excludes. `TransferInv` says that a
receipt's hold stays on record until the destination has stopped
(`ReceiptHeld`), that an outcome `stopped` comes from the destination only
(`OutcomeKnown`), and that until then nobody works on a held source and nothing
of it runs (`HeldAlone`).

**`ApplyProofs`** (`AuthorizationInvariant`, `AuthorizationTypeCorrect`,
`NewestResolutionOnly`, `OperationInvariant`, `OperationTypeCorrect`,
`ExecutionsFenced`, `PlatformComesFirst`, `AnswersTrue`), for any resolutions,
leases, callers and children. `AuthorizationInv`: work holds the read lock
under the newest resolution, and a resolution is evaluated once. `OperationInv`
ties a dispatcher's snapshot to the record while its fence token stands
(`FenceSees`), an executor to the step marked running (`WorkFenced`,
`BusyAlone`), and the recorded steps to how the last executions ended
(`SuccessIsTrue`, `PlatformTaken`, `StatesTrue`). That there is a first child
to dispatch uses the well-foundedness of the naturals. `ApplyInvariant` and
`ApplyTypeCorrect` are about the three protocols of `MCApply` together; the
other theorems here and those of `HostMaintenanceProofs` are about a component's
own specification.

**`HostMaintenanceProofs`** (`MaintenanceInvariant`, `MaintenanceTypeCorrect`,
`RebootIsSafe`), for any operators, updates and guards. Neither lock is enough
alone, since a unit outlives the command that holds the maintenance lock.
`MaintenanceInv` adds what a command has seen by each of its steps
(`CommandSees`), that a guard keeps updates out from its timer on
(`GuardKeepsUpdatesOut`) and that at most one listed update runs (`OneListed`).
Late units are outside of these parts, as they are outside of the property.

**Only model-checked.** All liveness properties (`SettlesUnlessRefused`,
`CustodySettles`, `ControlsSettle`, `OperationSettles`, `WritersReturn`,
`GroupReturns`): fairness is out of the prover's reach.

What the proofs changed in the models: the exception for an unrecorded stop
(above); `AppGroupControl.Advance`, whose cases overlapped for an effect that
is both observed and not allowed again and are now tried in the code's order;
and the assumptions on constants that were implicit in the instances.

## Where the code and its documentation disagree

Each is a run that TLC reports as violated.

1. **A succeeded upgrade may have lost its proof** (`upgrade_proof`). The
   commit record is installed but its confirmation fails; the session still
   stands at `commit-started`, so the automatic rollback removes the success
   proof before it is refused; explicit recovery loads the installed record and
   completes. `docs/CLI.md:948` promises the proof is retained.
2. **An interrupted upgrade may never be settled** (`upgrade_settles`), in two
   places; the fence's own hint (`journal.go:588`) names `upgrade --recover` as
   the way to settle every one. At `prepared`, `releasePreparedPublicUpgrade`
   refuses while the target release is in the workspace release cache
   (`upgrade_recover.go:352-363`); `runPublicUpgrade` installs it there
   (`release_commands.go:347`) before `prepared` is signed, nothing removes it,
   and `prepared` is no phase for `--forward`. `CHANGELOG.md:534` says an upgrade
   stopped at `prepared` is released by explicit recovery; only one to the prior
   release again is. And from `rollback-apply-started` on, every form of
   recovery refuses the phase as ambiguous. TLC prints the first; with
   `target = "prior"` alone it prints the second.
3. **A canceled digest blocks the automatic rollback** (`restore_cancel`). The
   digest helper left behind carries the operation's label but not an expected
   name, and `settleCopyHelpers` refuses it. The comment on
   `recoverAfterFailure` says cancellation must not prevent restoring. An
   explicit recovery after the helper ended succeeds.
4. **A managed restore interrupted before its power is captured is never
   settled** (`restore_capture`). Nothing was stopped yet, but the rollback's
   `Stop` needs power custody that only `quiesce-started` may record.
   `docs/CLI.md:966` says recovery rolls back before the commit.
5. **A migrated application may run on both nodes** (`transfer_hold`). The
   hold record is installed but its write reports an error; the process forgets
   the hold and starts its writers; until the `restored` record, and for good
   after a crash or a failed start before it, the hold is recorded. Repeating
   the export trusts the record (`backup_transfer.go:675`), which it reads
   without the lease, and signs the receipt, and the destination activates.
   `CHANGELOG.md:73` says a migration holds the source stopped. With
   every hold write confirmed or refused there is no such behaviour
   (`MigrationHoldsSource`).

## Not modelled

- The content of plans, releases, receipts and signatures: data on which the
  modelled control flow only succeeds or fails.
- The volume progress of an upgrade's data activation: its phases are in the
  graph, no command drives them at this commit.
- The S3 custody move that an Advanced change set leaves for upgrade recovery
  to settle.
- `AppGroupControl` under a restore: the module has the effects as a snapshot
  drives them, `RestoreActivation` has their outcome (custody, an unresolved
  command, native closes).
- The container stops of a snapshot that go through runtime controls
  (`ControlVersion` 1): the protocol is `RuntimeControl`'s.
- The recovery capsule an Apply saves beside its journal, and the evidence and
  trust checks behind an authorization.
- `confinedfs`: it has primitives (lock, atomic write, read-back) and no
  protocol; every journal module has their three outcomes.
- Windows variants of the claimant check: they refuse what Linux decides.
- Everything under "Around the core".

## Plan

Done: the modules and runs above; the refinements of `LifecycleAuthority` and,
by the journal and both drivers, of `SignedOperations`; a theorem for every
safety property of a passing run.

Next theorems: those of the modules below.

Next modules, in this order: `ApplicationLease`, `AdvancedRollback` over the
mutation journal, `BackupSchedule`, `FleetLifecycle`; and the composition of
`AppGroupControl` with the group power of `RestoreActivation`.
