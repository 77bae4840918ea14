--------------------------- MODULE AppGroupControl ---------------------------
(* The snapshot of a host whose application runs as a native Runtipi group.   *)
(* The group is stopped and started by commands of its own manager: each      *)
(* command is an effect of the signed operation journal, its outcome is the   *)
(* manager's terminal result or a negative proof, and its graph is adopted    *)
(* before the next command may be issued.                                     *)
(*   record : the operation file: state, closure, and the signed quiescence   *)
(*   worker : the process that executes the operation, if one does            *)
(*   native : the group, the hold of its manager, and the manager's command   *)
(*            (outer: the exec that submits it, row: the manager's own record) *)
(*   helper, saved : the Kopia helper container and its repository            *)
EXTENDS Integers, Sequences

CONSTANTS EffectLimit,     \* the most effects a group may have (16)
          MaxMishaps       \* bound on failing calls, lost writes and crashes

ASSUME GroupAssumption == EffectLimit \in Nat \ {0} /\ MaxMishaps \in Nat

VARIABLES record, worker, native, helper, saved, mishaps

groupVars == <<record, worker, native, helper, saved, mishaps>>
groupHost == <<native, helper, saved>>

GroupAction == {"stop", "start", "rollback-stop", "rollback-start"}
EffectState == {"preparing", "prepared", "dispatched", "adopted",
                "negative-adopted", "observed", "failed"}

\* How a command ended: inert is a negative proof of no native actuation,
\* closed a failed child that left any part of the group behind.
Outcome == {"none", "positive", "inert", "closed"}
Effect == [action : GroupAction, state : EffectState, outcome : Outcome]

Intent(a) == [action |-> a, state |-> "preparing", outcome |-> "none"]

GroupStep == {"rest", "capture", "hold", "settle", "cancel", "decide", "find",
              "core-stop", "advance", "prepare", "prepared", "dispatched",
              "dispatch", "advanced", "stopped", "create", "created",
              "cleanup", "settle-helper", "resuming", "resume", "verify",
              "core-start", "restored", "complete", "fail", "close"}

\* The signed quiescence: initial is the power of the original group.
Quiescence == [phase : {"", "prepared", "stopped", "snapshot-created",
                        "resuming", "restored"},
               initial : BOOLEAN, effects : Seq(Effect)]

\* A process at rest.  armed: its deferred cleanup is registered and has not
\* begun; next and action: where SettleAppGroup returns to, and the action of
\* the AdvanceAppGroup under way.
Rest == [step |-> "rest",
         q |-> [phase |-> "", initial |-> FALSE, effects |-> <<>>],
         next |-> "decide", action |-> "stop", armed |-> FALSE,
         attempted |-> FALSE, settled |-> FALSE, failed |-> FALSE]

\* Type correctness, and a recorded group never has more effects than
\* groupActionAllowed admits, over every retry.
GroupTypeOK ==
    /\ record \in [state : {"absent", "pending", "completed", "failed"},
                   q : Quiescence, closed : BOOLEAN]
    /\ worker \in [step : GroupStep, q : Quiescence,
                   next : {"decide", "advanced", "resuming"},
                   action : GroupAction, armed : BOOLEAN, attempted : BOOLEAN,
                   settled : BOOLEAN, failed : BOOLEAN]
    /\ native \in [group : {"running", "partial", "down"}, hold : BOOLEAN,
                   touched : BOOLEAN,
                   outer : {"none", "dormant", "running", "ended"},
                   row : {"none", "accepted", "claimed", "acting", "ok",
                          "inert", "closed", "cancelled"}]
    /\ helper \in {"idle", "capturing"}
    /\ saved \in BOOLEAN
    /\ mishaps \in 0..MaxMishaps
    /\ Len(record.q.effects) <= EffectLimit

GroupInit ==
    /\ record = [state |-> "absent", q |-> Rest.q, closed |-> FALSE]
    /\ worker = Rest
    /\ native \in [group : {"running", "down"}, hold : {FALSE},
                   touched : {FALSE}, outer : {"none"}, row : {"none"}]
    /\ helper = "idle"
    /\ saved = FALSE
    /\ mishaps = 0

-----------------------------------------------------------------------------
(* What a sequence of effects says of the group *)

controlStarts(a) == a \in {"start", "rollback-start"}

EffectSettled(e) == e.state \in {"observed", "failed"}
Latest(s) == s[Len(s)]
Unsettled(s) == s # <<>> /\ ~EffectSettled(Latest(s))

\* The effects that count when every failure is skipped.
CountingAll(s) == {i \in DOMAIN s : s[i].state # "failed"}

\* The effects that count: a failed one without native actuation says nothing.
Counting(s) ==
    {i \in DOMAIN s : ~(s[i].state = "failed" /\ s[i].outcome = "inert")}

LatestCounting(s) == {s[i] : i \in {j \in Counting(s) : \A k \in Counting(s) : k <= j}}

AppGroupStopped(q) ==
    IF ~q.initial THEN q.effects = <<>>
    ELSE \E e \in LatestCounting(q.effects) :
            e.state = "observed" /\ ~controlStarts(e.action)

AppGroupRestored(q) ==
    IF ~q.initial THEN q.effects = <<>>
    ELSE \A e \in LatestCounting(q.effects) :
            e.state = "observed" /\ controlStarts(e.action)

\* The action that may follow the latest effect, and the order that knows no
\* second attempt at a stop.
FollowsOnce(q, a) ==
    LET e == Latest(q.effects)
    IN  \/ e.state = "failed" /\ a = "rollback-start" /\ AppGroupStopped(q)
        \/ e.state = "observed" /\ <<e.action, a>> \in
             {<<"stop", "start">>, <<"stop", "rollback-start">>,
              <<"start", "rollback-stop">>, <<"rollback-stop", "rollback-start">>}

Follows(q, a) ==
    LET e == Latest(q.effects)
    IN  \/ e.state = "failed" /\ a = "rollback-start" /\ AppGroupStopped(q)
        \/ e.state = "failed" /\ a = "rollback-stop"
        \/ e.state = "observed" /\ <<e.action, a>> \in
             {<<"stop", "start">>, <<"stop", "rollback-start">>,
              <<"start", "rollback-stop">>, <<"rollback-stop", "rollback-start">>}

\* An order without the limit.
ActionAllowedUnlimited(q, a) ==
    IF q.effects = <<>> THEN a = "stop" ELSE Follows(q, a)

groupActionAllowed(q, a) ==
    IF q.effects = <<>> THEN a = "stop"
    ELSE Len(q.effects) < EffectLimit /\ Follows(q, a)

EffectSteps ==
    {<<"preparing", "prepared">>, <<"prepared", "dispatched">>,
     <<"preparing", "negative-adopted">>, <<"prepared", "negative-adopted">>,
     <<"dispatched", "negative-adopted">>, <<"dispatched", "adopted">>,
     <<"adopted", "observed">>, <<"negative-adopted", "failed">>}

\* One durable phase per write: an appended intent, or one step of an effect.
ValidAppGroupTransition(s, t) ==
    \/ \E a \in GroupAction : t = Append(s, Intent(a))
    \/ /\ s # <<>> /\ Len(t) = Len(s)
       /\ SubSeq(t, 1, Len(t) - 1) = SubSeq(s, 1, Len(s) - 1)
       /\ Latest(t).action = Latest(s).action
       /\ <<Latest(s).state, Latest(t).state>> \in EffectSteps

\* persistSnapshotQuiescence accepts the journal of the process.
Accepted(q) ==
    /\ \/ record.q.phase = ""
       \/ q.effects = record.q.effects
       \/ ValidAppGroupTransition(record.q.effects, q.effects)
    /\ q.phase \in {"stopped", "snapshot-created"} => AppGroupStopped(q)
    /\ q.phase = "restored" => AppGroupRestored(q)

-----------------------------------------------------------------------------
(* The steps of the process *)

Doing(s) == worker.step = s
Mishap == mishaps < MaxMishaps /\ mishaps' = mishaps + 1
Unharmed == UNCHANGED mishaps

\* An error returns to the deferred cleanup when it is armed, and otherwise to
\* the service, which settles a failed snapshot.
Stumble ==
    worker' = [worker EXCEPT !.step = IF worker.armed THEN "cleanup" ELSE "fail",
                             !.failed = TRUE]

\* The journal of the process changes to q when the write is confirmed; the
\* write may also be refused, fail, or fail after it was installed.
Write(q, s) ==
    \/ Accepted(q) /\ record' = [record EXCEPT !.q = q]
       /\ worker' = [worker EXCEPT !.q = q, !.step = s] /\ Unharmed
    \/ Accepted(q) /\ record' \in {record, [record EXCEPT !.q = q]}
       /\ Stumble /\ Mishap
    \/ ~Accepted(q) /\ UNCHANGED record /\ Stumble /\ Unharmed

WritePhase(p, s) == Write([worker.q EXCEPT !.phase = p], s)
WriteLatest(state, outcome, s) ==
    Write([worker.q EXCEPT !.effects[Len(worker.q.effects)].state = state,
                           !.effects[Len(worker.q.effects)].outcome = outcome], s)

\* A call that changes nothing here: it returns, or fails.
Call(s) ==
    \/ worker' = [worker EXCEPT !.step = s] /\ Unharmed
    \/ Stumble /\ Mishap

-----------------------------------------------------------------------------
(* service.run, and the entry of createAppGroupSnapshot *)

GroupRun ==
    /\ worker = Rest /\ record.state \in {"absent", "pending"}
    /\ record' = [record EXCEPT !.state = "pending"]
    /\ worker' = [Rest EXCEPT !.q = record.q,
                    !.step = IF record.q.phase = "" THEN "capture" ELSE "hold"]
    /\ UNCHANGED <<groupHost, mishaps>>

\* A settled operation only completes its closure.
GroupReplay ==
    /\ worker = Rest /\ record.state \in {"completed", "failed"}
    /\ ~record.closed
    /\ worker' = [Rest EXCEPT !.q = record.q, !.step = "close"]
    /\ UNCHANGED <<record, groupHost, mishaps>>

\* Capture reads the exact running or stopped group and records it.
Capture ==
    /\ Doing("capture")
    /\ Write([phase |-> "prepared", initial |-> native.group = "running",
              effects |-> <<>>], "hold")
    /\ native' = [native EXCEPT !.touched = FALSE]
    /\ UNCHANGED <<helper, saved>>

\* Hold closes the manager to other operations, then looks whether a restart
\* came between the capture and the hold.
HoldGroup ==
    /\ Doing("hold")
    /\ native' \in {native, [native EXCEPT !.hold = TRUE]}
    /\ \/ /\ native'.hold /\ Unharmed
          /\ IF worker.q.effects = <<>> /\ native.touched THEN Stumble
             ELSE worker' = [worker EXCEPT !.step = "settle", !.next = "decide"]
       \/ Stumble /\ Mishap
    /\ UNCHANGED <<record, helper, saved>>

-----------------------------------------------------------------------------
(* SettleAppGroup: the outcome of the latest effect, by its own evidence *)

\* What the exact terminal result of an ended submission says.
Verdict ==
    CASE native.row = "ok" -> "positive"
      [] native.row \in {"inert", "cancelled"} -> "inert"
      [] native.row = "closed" -> "closed"
      [] OTHER -> "none"

\* Complete, Readback and ReadbackNegative of a dispatched effect.
SettleDispatched ==
    IF native.outer # "ended" THEN Stumble /\ Unharmed /\ UNCHANGED record
    ELSE CASE Verdict = "positive" -> WriteLatest("adopted", "positive", "settle")
           [] Verdict \in {"inert", "closed"} ->
                WriteLatest("negative-adopted", Verdict, "settle")
           [] native.row = "accepted" ->
                /\ worker' = [worker EXCEPT !.step = "cancel"]
                /\ Unharmed /\ UNCHANGED record
           [] OTHER -> Stumble /\ Unharmed /\ UNCHANGED record

\* RecoverUndispatched: the signed journal proves that nothing was dispatched.
SettleUndispatched ==
    IF record.q.effects = worker.q.effects
    THEN WriteLatest("negative-adopted", "inert", "settle")
    ELSE Stumble /\ Unharmed /\ UNCHANGED record

\* Adopt installs the custody of the recorded graph before the effect is final.
SettleAppGroup ==
    /\ Doing("settle")
    /\ IF ~Unsettled(worker.q.effects)
       THEN worker' = [worker EXCEPT !.step = worker.next] /\ Unharmed
            /\ UNCHANGED record
       ELSE LET e == Latest(worker.q.effects)
            IN  \/ /\ e.state \in {"preparing", "prepared"} /\ SettleUndispatched
                \/ /\ e.state = "dispatched" /\ SettleDispatched
                \/ /\ e.state = "adopted"
                   /\ WriteLatest("observed", e.outcome, "settle")
                \/ /\ e.state = "negative-adopted"
                   /\ WriteLatest("failed", e.outcome, "settle")
                \/ Stumble /\ Mishap /\ UNCHANGED record
    /\ UNCHANGED groupHost

\* A cancellation that trusts the result it read before.
CancelUnlocked == TRUE

\* The manager cancels an accepted command unless a worker has claimed it.
CancelAdmitted == native.row = "accepted"

CancelAccepted ==
    /\ Doing("cancel")
    /\ \/ /\ CancelAdmitted
          /\ native' = [native EXCEPT !.row = IF @ = "accepted" THEN "cancelled" ELSE @]
          /\ WriteLatest("negative-adopted", "inert", "settle")
       \/ /\ ~CancelAdmitted /\ Stumble /\ Unharmed /\ UNCHANGED <<record, native>>
       \/ Stumble /\ Mishap /\ UNCHANGED <<record, native>>
    /\ UNCHANGED <<helper, saved>>

-----------------------------------------------------------------------------
(* createAppGroupSnapshot *)

\* A journal that already resumed its writers: the snapshot exists or never will.
Decided == worker.q.phase \in {"resuming", "restored"} \/ Len(worker.q.effects) > 1

\* The phases whose Kopia helper may live.
Attempted == worker.q.phase \in {"stopped", "snapshot-created", "resuming"}

DecideEntry ==
    /\ Doing("decide")
    /\ worker' = [worker EXCEPT !.armed = TRUE, !.attempted = Attempted,
                    !.step = IF Decided THEN "find" ELSE "core-stop"]
    /\ UNCHANGED <<record, groupHost, mishaps>>

\* settleSnapshotRuntime, then LookupSnapshot: absent is an error.
Find ==
    /\ Doing("find")
    /\ \/ /\ helper' = "idle" /\ Unharmed
          /\ worker' = [worker EXCEPT !.settled = TRUE, !.step = "cleanup",
                                      !.failed = ~saved]
       \/ UNCHANGED helper /\ Stumble /\ Mishap
    /\ UNCHANGED <<record, native, saved>>

\* stopSnapshotWriters of the other containers, whose controls are their own.
CoreStop ==
    /\ Doing("core-stop")
    /\ \/ /\ worker' = [worker EXCEPT !.action = "stop", !.step =
                          IF worker.q.initial THEN "advance" ELSE "stopped"]
          /\ Unharmed
       \/ Stumble /\ Mishap
    /\ UNCHANGED <<record, groupHost>>

\* Where a settled AdvanceAppGroup continues.
After(a) ==
    CASE a = "stop" -> "stopped"
      [] a = "rollback-stop" -> "resume"
      [] OTHER -> "core-start"

\* AdvanceAppGroup: an observed action is not repeated, and of the failed ones
\* only a rollback-stop; a new action is first recorded as an intent.
Advance ==
    /\ Doing("advance")
    /\ LET s == worker.q.effects  a == worker.action
           same == s # <<>> /\ Latest(s).action = a
       IN  IF same /\ Latest(s).state = "observed"
           THEN worker' = [worker EXCEPT !.step = After(a)]
                /\ Unharmed /\ UNCHANGED record
           ELSE IF \/ same /\ Latest(s).state = "failed" /\ a # "rollback-stop"
                   \/ ~groupActionAllowed(worker.q, a)
           THEN Stumble /\ Unharmed /\ UNCHANGED record
           ELSE Write([worker.q EXCEPT !.effects = Append(s, Intent(a))], "prepare")
    /\ UNCHANGED groupHost

\* Prepare creates a dormant exec; an exec without a recorded handle is lost.
PrepareExec ==
    /\ Doing("prepare")
    /\ \/ /\ native' = [native EXCEPT !.outer = "dormant", !.row = "none"]
          /\ worker' = [worker EXCEPT !.step = "prepared"] /\ Unharmed
       \/ UNCHANGED native /\ Stumble /\ Mishap
    /\ UNCHANGED <<record, helper, saved>>

RecordPrepared ==
    /\ Doing("prepared")
    /\ WriteLatest("prepared", "none", "dispatched")
    /\ UNCHANGED groupHost

RecordDispatched ==
    /\ Doing("dispatched")
    /\ WriteLatest("dispatched", "none", "dispatch")
    /\ UNCHANGED groupHost

\* Dispatch starts the exec; its answer may be lost.
Dispatch ==
    /\ Doing("dispatch")
    /\ \/ /\ native' = [native EXCEPT !.outer = "running"]
          /\ worker' = [worker EXCEPT !.step = "settle", !.next = "advanced"]
          /\ Unharmed
       \/ /\ native' \in {native, [native EXCEPT !.outer = "running"]}
          /\ Stumble /\ Mishap
    /\ UNCHANGED <<record, helper, saved>>

\* The end of AdvanceAppGroup.
Advanced ==
    /\ Doing("advanced")
    /\ IF Latest(worker.q.effects).state = "failed" THEN Stumble
       ELSE worker' = [worker EXCEPT !.step = After(worker.action)]
    /\ UNCHANGED <<record, groupHost, mishaps>>

\* A group that never ran is verified instead.
Stopped ==
    /\ Doing("stopped")
    /\ \/ ~worker.q.initial /\ native.touched /\ Stumble /\ Unharmed
          /\ UNCHANGED record
       \/ (worker.q.initial \/ ~native.touched) /\ WritePhase("stopped", "create")
    /\ UNCHANGED groupHost

\* An existing snapshot is the result; otherwise Kopia makes one.
CreateSnapshot ==
    /\ Doing("create")
    /\ helper' = IF saved THEN helper ELSE "capturing"
    /\ \/ worker' = [worker EXCEPT !.attempted = TRUE, !.step = "created"]
          /\ Unharmed
       \/ worker' = [worker EXCEPT !.attempted = TRUE, !.step = "cleanup",
                                   !.failed = TRUE] /\ Mishap
    /\ UNCHANGED <<record, native, saved>>

\* The helper (external) ends, with a snapshot or without one.
HelperEnds ==
    /\ helper = "capturing"
    /\ helper' = "idle"
    /\ \/ saved' = TRUE /\ Unharmed
       \/ UNCHANGED saved /\ Mishap
    /\ UNCHANGED <<record, worker, native>>

Created ==
    /\ Doing("created") /\ helper = "idle"
    /\ IF saved THEN WritePhase("snapshot-created", "cleanup")
       ELSE Stumble /\ Unharmed /\ UNCHANGED record
    /\ UNCHANGED groupHost

-----------------------------------------------------------------------------
(* The deferred cleanup, and the end of the operation *)

CleanupGroup ==
    /\ Doing("cleanup")
    /\ worker' = [worker EXCEPT !.armed = FALSE, !.next = "resuming",
                    !.step = IF worker.attempted /\ ~worker.settled
                             THEN "settle-helper" ELSE "settle"]
    /\ UNCHANGED <<record, groupHost, mishaps>>

SettleHelper ==
    /\ Doing("settle-helper")
    /\ \/ helper' = "idle" /\ worker' = [worker EXCEPT !.step = "settle"] /\ Unharmed
       \/ UNCHANGED helper /\ Stumble /\ Mishap
    /\ UNCHANGED <<record, native, saved>>

Resuming ==
    /\ Doing("resuming")
    /\ WritePhase("resuming", "resume")
    /\ UNCHANGED groupHost

\* A group that is neither restored nor proved absent is stopped once more
\* before it is started.
Resume ==
    /\ Doing("resume")
    /\ worker' =
         IF AppGroupRestored(worker.q) \/ ~worker.q.initial
         THEN [worker EXCEPT !.step = "verify"]
         ELSE [worker EXCEPT !.step = "advance", !.action =
                 IF ~AppGroupStopped(worker.q) THEN "rollback-stop"
                 ELSE IF \E i \in DOMAIN worker.q.effects :
                            \/ worker.q.effects[i].state = "failed"
                            \/ worker.q.effects[i].action = "rollback-stop"
                      THEN "rollback-start" ELSE "start"]
    /\ UNCHANGED <<record, groupHost, mishaps>>

VerifyCurrent ==
    /\ Doing("verify")
    /\ IF worker.q.effects = <<>> /\ native.touched
       THEN Stumble /\ Unharmed
       ELSE Call("core-start")
    /\ UNCHANGED <<record, groupHost>>

\* restoreControlledQuiescence of the other containers.
CoreStart ==
    /\ Doing("core-start")
    /\ Call("restored")
    /\ UNCHANGED <<record, groupHost>>

RecordRestored ==
    /\ Doing("restored")
    /\ WritePhase("restored", IF worker.failed THEN "fail" ELSE "complete")
    /\ UNCHANGED groupHost

\* completeSnapshot.
CompleteSnapshot ==
    /\ Doing("complete")
    /\ \/ /\ record.q.phase = "restored"
          /\ record' = [record EXCEPT !.state = "completed"]
          /\ worker' = [worker EXCEPT !.step = "close"] /\ Unharmed
       \/ record' \in {record, [record EXCEPT !.state = "completed"]}
          /\ worker' = Rest /\ Mishap
    /\ UNCHANGED groupHost

\* settleFailedSnapshot: only a restored journal ends as failed.
SettleFailedSnapshot ==
    /\ Doing("fail")
    /\ IF record.q.phase # "restored"
       THEN worker' = Rest /\ Unharmed /\ UNCHANGED record
       ELSE \/ /\ record' = [record EXCEPT !.state = "failed"]
               /\ worker' = [worker EXCEPT !.step = "close", !.q = record.q]
               /\ Unharmed
            \/ record' \in {record, [record EXCEPT !.state = "failed"]}
               /\ worker' = Rest /\ Mishap
    /\ UNCHANGED groupHost

\* Close releases the native hold, then the operation records the closure.
CloseGroup ==
    /\ Doing("close") /\ AppGroupRestored(worker.q)
    /\ worker' = Rest
    /\ native' \in {native, [native EXCEPT !.hold = FALSE]}
    /\ \/ ~native'.hold /\ record' = [record EXCEPT !.closed = TRUE] /\ Unharmed
       \/ record' \in {record, [record EXCEPT !.closed = ~native'.hold]} /\ Mishap
    /\ UNCHANGED <<helper, saved>>

-----------------------------------------------------------------------------
(* The native manager (external) and the host *)

\* The submitting exec stores the command, or ends before it could.
Submit ==
    /\ native.outer = "running" /\ native.row = "none"
    /\ \/ native' = [native EXCEPT !.row = "accepted"] /\ Unharmed
       \/ native' = [native EXCEPT !.outer = "ended"] /\ Mishap
    /\ UNCHANGED <<record, worker, helper, saved>>

\* It ends with the result of the command, or when its reply is lost.
SubmissionEnds ==
    /\ native.outer = "running" /\ native.row # "none"
    /\ native' = [native EXCEPT !.outer = "ended"]
    /\ \/ Verdict # "none" /\ Unharmed
       \/ Verdict = "none" /\ Mishap
    /\ UNCHANGED <<record, worker, helper, saved>>

Claim ==
    /\ native.row = "accepted"
    /\ native' = [native EXCEPT !.row = "claimed"]
    /\ UNCHANGED <<record, worker, helper, saved, mishaps>>

\* Preparation fails without actuation, or the child begins to act.
Act ==
    /\ native.row = "claimed"
    /\ \/ native' = [native EXCEPT !.row = "inert"] /\ Mishap
       \/ native' = [native EXCEPT !.row = "acting", !.group = "partial"] /\ Unharmed
    /\ UNCHANGED <<record, worker, helper, saved>>

ChildEnds ==
    /\ native.row = "acting"
    /\ \/ /\ native' = [native EXCEPT !.row = "ok", !.group =
                IF controlStarts(Latest(record.q.effects).action)
                THEN "running" ELSE "down"]
          /\ Unharmed
       \/ /\ \E g \in {"running", "partial", "down"} :
                native' = [native EXCEPT !.row = "closed", !.group = g]
          /\ Mishap
    /\ UNCHANGED <<record, worker, helper, saved>>

\* Without the hold the manager may stop or start the application itself.
Touch ==
    /\ ~native.hold /\ record.state \in {"absent", "pending"} /\ Mishap
    /\ native' = [native EXCEPT !.touched = TRUE, !.group =
                    IF @ = "running" THEN "down" ELSE "running"]
    /\ UNCHANGED <<record, worker, helper, saved>>

GroupCrash ==
    /\ worker # Rest /\ Mishap
    /\ worker' = Rest
    /\ UNCHANGED <<record, groupHost>>

WorkerStep ==
    \/ Capture \/ HoldGroup \/ SettleAppGroup \/ CancelAccepted \/ DecideEntry
    \/ Find \/ CoreStop \/ Advance \/ PrepareExec \/ RecordPrepared
    \/ RecordDispatched \/ Dispatch \/ Advanced \/ Stopped \/ CreateSnapshot
    \/ Created \/ CleanupGroup \/ SettleHelper \/ Resuming \/ Resume
    \/ VerifyCurrent \/ CoreStart \/ RecordRestored \/ CompleteSnapshot
    \/ SettleFailedSnapshot \/ CloseGroup

ManagerStep == Submit \/ SubmissionEnds \/ Claim \/ Act \/ ChildEnds

GroupNext ==
    \/ GroupRun \/ GroupReplay \/ WorkerStep
    \/ ManagerStep \/ HelperEnds \/ Touch \/ GroupCrash

GroupSpec == GroupInit /\ [][GroupNext]_groupVars

-----------------------------------------------------------------------------
(* Properties *)

\* Kopia never captures while a container of the group runs, however the stop
\* was lost, repeated or resolved, and whoever else commands the manager.
GroupQuiesced == helper = "capturing" => native.group = "down"

\* A native command that may still act is the one the journal waits for: no
\* settlement, retry or cancellation issues a second one beside it.
CommandFenced ==
    native.outer = "running" \/ native.row \in {"accepted", "claimed", "acting"}
      => /\ record.q.effects # <<>>
         /\ Latest(record.q.effects).state = "dispatched"

\* Under the hold, a settled journal tells the truth of the group: stopped is
\* down, and restored is the original power.
RecordMatchesNative ==
    native.hold /\ ~native.touched /\ ~Unsettled(record.q.effects)
      => /\ AppGroupStopped(record.q) => native.group = "down"
         /\ AppGroupRestored(record.q) =>
              (native.group = "running") = record.q.initial

\* The places where a retry cannot settle the group and the code fails closed:
\* a dispatch that never reached the manager, a rollback-start that failed
\* without actuation, the limit of effects, and a restart before the hold.
Wedged ==
    LET s == record.q.effects
    IN  \/ s = <<>> /\ native.touched
        \/ /\ s # <<>> /\ Latest(s).state = "dispatched"
           /\ \/ native.outer = "dormant"
              \/ native.outer = "ended" /\ native.row = "none"
        \/ s # <<>> /\ Latest(s).action = "rollback-start" /\ Latest(s).outcome = "inert"
        \/ Len(s) = EffectLimit /\ ~AppGroupRestored(record.q)

\* A pending operation that is retried settles, with its group as it was found,
\* unless it is Wedged.
GroupReturns == <>[](record.state = "pending" => Wedged)

=============================================================================
