--------------------------- MODULE ApplyOperation ---------------------------
(***************************************************************************)
(* One runtime Apply operation: the dispatcher of                          *)
(* internal/runtimeexecutordispatch, which walks the prepared children of  *)
(* a sealed request, over the durable file journal of                      *)
(* internal/architecturev2/product_apply_file_journal.go.                  *)
(*                                                                         *)
(* The journal serialises its calls under a lock per operation, so each    *)
(* call is one step.  The fence token is random and only the caller that   *)
(* Begin handed it to knows it: the model keeps that caller, or Nobody.    *)
(* What executing a child does is outside; it may outlive its dispatcher.  *)
(***************************************************************************)
EXTENDS Naturals, FiniteSets

CONSTANTS
    Caller,         \* dispatchers that may execute this operation
    Retrier,        \* the caller that applies again until the operation ends
    Child,          \* requirement IDs of the prepared children, as numbers
    Rank,           \* ownerExecutionRank of each child
    Critical,       \* children that carry core work
    Platform,       \* children that install the Marketplace or Dokploy
    MaxDisturbances \* bound on failures, crashes and takeovers in one run

Nobody == "nobody"

ASSUME OperationAssumption ==
    /\ Retrier \in Caller /\ Nobody \notin Caller
    /\ Child \subseteq Nat \ {0} /\ Child # {}
    /\ Rank \in [Child -> 0..2]
    /\ Critical \subseteq Child /\ Platform \subseteq Child
    /\ \A c \in Platform : Rank[c] = 0
    /\ MaxDisturbances \in Nat

VARIABLES
    record,     \* the journal record of the operation
    run,        \* what each caller's executePrepared keeps in memory
    work,       \* executor invocations in flight: <<caller, child>>
    last,       \* how the last execution of each child ended
    disturbed   \* failures, crashes and takeovers so far

operationVars == <<record, run, work, last, disturbed>>

StepState == {"pending", "running", "succeeded", "failed"}
OperationState == {"absent", "running", "reconcile-required", "completed"}
Result == {"none", "succeeded", "degraded", "error"}

\* What executePrepared returned: an outcome, the structured partial failure
\* (critical or not) with its snapshot, or a plain error.
Answer == {"none", "outcome", "reconcile-critical", "reconcile", "refused"}

\* marketplaceAdapterBound: the children ordered after the platform.
Bound(c) == Rank[c] = 1

\* Mutant of Before: the order of the requirement IDs alone.
BeforeLexically(c, d) == c < d

\* The order partitionOwnerRequest executes the selected children in.
Before(c, d) == Rank[c] < Rank[d] \/ (Rank[c] = Rank[d] /\ c < d)

-----------------------------------------------------------------------------
(* The durable record.                                                     *)

\* A failure is terminal only once nothing is left to attempt.
OperationStateForSteps(steps) ==
    IF /\ \E c \in Child : steps[c] = "failed"
       /\ \A c \in Child : steps[c] \notin {"pending", "running"}
    THEN "reconcile-required" ELSE "running"

\* ValidateSnapshot: the counts of the steps admit the operation's state.
ValidSnapshot(steps, state) ==
    CASE state = "running" ->
           (\E c \in Child : steps[c] = "failed")
              => \E c \in Child : steps[c] \in {"pending", "running"}
      [] state = "reconcile-required" ->
           /\ \E c \in Child : steps[c] = "failed"
           /\ \A c \in Child : steps[c] # "running"
      [] state = "completed" -> \A c \in Child : steps[c] = "succeeded"
      [] OTHER -> FALSE

validStepTransition(from, to) ==
    <<from, to>> \in {<<"pending", "running">>, <<"failed", "running">>,
                      <<"running", "succeeded">>, <<"running", "failed">>}

OperationInit ==
    /\ record = [state |-> "absent", token |-> Nobody,
                 steps |-> [c \in Child |-> "pending"]]
    /\ run = [p \in Caller |->
                [at |-> "idle", todo |-> {}, seen |-> [c \in Child |-> "pending"],
                 state |-> "running", gate |-> FALSE, failed |-> FALSE,
                 child |-> 0, result |-> "none", answer |-> "none"]]
    /\ work = {}
    /\ last = [c \in Child |-> "none"]
    /\ disturbed = 0

Disturb == disturbed < MaxDisturbances /\ disturbed' = disturbed + 1

Set(p, r) == run' = [run EXCEPT ![p] = r]

\* executePrepared returns: its memory is gone, its answer remains.
Returned(r, answer) == [r EXCEPT !.at = "idle", !.todo = {}, !.child = 0,
                                 !.result = "none", !.gate = FALSE,
                                 !.answer = answer]
Return(p, answer) == Set(p, Returned(run[p], answer))

-----------------------------------------------------------------------------
(* Begin.                                                                  *)

\* Mutant of Reserved: a step found running is offered again.
ReservedReset(p) ==
    [record EXCEPT !.token = p,
                   !.state = IF @ = "absent" THEN "running" ELSE @,
                   !.steps = [c \in Child |-> IF @[c] = "running"
                                              THEN "pending" ELSE @[c]]]

\* Begin rotates the fence token of every operation that is not final, also
\* of one another caller is executing.
Reserved(p) ==
    [record EXCEPT !.token = p,
                   !.state = IF @ = "absent" THEN "running" ELSE @]

\* Another dispatcher is in the middle of this operation.
TakesOver(p) == \E q \in Caller \ {p} : run[q].at # "idle"

\* Begin with executePrepared up to its loop: replay a completed operation,
\* refuse one whose step remains running, else acquire or resume it.
Begin(p) ==
    /\ run[p].at = "idle"
    /\ record.state # "completed"
    /\ IF TakesOver(p) \/ p # Retrier THEN Disturb ELSE UNCHANGED disturbed
    /\ record' = Reserved(p)
    /\ IF \E c \in Child : record'.steps[c] = "running"
       THEN Return(p, "refused")
       ELSE Set(p, [at |-> "loop", todo |-> Child, seen |-> record'.steps,
                    state |-> record'.state, gate |-> FALSE, failed |-> FALSE,
                    child |-> 0, result |-> "none", answer |-> "none"])
    /\ UNCHANGED <<work, last>>

\* The rotated token is installed but Begin reports an error.
BeginUnconfirmed(p) ==
    /\ run[p].at = "idle"
    /\ record.state # "completed"
    /\ Disturb
    /\ record' = [Reserved(p) EXCEPT !.token = Nobody]
    /\ Return(p, "refused")
    /\ UNCHANGED <<work, last>>

\* replayPrepared answers with the stored results.
Replay(p) ==
    /\ run[p].at = "idle"
    /\ record.state = "completed"
    /\ Return(p, IF \A c \in Child : record.steps[c] = "succeeded"
                 THEN "outcome" ELSE "refused")
    /\ UNCHANGED <<record, work, last, disturbed>>

-----------------------------------------------------------------------------
(* CommitStep.                                                             *)

Committed(c, to) ==
    LET steps == [record.steps EXCEPT ![c] = to]
    IN  [record EXCEPT !.steps = steps, !.state = OperationStateForSteps(steps)]

\* The journal accepts a commit: the fence, the compare-and-set, the snapshot.
CommitAccepted(p, c, to) ==
    /\ record.token = p
    /\ record.steps[c] = run[p].seen[c]
    /\ validStepTransition(run[p].seen[c], to)
    /\ ValidSnapshot(Committed(c, to).steps, Committed(c, to).state)

\* validateCommittedSnapshot: nothing but the committed step changed.
Confirmed(p, c, to) ==
    /\ Committed(c, to).steps = [run[p].seen EXCEPT ![c] = to]
    /\ Committed(c, to).state = OperationStateForSteps(Committed(c, to).steps)

\* An accepted commit continues with `r`; a refused one, or one whose write
\* or context fails afterwards, returns an error.
Commit(p, c, to, r) ==
    \/ /\ CommitAccepted(p, c, to) /\ Confirmed(p, c, to)
       /\ record' = Committed(c, to)
       /\ Set(p, [r EXCEPT !.seen = Committed(c, to).steps,
                           !.state = Committed(c, to).state])
       /\ UNCHANGED disturbed
    \/ /\ CommitAccepted(p, c, to)
       /\ record' = Committed(c, to)
       /\ Return(p, "refused")
       /\ IF Confirmed(p, c, to) THEN Disturb ELSE UNCHANGED disturbed
    \/ /\ ~CommitAccepted(p, c, to)
       /\ Return(p, "refused")
       /\ UNCHANGED <<record, disturbed>>

NextChild(p) == CHOOSE c \in run[p].todo :
                   \A d \in run[p].todo \ {c} : Before(c, d)

\* Mutant of Executable: a failed step is not attempted again.
PendingOnly(state) == state = "pending"

Executable(state) == state \in {"pending", "failed"}

\* A succeeded child is replayed from its stored result.
SkipSucceeded(p) ==
    /\ run[p].at = "loop" /\ run[p].todo # {}
    /\ run[p].seen[NextChild(p)] = "succeeded"
    /\ Set(p, [run[p] EXCEPT !.todo = @ \ {NextChild(p)}])
    /\ UNCHANGED <<record, work, last, disturbed>>

\* Any other child is marked running before it is invoked.
CommitRunning(p) ==
    LET c == NextChild(p)
    IN  /\ run[p].at = "loop" /\ run[p].todo # {}
        /\ run[p].seen[c] # "succeeded"
        /\ IF Executable(run[p].seen[c])
           THEN Commit(p, c, "running", [run[p] EXCEPT !.at = "invoke",
                                                       !.child = c])
           ELSE Return(p, "refused") /\ UNCHANGED <<record, disturbed>>
        /\ UNCHANGED <<work, last>>

-----------------------------------------------------------------------------
(* The invocation and its platform gate.                                   *)

Invoke(p) ==
    /\ run[p].at = "invoke"
    /\ ~(run[p].gate /\ Bound(run[p].child))
    /\ work' = work \cup {<<p, run[p].child>>}
    /\ Set(p, [run[p] EXCEPT !.at = "invoking"])
    /\ UNCHANGED <<record, last, disturbed>>

\* The platform failed earlier in this Apply: the child is not attempted.
RefuseBound(p) ==
    /\ run[p].at = "invoke"
    /\ run[p].gate /\ Bound(run[p].child)
    /\ Set(p, [run[p] EXCEPT !.at = "ran", !.result = "error"])
    /\ UNCHANGED <<record, work, last, disturbed>>

\* The executor ends; a dispatcher that still waits gets its result.
ExecutorEnds(p, c, result) ==
    /\ <<p, c>> \in work
    /\ work' = work \ {<<p, c>>}
    /\ last' = [last EXCEPT ![c] = result]
    /\ IF run[p].at = "invoking" /\ run[p].child = c
       THEN Set(p, [run[p] EXCEPT !.at = "ran", !.result = result,
                       !.gate = @ \/ (result = "error" /\ c \in Platform)])
       ELSE UNCHANGED run
    /\ IF result = "succeeded" THEN UNCHANGED disturbed ELSE Disturb
    /\ UNCHANGED record

\* Only a critical child with a real failure abandons the remaining steps.
stopsRollout(c, result) == c \in Critical /\ result = "error"

\* Mutant of AfterFailure: every failure ends the rollout.
AfterAnyFailure(r, c, result) ==
    Returned([r EXCEPT !.failed = TRUE],
             IF stopsRollout(c, result) THEN "reconcile-critical" ELSE "reconcile")

\* A critical failure returns at once, any other goes on with the next child.
AfterFailure(r, c, result) ==
    IF stopsRollout(c, result)
    THEN Returned([r EXCEPT !.failed = TRUE], "reconcile-critical")
    ELSE [r EXCEPT !.at = "loop", !.todo = @ \ {c}, !.child = 0,
                   !.result = "none", !.failed = TRUE]

CommitFailed(p) ==
    LET c == run[p].child
    IN  /\ run[p].at = "ran" /\ run[p].result # "succeeded"
        /\ Commit(p, c, "failed", AfterFailure(run[p], c, run[p].result))
        /\ UNCHANGED <<work, last>>

CommitSucceeded(p) ==
    LET c == run[p].child
    IN  /\ run[p].at = "ran" /\ run[p].result = "succeeded"
        /\ Commit(p, c, "succeeded", [run[p] EXCEPT !.at = "loop",
                     !.todo = @ \ {c}, !.child = 0, !.result = "none"])
        /\ UNCHANGED <<work, last>>

-----------------------------------------------------------------------------
(* The end of the loop.                                                    *)

\* A partial operation was settled by its last commit.
SettlePartial(p) ==
    /\ run[p].at = "loop" /\ run[p].todo = {} /\ run[p].failed
    /\ Return(p, IF run[p].state = "reconcile-required"
                 THEN "reconcile" ELSE "refused")
    /\ UNCHANGED <<record, work, last, disturbed>>

FinalizeAccepted(p) ==
    /\ record.token = p
    /\ record.state = run[p].state
    /\ ValidSnapshot(record.steps, "completed")

\* Finalize gives the fence token up; its write may fail to be confirmed.
Finalize(p) ==
    /\ run[p].at = "loop" /\ run[p].todo = {} /\ ~run[p].failed
    /\ \/ /\ FinalizeAccepted(p)
          /\ record' = [record EXCEPT !.state = "completed", !.token = Nobody]
          /\ \/ /\ Return(p, IF record.steps = run[p].seen
                             THEN "outcome" ELSE "refused")
                /\ UNCHANGED disturbed
             \/ Return(p, "refused") /\ Disturb
       \/ /\ ~FinalizeAccepted(p)
          /\ Return(p, "refused")
          /\ UNCHANGED <<record, disturbed>>
    /\ UNCHANGED <<work, last>>

\* The dispatcher ends early: a crash, a busy journal lock, or a canceled
\* context, under which the journal refuses to record the failed step.
Abandon(p) ==
    /\ run[p].at # "idle"
    /\ Disturb
    /\ Return(p, "refused")
    /\ UNCHANGED <<record, work, last>>

-----------------------------------------------------------------------------

OperationStep(p) ==
    \/ SkipSucceeded(p) \/ CommitRunning(p) \/ Invoke(p) \/ RefuseBound(p)
    \/ CommitFailed(p) \/ CommitSucceeded(p) \/ SettlePartial(p) \/ Finalize(p)

ExecutorStep(p) ==
    \E c \in Child, result \in Result \ {"none"} : ExecutorEnds(p, c, result)

OperationNext ==
    \E p \in Caller :
        \/ Begin(p) \/ BeginUnconfirmed(p) \/ Replay(p) \/ Abandon(p)
        \/ OperationStep(p) \/ ExecutorStep(p)

\* A dispatcher that is not abandoned runs on, an executor ends, and the
\* retrying caller applies again for as long as the operation is not completed.
OperationFairness ==
    /\ \A p \in Caller : /\ WF_operationVars(OperationStep(p))
                         /\ WF_operationVars(ExecutorStep(p))
    /\ WF_operationVars(Begin(Retrier))

OperationSpec ==
    OperationInit /\ [][OperationNext]_operationVars /\ OperationFairness

-----------------------------------------------------------------------------

\* Type correctness of the record, the dispatchers and the executor work.
OperationTypeOK ==
    /\ record \in [state : OperationState, token : Caller \cup {Nobody},
                   steps : [Child -> StepState]]
    /\ run \in [Caller ->
          [at : {"idle", "loop", "invoke", "invoking", "ran"},
           todo : SUBSET Child, seen : [Child -> StepState],
           state : OperationState \ {"absent"}, gate : BOOLEAN,
           failed : BOOLEAN, child : Child \cup {0}, result : Result,
           answer : Answer]]
    /\ \A p \in Caller : run[p].child = 0 <=> run[p].at \in {"idle", "loop"}
    /\ work \subseteq Caller \X Child
    /\ last \in [Child -> Result]
    /\ disturbed \in 0..MaxDisturbances

\* No two executions of one operation overlap, not even with one whose
\* dispatcher crashed or lost its fence, and whatever executes is journaled as
\* running: a step recorded as succeeded is never executed again.
ExecutionFenced ==
    \A w \in work :
        /\ record.steps[w[2]] = "running"
        /\ work = {w}

\* A returned outcome says that every child's last execution succeeded and the
\* operation is completed; a non-critical partial failure says that every step
\* was settled and one of them failed (ReconcileRequiredError.Critical).
AnswerIsTrue ==
    \A p \in Caller :
        /\ run[p].answer = "outcome" =>
              /\ record.state = "completed"
              /\ \A c \in Child : last[c] = "succeeded"
        /\ run[p].answer = "reconcile" =>
              /\ \A c \in Child : run[p].seen[c] \in {"succeeded", "failed"}
              /\ \E c \in Child : run[p].seen[c] = "failed"

\* A child bound to the platform executes only after the platform's own last
\* execution succeeded or was merely degraded, across retries and takeovers.
PlatformFirst ==
    \A w \in work : Bound(w[2]) =>
        \A c \in Platform : last[c] \in {"succeeded", "degraded"}

\* A step was marked running and the dispatcher that marked it will not settle
\* it: Begin refuses the operation from then on.
Abandoned ==
    \E c \in Child :
        /\ record.steps[c] = "running"
        /\ \A p \in Caller : ~(/\ run[p].child = c
                               /\ run[p].at \in {"invoke", "invoking", "ran"}
                               /\ record.token = p)

\* Applying again completes the operation once disturbances stop, unless a
\* dispatcher was abandoned with a step marked running.
OperationSettles ==
    record.state # "absent" ~> (record.state = "completed" \/ Abandoned)

=============================================================================
