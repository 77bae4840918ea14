---------------------------- MODULE ApplyProofs ----------------------------
(***************************************************************************)
(* The product Apply, for every number of resolutions, callers and         *)
(* children: only the newest resolution is worked under and each executes  *)
(* once, and one operation's executions never overlap, follow its          *)
(* platform and are answered truthfully; and the same together with the    *)
(* maintenance of the host, as the node runs them.                         *)
(***************************************************************************)
EXTENDS MCApply, HostMaintenanceProofs, WellFoundedInduction

-----------------------------------------------------------------------------
(* The authorization: its inductive invariant.                             *)

\* An occupied slot belongs to the newest resolution.
SlotIsNewest ==
    slot.occupied => slot.epoch = slot.sequence /\ slot.epoch \in Epoch

\* Work holds the read lock and goes on under the stage that admitted it.
WorkHolds ==
    /\ working \subseteq readers
    /\ \A w \in working :
          /\ slot.occupied /\ slot.epoch = w[1]
          /\ slot.stage = IF w[2] = "execution" THEN "apply-authorized"
                          ELSE "authorized"

\* A resolution is evaluated once, and what was executed is past its issue.
EvaluatedOnce ==
    \A e \in Epoch :
        /\ e > slot.sequence => grant[e].state = "none"
        /\ Holds(e, "issued") => grant[e].state = "none"
        /\ executed[e] \in {0, 1}
        /\ executed[e] = 1 => grant[e].state \in {"consuming", "consumed", "closed"}

AuthorizationInv ==
    /\ AuthorizationTypeOK
    /\ SlotIsNewest
    /\ WorkHolds
    /\ EvaluatedOnce

-----------------------------------------------------------------------------
(* The authorization: every step keeps the invariant.                      *)

(* A fresh coordinator satisfies it.                                         *)
LEMMA AuthorizationInvInit == AuthorizationInit => AuthorizationInv
  BY AuthorizationAssumption
     DEF AuthorizationInit, AuthorizationInv, AuthorizationTypeOK, SlotIsNewest,
         WorkHolds, EvaluatedOnce, Epoch, Stage, Use, GrantState, Holds

(* The newest resolution takes the slot over while nobody works under it.    *)
LEMMA IssueKeeps ==
  ASSUME AuthorizationInv, issueCurrentGeneration
  PROVE  AuthorizationInv'
  <1> USE AuthorizationAssumption DEF issueCurrentGeneration, Exclusive
  <1>1. working = {}
    BY DEF AuthorizationInv, WorkHolds
  <1>2. AuthorizationTypeOK' /\ SlotIsNewest'
    BY DEF AuthorizationInv, AuthorizationTypeOK, SlotIsNewest, Epoch, Stage
  <1>3. WorkHolds'
    BY <1>1 DEF WorkHolds
  <1>4. EvaluatedOnce'
    BY DEF AuthorizationInv, AuthorizationTypeOK, EvaluatedOnce, Epoch, Holds
  <1> QED
    BY <1>2, <1>3, <1>4 DEF AuthorizationInv

(* Steps under the write lock: the slot moves to another stage, empties or   *)
(* is left as it is, and one authorization moves on.                         *)
LEMMA WriteLockKeeps ==
  ASSUME AuthorizationInv, NEW e \in Epoch, Exclusive,
         UNCHANGED <<readers, working, executed, expired>>,
         NEW g \in [use : Use, state : GrantState],
         grant' = [grant EXCEPT ![e] = g],
         executed[e] = 1 => g.state = "closed",
         NEW s \in Stage \ {"issued"},
         \/ slot' = slot /\ grant[e].state # "none"
         \/ slot' = Emptied /\ grant[e].state # "none"
         \/ slot' = [slot EXCEPT !.stage = s] /\ slot.occupied /\ slot.epoch = e
  PROVE  AuthorizationInv'
  <1> USE AuthorizationAssumption
  <1>1. working = {}
    BY DEF AuthorizationInv, WorkHolds, Exclusive
  <1>2. AuthorizationTypeOK'
    <2>1. slot' \in [sequence : 0..MaxEpoch, epoch : 0..MaxEpoch, stage : Stage,
                     occupied : BOOLEAN]
      <3>1. slot \in [sequence : 0..MaxEpoch, epoch : 0..MaxEpoch, stage : Stage,
                      occupied : BOOLEAN]
        BY DEF AuthorizationInv, AuthorizationTypeOK
      <3>2. Emptied \in [sequence : 0..MaxEpoch, epoch : 0..MaxEpoch, stage : Stage,
                         occupied : BOOLEAN]
        BY <3>1 DEF Emptied, Stage
      <3> QED
        BY <3>1, <3>2
    <2> QED
      BY <2>1 DEF AuthorizationInv, AuthorizationTypeOK
  <1>3. SlotIsNewest'
    BY DEF AuthorizationInv, AuthorizationTypeOK, SlotIsNewest, Emptied
  <1>4. WorkHolds'
    BY <1>1 DEF WorkHolds
  <1>5. e <= slot.sequence
    BY DEF AuthorizationInv, AuthorizationTypeOK, SlotIsNewest, EvaluatedOnce, Epoch
  <1>6. /\ slot'.sequence = slot.sequence
        /\ \A d \in Epoch : Holds(d, "issued")' => Holds(d, "issued") /\ slot' = slot
    BY DEF AuthorizationInv, AuthorizationTypeOK, Emptied, Holds
  <1>7. grant'[e] = g /\ \A d \in Epoch : d # e => grant'[d] = grant[d]
    BY DEF AuthorizationInv, AuthorizationTypeOK
  <1>8. EvaluatedOnce'
    <2> SUFFICES ASSUME NEW d \in Epoch
                 PROVE  /\ d > slot'.sequence => grant'[d].state = "none"
                        /\ Holds(d, "issued")' => grant'[d].state = "none"
                        /\ executed'[d] \in {0, 1}
                        /\ executed'[d] = 1 =>
                              grant'[d].state \in {"consuming", "consumed", "closed"}
      BY DEF EvaluatedOnce
    <2>1. CASE d # e
      BY <1>6, <1>7, <2>1 DEF AuthorizationInv, EvaluatedOnce
    <2>2. CASE d = e
      <3>1. ~(d > slot'.sequence)
        BY <1>5, <1>6, <2>2 DEF AuthorizationInv, AuthorizationTypeOK, Epoch
      <3>2. ~Holds(d, "issued")'
        <4> SUFFICES ASSUME Holds(d, "issued")' PROVE FALSE
          OBVIOUS
        <4>1. Holds(e, "issued") /\ grant[e].state = "none" /\ slot' = slot
          BY <1>6, <2>2 DEF AuthorizationInv, EvaluatedOnce
        <4>2. slot' = [slot EXCEPT !.stage = s] => slot'.stage = s
          BY DEF AuthorizationInv, AuthorizationTypeOK
        <4> QED
          BY <4>1, <4>2 DEF Holds
      <3> QED
        BY <1>7, <2>2, <3>1, <3>2 DEF AuthorizationInv, EvaluatedOnce
    <2> QED
      BY <2>1, <2>2
  <1> QED
    BY <1>2, <1>3, <1>4, <1>8 DEF AuthorizationInv

(* The evaluation of a resolution, and what ends an authorization.           *)
LEMMA EvaluationKeeps ==
  ASSUME AuthorizationInv, NEW e \in Epoch,
         \/ \E use \in Use : BeginAuthorization(e, use)
         \/ FinishAuthorization(e) \/ RefuseAuthorization(e)
         \/ ConsumeInvalid(e) \/ Close(e)
  PROVE  AuthorizationInv'
  <1>1. ASSUME NEW use \in Use, BeginAuthorization(e, use)
        PROVE  AuthorizationInv'
    <2> DEFINE g == [use |-> use, state |-> "evaluating"]
    <2>1. AuthorizingStage(use) \in Stage \ {"issued"} /\ g \in [use : Use, state : GrantState]
      BY DEF AuthorizingStage, Stage, GrantState
    <2>2. executed[e] # 1
      BY <1>1 DEF BeginAuthorization, AuthorizationInv, EvaluatedOnce
    <2> QED
      BY <1>1, <2>1, <2>2, WriteLockKeeps DEF BeginAuthorization, Holds
  <1>2. ASSUME NEW state \in GrantState, Becomes(e, state), Exclusive,
               UNCHANGED <<readers, working, executed, expired>>,
               executed[e] = 1 => state = "closed", grant[e].state # "none",
               NEW s \in Stage \ {"issued"},
               \/ slot' \in {slot, Emptied}
               \/ slot' = [slot EXCEPT !.stage = s] /\ slot.occupied /\ slot.epoch = e
        PROVE  AuthorizationInv'
    <2> DEFINE g == [grant[e] EXCEPT !.state = state]
    <2>1. g \in [use : Use, state : GrantState] /\ g.state = state
          /\ grant' = [grant EXCEPT ![e] = g]
      BY <1>2 DEF Becomes, AuthorizationInv, AuthorizationTypeOK
    <2> HIDE DEF g
    <2> QED
      BY <1>2, <2>1, WriteLockKeeps
  <1>3. "authorized" \in Stage \ {"issued"}
    BY DEF Stage
  <1>4. {"closed", "issued", "admitted"} \subseteq GrantState
    BY DEF GrantState
  <1>5. Revoked(e) \in {slot, Emptied}
    BY DEF Revoked
  <1>6. CASE FinishAuthorization(e)
    <2>1. executed[e] # 1
      BY <1>6 DEF FinishAuthorization, AuthorizationInv, EvaluatedOnce
    <2>2. CASE Holds(e, AuthorizingStage(grant[e].use))
      <3>1. AuthorizedStage(grant[e].use) \in Stage \ {"issued"}
        BY DEF AuthorizedStage, Stage
      <3> QED
        BY <1>2, <1>4, <1>6, <2>1, <2>2, <3>1 DEF FinishAuthorization, Holds
    <2>3. CASE ~Holds(e, AuthorizingStage(grant[e].use))
      BY <1>2, <1>3, <1>4, <1>5, <1>6, <2>1, <2>3 DEF FinishAuthorization
    <2> QED
      BY <2>2, <2>3
  <1>7. CASE RefuseAuthorization(e)
    BY <1>2, <1>3, <1>4, <1>7 DEF RefuseAuthorization
  <1>8. CASE ConsumeInvalid(e)
    <2>1. grant[e].state # "none"
      BY <1>8 DEF ConsumeInvalid, Consumable
    <2> QED
      BY <1>2, <1>3, <1>4, <1>5, <1>8, <2>1 DEF ConsumeInvalid
  <1>9. CASE Close(e)
    BY <1>2, <1>3, <1>4, <1>5, <1>9 DEF Close
  <1> QED
    BY <1>1, <1>6, <1>7, <1>8, <1>9

(* Work begins under the slot and ends; nothing else happens to the slot.     *)
LEMMA WorkKeeps ==
  ASSUME AuthorizationInv, NEW e \in Epoch,
         \/ \E l \in Lease : AcquireGeneration(e, l) \/ ReleaseGeneration(e, l)
         \/ consume(e) \/ AcquireReconcile(e) \/ ReleaseExecution(e) \/ Expire(e)
  PROVE  AuthorizationInv'
  <1> USE AuthorizationAssumption
  <1>1. slot' = slot
    BY DEF AcquireGeneration, ReleaseGeneration, consume, AcquireReconcile,
           ReleaseExecution, Expire
  <1>2. CASE \E l \in Lease : AcquireGeneration(e, l)
    <2>1. PICK l \in Lease : AcquireGeneration(e, l)
      BY <1>2
    <2>2. /\ Holds(e, "authorized") /\ l # "execution"
          /\ readers' = readers \cup {<<e, l>>} /\ working' = working \cup {<<e, l>>}
          /\ UNCHANGED <<slot, grant, executed, expired>>
      BY <2>1 DEF AcquireGeneration, Lock
    <2>3. WorkHolds'
      BY <2>2 DEF AuthorizationInv, WorkHolds, Holds
    <2> QED
      BY <2>2, <2>3 DEF AuthorizationInv, AuthorizationTypeOK, SlotIsNewest,
                        EvaluatedOnce, Holds
  <1>3. CASE \E l \in Lease : ReleaseGeneration(e, l)
    <2>1. PICK l \in Lease : ReleaseGeneration(e, l)
      BY <1>3
    <2>2. /\ readers' = readers \ {<<e, l>>} /\ working' = working \ {<<e, l>>}
          /\ UNCHANGED <<slot, grant, executed, expired>>
      BY <2>1 DEF ReleaseGeneration
    <2> QED
      BY <2>2 DEF AuthorizationInv, AuthorizationTypeOK, SlotIsNewest, WorkHolds,
                  EvaluatedOnce, Holds
  <1>4. ASSUME Holds(e, "apply-authorized"), grant[e].state \in {"issued", "admitted"},
               readers' = Lock(<<e, "execution">>),
               working' = working \cup {<<e, "execution">>},
               executed' = [executed EXCEPT ![e] = @ + 1],
               Becomes(e, "consuming"), UNCHANGED <<slot, expired>>
        PROVE  AuthorizationInv'
    <2>1. executed[e] = 0
      BY <1>4 DEF AuthorizationInv, EvaluatedOnce
    <2>2. AuthorizationTypeOK' /\ SlotIsNewest'
      BY <1>4 DEF AuthorizationInv, AuthorizationTypeOK, SlotIsNewest, Lock, Becomes,
                  GrantState
    <2>3. WorkHolds'
      BY <1>4 DEF AuthorizationInv, WorkHolds, Holds, Lock
    <2>4. EvaluatedOnce'
      BY <1>4, <2>1 DEF AuthorizationInv, AuthorizationTypeOK, EvaluatedOnce, Becomes,
                        Holds
    <2> QED
      BY <2>2, <2>3, <2>4 DEF AuthorizationInv
  <1>5. CASE consume(e)
    BY <1>4, <1>5 DEF consume, Consumable
  <1>6. CASE AcquireReconcile(e)
    <2>1. CASE Holds(e, "apply-authorized")
      BY <1>4, <1>6, <2>1 DEF AcquireReconcile
    <2>2. CASE ~Holds(e, "apply-authorized")
      <3>1. /\ grant[e].state = "admitted" /\ Becomes(e, "closed")
            /\ UNCHANGED <<readers, working, executed, slot, expired>>
        BY <1>6, <2>2 DEF AcquireReconcile
      <3>2. AuthorizationTypeOK' /\ SlotIsNewest'
        BY <3>1 DEF AuthorizationInv, AuthorizationTypeOK, SlotIsNewest, Becomes,
                    GrantState
      <3>3. WorkHolds'
        BY <3>1 DEF AuthorizationInv, WorkHolds, Holds
      <3>4. EvaluatedOnce'
        BY <3>1 DEF AuthorizationInv, AuthorizationTypeOK, EvaluatedOnce, Becomes, Holds
      <3> QED
        BY <3>2, <3>3, <3>4 DEF AuthorizationInv
    <2> QED
      BY <2>1, <2>2
  <1>7. CASE ReleaseExecution(e)
    <2>1. AuthorizationTypeOK' /\ SlotIsNewest'
      BY <1>7 DEF ReleaseExecution, AuthorizationInv, AuthorizationTypeOK, SlotIsNewest,
                  Becomes, GrantState
    <2>2. WorkHolds'
      BY <1>7 DEF ReleaseExecution, AuthorizationInv, WorkHolds, Holds
    <2>3. EvaluatedOnce'
      BY <1>7 DEF ReleaseExecution, AuthorizationInv, AuthorizationTypeOK, EvaluatedOnce,
                  Becomes, Holds
    <2> QED
      BY <2>1, <2>2, <2>3 DEF AuthorizationInv
  <1>8. CASE Expire(e)
    BY <1>8 DEF Expire, AuthorizationInv, AuthorizationTypeOK,
       SlotIsNewest, WorkHolds, EvaluatedOnce, Holds
  <1> QED
    BY <1>2, <1>3, <1>5, <1>6, <1>7, <1>8

(* Every step of the coordinator keeps it.                                    *)
LEMMA AuthorizationInvNext ==
  AuthorizationInv /\ [AuthorizationNext]_authorizationVars => AuthorizationInv'
  <1> SUFFICES ASSUME AuthorizationInv, [AuthorizationNext]_authorizationVars
               PROVE  AuthorizationInv'
    OBVIOUS
  <1>1. CASE UNCHANGED authorizationVars
    BY <1>1 DEF authorizationVars, AuthorizationInv, AuthorizationTypeOK,
       SlotIsNewest, WorkHolds, EvaluatedOnce, Holds
  <1>2. CASE issueCurrentGeneration
    BY <1>2, IssueKeeps
  <1> QED
    BY <1>1, <1>2, EvaluationKeeps, WorkKeeps DEF AuthorizationNext

(* AuthorizationInv is an invariant of the generation coordinator.            *)
THEOREM AuthorizationInvariant == AuthorizationSpec => []AuthorizationInv
  BY AuthorizationInvInit, AuthorizationInvNext, PTL DEF AuthorizationSpec

(* Type correctness of the slot, its lock and the authorizations.             *)
THEOREM AuthorizationTypeCorrect == AuthorizationSpec => []AuthorizationTypeOK
  <1>1. AuthorizationInv => AuthorizationTypeOK
    BY DEF AuthorizationInv
  <1> QED
    BY <1>1, AuthorizationInvariant, PTL

(* Renders, installs and executions of the coordinator go on only under the   *)
(* newest resolution, an execution is alone, and no resolution executes       *)
(* twice, however often its copies are presented again.                       *)
THEOREM NewestResolutionOnly == AuthorizationSpec => []CurrentResolutionOnly
  <1>1. AuthorizationInv => CurrentResolutionOnly
    <2> SUFFICES ASSUME AuthorizationInv PROVE CurrentResolutionOnly
      OBVIOUS
    <2>1. \A w \in working : slot.occupied /\ slot.epoch = w[1] /\ slot.sequence = w[1]
      BY DEF AuthorizationInv, SlotIsNewest, WorkHolds
    <2>2. ASSUME NEW w \in working, NEW x \in working, w[2] = "execution"
          PROVE  x = w
      <3>1. w \in Epoch \X (Lease \cup {"execution"})
            /\ x \in Epoch \X (Lease \cup {"execution"})
        BY DEF AuthorizationInv, AuthorizationTypeOK
      <3>2. x[1] = w[1] /\ x[2] = "execution"
        BY <2>1, <2>2 DEF AuthorizationInv, WorkHolds
      <3> QED
        BY <2>2, <3>1, <3>2
    <2>3. \A e \in Epoch : executed[e] <= 1
      BY DEF AuthorizationInv, EvaluatedOnce
    <2> QED
      BY <2>1, <2>2, <2>3 DEF CurrentResolutionOnly
  <1> QED
    BY <1>1, AuthorizationInvariant, PTL

-----------------------------------------------------------------------------
(* The operation: its inductive invariant.                                 *)

\* Dispatchers with a step marked running that they have not settled.
Busy(p) == run[p].at \in {"invoke", "invoking", "ran"}

Good == {"succeeded", "degraded"}

\* What the holder of the fence saw last is what the journal holds, and no step
\* but its own is running.
FenceSees ==
    \A p \in Caller : record.token = p /\ run[p].at # "idle" =>
        /\ record.steps = run[p].seen
        /\ \A c \in Child : record.steps[c] = "running" => Busy(p) /\ c = run[p].child

\* At most one dispatcher has a step marked running, fenced or not.
BusyAlone ==
    \A p \in Caller : Busy(p) =>
        /\ record.steps[run[p].child] = "running"
        /\ \A q \in Caller : Busy(q) => q = p

\* An execution in flight is the only one, and a dispatcher that is busy
\* meanwhile is the one waiting for it.
WorkFenced ==
    \A w \in work :
        /\ record.steps[w[2]] = "running"
        /\ work = {w}
        /\ \A q \in Caller : Busy(q) =>
              q = w[1] /\ run[q].at = "invoking" /\ run[q].child = w[2]

\* A step recorded or about to be recorded as succeeded did succeed.
SuccessIsTrue ==
    /\ \A c \in Child : record.steps[c] = "succeeded" => last[c] = "succeeded"
    /\ \A p \in Caller : run[p].at = "ran" /\ run[p].result = "succeeded" =>
          last[run[p].child] = "succeeded"

\* Whoever may still invoke a child took its platform first, or closed its gate.
PlatformTaken ==
    \A p \in Caller :
        /\ Busy(p) \/ (run[p].at = "loop" /\ record.token = p) =>
              \A d \in Platform \ run[p].todo : run[p].gate \/ last[d] \in Good
        /\ Busy(p) => /\ run[p].child \in run[p].todo
                      /\ \A d \in run[p].todo : Rank[run[p].child] <= Rank[d]
        /\ run[p].at = "ran" /\ run[p].child \in Platform =>
              run[p].gate \/ last[run[p].child] \in Good

\* Nothing is left to attempt and something failed.
Partial(steps) ==
    /\ \A c \in Child : steps[c] \in {"succeeded", "failed"}
    /\ \E c \in Child : steps[c] = "failed"

\* The operation's states mean what they say, in the journal and in memory.
StatesTrue ==
    /\ record.state = "completed" =>
          record.token = Nobody /\ \A c \in Child : record.steps[c] = "succeeded"
    /\ record.state = "reconcile-required" => Partial(record.steps)
    /\ \A p \in Caller :
          /\ run[p].state = "reconcile-required" => Partial(run[p].seen)
          /\ run[p].at # "idle" => run[p].answer = "none"

OperationInv ==
    /\ OperationTypeOK
    /\ FenceSees
    /\ BusyAlone
    /\ WorkFenced
    /\ SuccessIsTrue
    /\ PlatformTaken
    /\ StatesTrue
    /\ PlatformFirst
    /\ AnswerIsTrue

-----------------------------------------------------------------------------
(* The operation: the order of its children.                               *)

(* The requirement IDs have a least one.                                      *)
LEMMA LeastChild ==
  ASSUME NEW T, T \subseteq Child, T # {}
  PROVE  \E c \in T : \A d \in T : c <= d
  <1>1. T \subseteq Nat
    BY OperationAssumption
  <1>2. PICK c \in T : \A d \in T : ~(<<d, c>> \in OpToRel(<, Nat))
    BY <1>1, WFMin, NatLessThanWellFounded
  <1>3. \A d \in T : ~(d < c)
    BY <1>1, <1>2 DEF OpToRel
  <1> QED
    BY <1>1, <1>3

(* NextChild is the child that partitionOwnerRequest's order puts first.      *)
LEMMA NextChildIsFirst ==
  ASSUME NEW p \in Caller, run[p].todo \subseteq Child, run[p].todo # {}
  PROVE  /\ NextChild(p) \in run[p].todo
         /\ \A d \in run[p].todo : Rank[NextChild(p)] <= Rank[d]
  <1> DEFINE T == run[p].todo
             R(k) == {c \in T : Rank[c] = k}
  <1>1. \A c \in T : Rank[c] \in 0..2 /\ c \in Nat
    BY OperationAssumption
  <1>2. PICK k \in 0..2 : R(k) # {} /\ \A d \in T : k <= Rank[d]
    <2>1. CASE R(0) # {}
      BY <1>1, <2>1
    <2>2. CASE R(0) = {} /\ R(1) # {}
      BY <1>1, <2>2
    <2>3. CASE R(0) = {} /\ R(1) = {}
      BY <1>1, <2>3
    <2> QED
      BY <2>1, <2>2, <2>3
  <1>3. PICK m \in R(k) : \A d \in R(k) : m <= d
    BY <1>2, LeastChild
  <1>4. m \in T /\ \A d \in T \ {m} : Before(m, d)
    <2> SUFFICES ASSUME NEW d \in T \ {m} PROVE Before(m, d)
      OBVIOUS
    <2>1. CASE Rank[d] = k
      BY <1>1, <1>3, <2>1 DEF Before
    <2>2. CASE Rank[d] # k
      BY <1>1, <1>2, <2>2 DEF Before
    <2> QED
      BY <2>1, <2>2
  <1>5. NextChild(p) \in T /\ \A d \in T \ {NextChild(p)} : Before(NextChild(p), d)
    BY <1>4 DEF NextChild
  <1> QED
    BY <1>1, <1>5 DEF Before

-----------------------------------------------------------------------------
(* The operation: every step keeps the invariant.                          *)

RunType == [at : {"idle", "loop", "invoke", "invoking", "ran"},
            todo : SUBSET Child, seen : [Child -> StepState],
            state : OperationState \ {"absent"}, gate : BOOLEAN,
            failed : BOOLEAN, child : Child \cup {0}, result : Result,
            answer : Answer]

RecordType == [state : OperationState, token : Caller \cup {Nobody},
               steps : [Child -> StepState]]

(* What the type invariant says of the journal and of one dispatcher.         *)
LEMMA OperationTypes ==
  ASSUME OperationInv
  PROVE  /\ record \in RecordType /\ run \in [Caller -> RunType]
         /\ \A p \in Caller :
               /\ Busy(p) => run[p].child \in Child
               /\ run[p].child = 0 <=> run[p].at \in {"idle", "loop"}
         /\ work \subseteq Caller \X Child
         /\ last \in [Child -> Result]
         /\ disturbed \in 0..MaxDisturbances
  <1>1. /\ record \in RecordType /\ run \in [Caller -> RunType]
        /\ work \subseteq Caller \X Child
        /\ last \in [Child -> Result]
        /\ disturbed \in 0..MaxDisturbances
        /\ \A p \in Caller : run[p].child = 0 <=> run[p].at \in {"idle", "loop"}
    BY DEF OperationInv, OperationTypeOK, RunType, RecordType
  <1>2. \A p \in Caller : run[p].child \in Child \cup {0}
    BY <1>1 DEF RunType
  <1> QED
    BY <1>1, <1>2 DEF Busy

(* What executePrepared leaves behind when it returns.                        *)
LEMMA ReturnedIs ==
  ASSUME NEW r \in RunType, NEW answer \in Answer
  PROVE  /\ Returned(r, answer) \in RunType
         /\ Returned(r, answer).at = "idle" /\ Returned(r, answer).child = 0
         /\ Returned(r, answer).answer = answer
         /\ Returned(r, answer).seen = r.seen /\ Returned(r, answer).state = r.state
  <1>1. "none" \in Result
    BY DEF Result
  <1>2. Returned(r, answer) \in RunType
    BY <1>1 DEF Returned, RunType
  <1> QED
    BY <1>2 DEF Returned, RunType

(* executePrepared returns: the dispatcher is out, its answer stays.          *)
LEMMA ReturnKeeps ==
  ASSUME OperationInv, NEW p \in Caller, NEW answer \in Answer,
         Return(p, answer), UNCHANGED <<work, last>>,
         disturbed' \in 0..MaxDisturbances, record' \in RecordType,
         record'.steps = record.steps,
         \/ record'.token = record.token
         \/ record.state # "completed" /\ record'.token \in {p, Nobody},
         \/ record'.state = record.state
         \/ record.state = "absent" /\ record'.state = "running"
         \/ /\ record'.state = "completed" /\ record'.token = Nobody
            /\ \A c \in Child : record.steps[c] = "succeeded",
         answer = "outcome" => /\ record'.state = "completed"
                               /\ \A c \in Child : record.steps[c] = "succeeded",
         answer = "reconcile" => Partial(run[p].seen)
  PROVE  OperationInv'
  <1>1. /\ record \in RecordType /\ run \in [Caller -> RunType]
        /\ work \subseteq Caller \X Child
        /\ last \in [Child -> Result]
    BY OperationTypes
  <1>2. /\ run' \in [Caller -> RunType]
        /\ run'[p].at = "idle" /\ run'[p].child = 0 /\ run'[p].answer = answer
        /\ run'[p].seen = run[p].seen /\ run'[p].state = run[p].state
        /\ \A q \in Caller : q # p => run'[q] = run[q]
    BY <1>1, ReturnedIs DEF Return, Set
  <1>3. OperationTypeOK'
    <2>1. \A q \in Caller : run'[q].child = 0 <=> run'[q].at \in {"idle", "loop"}
      BY <1>2 DEF OperationInv, OperationTypeOK
    <2>2. /\ record' \in RecordType /\ work' \subseteq Caller \X Child
          /\ last' \in [Child -> Result] /\ disturbed' \in 0..MaxDisturbances
      BY <1>1
    <2> QED
      BY <1>2, <2>1, <2>2 DEF OperationTypeOK, RunType, RecordType
  <1>4. ~Busy(p)' /\ \A q \in Caller : q # p => (Busy(q)' <=> Busy(q))
    BY <1>2 DEF Busy
  <1>5. FenceSees'
    <2> SUFFICES ASSUME NEW q \in Caller, record'.token = q, run'[q].at # "idle"
                 PROVE  /\ record'.steps = run'[q].seen
                        /\ \A c \in Child : record'.steps[c] = "running" =>
                              Busy(q)' /\ c = run'[q].child
      BY DEF FenceSees
    <2>1. q # p /\ run'[q] = run[q] /\ record.token = q
      BY <1>2, OperationAssumption
    <2> QED
      BY <1>4, <2>1 DEF OperationInv, FenceSees
  <1>6. BusyAlone' /\ WorkFenced' /\ PlatformFirst'
    BY <1>2, <1>4 DEF OperationInv, BusyAlone, WorkFenced, PlatformFirst
  <1>7. SuccessIsTrue'
    BY <1>2 DEF OperationInv, SuccessIsTrue
  <1>8. PlatformTaken'
    <2>1. \A q \in Caller : q # p /\ record'.token = q => record.token = q
      BY OperationAssumption
    <2> QED
      BY <1>2, <1>4, <2>1 DEF OperationInv, PlatformTaken
  <1>9. StatesTrue'
    <2>1. record'.state = "completed" =>
            record'.token = Nobody /\ \A c \in Child : record'.steps[c] = "succeeded"
      BY DEF OperationInv, StatesTrue
    <2> QED
      BY <1>2, <2>1 DEF OperationInv, StatesTrue, Partial
  <1>10. AnswerIsTrue'
    <2> SUFFICES ASSUME NEW q \in Caller
                 PROVE  /\ run'[q].answer = "outcome" =>
                              /\ record'.state = "completed"
                              /\ \A c \in Child : last[c] = "succeeded"
                        /\ run'[q].answer = "reconcile" => Partial(run'[q].seen)
      BY DEF AnswerIsTrue, Partial
    <2>1. CASE q = p
      BY <1>2, <2>1 DEF OperationInv, SuccessIsTrue
    <2>2. CASE q # p
      <3>1. record.state = "completed" => record'.state = "completed"
        OBVIOUS
      <3> QED
        BY <1>2, <2>2, <3>1 DEF OperationInv, AnswerIsTrue, Partial
    <2> QED
      BY <2>1, <2>2
  <1> QED
    BY <1>3, <1>5, <1>6, <1>7, <1>8, <1>9, <1>10 DEF OperationInv

(* A commit by the holder of the fence finds nobody else at work.             *)
LEMMA CommitterAlone ==
  ASSUME OperationInv, NEW p \in Caller, record.token = p,
         run[p].at \in {"loop", "ran"}
  PROVE  /\ work = {} /\ \A q \in Caller : q # p => ~Busy(q)
         /\ run[p].at = "loop" => \A c \in Child : record.steps[c] # "running"
         /\ record.state # "completed"
         /\ \A q \in Caller : run[q].answer # "outcome"
  <1>1. run[p].at = "loop" => \A c \in Child : record.steps[c] # "running"
    BY DEF OperationInv, FenceSees, Busy
  <1>2. \A q \in Caller : q # p => ~Busy(q)
    BY <1>1, OperationTypes DEF OperationInv, BusyAlone, Busy
  <1>3. work = {}
    <2> SUFFICES ASSUME NEW w \in work PROVE FALSE
      OBVIOUS
    <2>1. w[2] \in Child /\ record.steps[w[2]] = "running"
      BY OperationTypes DEF OperationInv, WorkFenced
    <2>2. Busy(p) => run[p].at = "invoking"
      BY DEF OperationInv, WorkFenced
    <2> QED
      BY <1>1, <2>1, <2>2 DEF Busy
  <1>4. record.state # "completed"
    BY OperationAssumption DEF OperationInv, StatesTrue
  <1> QED
    BY <1>1, <1>2, <1>3, <1>4 DEF OperationInv, AnswerIsTrue

(* What CommitStep writes.                                                    *)
LEMMA CommittedIs ==
  ASSUME record \in RecordType, NEW c \in Child, NEW to \in StepState
  PROVE  /\ Committed(c, to) \in RecordType
         /\ Committed(c, to).token = record.token
         /\ Committed(c, to).steps = [record.steps EXCEPT ![c] = to]
         /\ Committed(c, to).state \in {"running", "reconcile-required"}
         /\ Committed(c, to).state = "reconcile-required" =>
               Partial(Committed(c, to).steps)
  <1> DEFINE steps == [record.steps EXCEPT ![c] = to]
  <1>1. steps \in [Child -> StepState]
    BY DEF RecordType
  <1>2. /\ OperationStateForSteps(steps) \in {"running", "reconcile-required"}
        /\ OperationStateForSteps(steps) = "reconcile-required" => Partial(steps)
    BY <1>1 DEF OperationStateForSteps, Partial, StepState
  <1> HIDE DEF steps
  <1>3. Committed(c, to) = [record EXCEPT !.steps = steps,
                                          !.state = OperationStateForSteps(steps)]
    BY DEF Committed, steps
  <1>4. /\ Committed(c, to) \in RecordType
        /\ Committed(c, to).token = record.token
        /\ Committed(c, to).steps = steps
        /\ Committed(c, to).state = OperationStateForSteps(steps)
    BY <1>1, <1>2, <1>3 DEF RecordType, OperationState
  <1> QED
    BY <1>2, <1>4 DEF steps

(* An accepted commit: the dispatcher returns, goes on to invoke the child it *)
(* marked running, or goes on with its loop after the child is settled.       *)
LEMMA CommitKeeps ==
  ASSUME OperationInv, NEW p \in Caller, NEW c \in Child, NEW to \in StepState,
         NEW r \in RunType, record.token = p,
         \/ run[p].at = "loop" /\ to = "running"
         \/ /\ run[p].at = "ran" /\ c = run[p].child /\ to \in {"succeeded", "failed"}
            /\ to = "succeeded" => run[p].result = "succeeded",
         record' = Committed(c, to), run' = [run EXCEPT ![p] = r],
         UNCHANGED <<work, last>>, disturbed' \in 0..MaxDisturbances,
         r.state = "reconcile-required" => Partial(r.seen),
         \/ /\ r.at = "idle" /\ r.child = 0
            /\ r.answer \notin {"outcome", "reconcile"}
         \/ /\ r.at = "invoke" /\ r.child = c /\ to = "running" /\ r.answer = "none"
            /\ r.seen = [record.steps EXCEPT ![c] = to]
            /\ r.todo = run[p].todo /\ r.gate = run[p].gate
            /\ c \in run[p].todo /\ \A d \in run[p].todo : Rank[c] <= Rank[d]
         \/ /\ r.at = "loop" /\ r.child = 0 /\ to # "running" /\ r.answer = "none"
            /\ r.seen = [record.steps EXCEPT ![c] = to]
            /\ r.todo = run[p].todo \ {c} /\ r.gate = run[p].gate
  PROVE  OperationInv'
  <1>1. /\ record \in RecordType /\ run \in [Caller -> RunType]
        /\ last \in [Child -> Result]
    BY OperationTypes
  <1>2. /\ run' \in [Caller -> RunType] /\ run'[p] = r
        /\ \A q \in Caller : q # p => run'[q] = run[q]
    BY <1>1
  <1>3. /\ record' \in RecordType /\ record'.token = p
        /\ record'.steps = [record.steps EXCEPT ![c] = to]
        /\ record'.state \in {"running", "reconcile-required"}
        /\ record'.state = "reconcile-required" => Partial(record'.steps)
    BY <1>1, CommittedIs
  <1>4. /\ work' = {} /\ \A q \in Caller : q # p => ~Busy(q)'
        /\ run[p].at = "loop" => \A d \in Child : record.steps[d] # "running"
        /\ \A q \in Caller : run[q].answer # "outcome"
    BY <1>2, CommitterAlone DEF Busy
  <1>5. /\ record'.steps[c] = to
        /\ \A d \in Child : d # c => record'.steps[d] = record.steps[d]
    BY <1>1, <1>3 DEF RecordType
  <1>6. \A d \in Child : record'.steps[d] = "running" => d = c /\ to = "running"
    <2>1. CASE run[p].at = "loop"
      BY <1>4, <1>5, <2>1
    <2>2. CASE run[p].at = "ran"
      BY <1>5, <2>2 DEF OperationInv, FenceSees
    <2> QED
      BY <2>1, <2>2
  <1>7. OperationTypeOK'
    <2>1. \A q \in Caller : run'[q].child = 0 <=> run'[q].at \in {"idle", "loop"}
      BY <1>2, OperationAssumption, OperationTypes
    <2> QED
      BY <1>2, <1>3, <2>1 DEF OperationInv, OperationTypeOK, RunType, RecordType
  <1>8. FenceSees'
    BY <1>2, <1>3, <1>6, OperationAssumption DEF FenceSees, Busy
  <1>9. BusyAlone' /\ WorkFenced' /\ PlatformFirst'
    BY <1>2, <1>4, <1>5 DEF BusyAlone, WorkFenced, PlatformFirst, Busy
  <1>10. SuccessIsTrue'
    <2>1. to = "succeeded" => last[c] = "succeeded"
      BY DEF OperationInv, SuccessIsTrue
    <2>2. \A q \in Caller : run'[q].at # "ran"
      BY <1>2, <1>4 DEF Busy
    <2> QED
      BY <1>5, <2>1, <2>2 DEF OperationInv, SuccessIsTrue
  <1>11. PlatformTaken'
    <2>1. \A q \in Caller : q # p =>
             ~Busy(q)' /\ run'[q].at # "ran" /\ record'.token # q
      BY <1>3, <1>4 DEF Busy
    <2>2. \A d \in Platform \ run[p].todo : run[p].gate \/ last[d] \in Good
      BY DEF OperationInv, PlatformTaken, Busy
    <2>3. run[p].at = "ran" /\ c \in Platform => run[p].gate \/ last[c] \in Good
      BY DEF OperationInv, PlatformTaken
    <2>4. CASE r.at = "idle"
      BY <1>2, <2>1, <2>4 DEF PlatformTaken, Busy
    <2>5. CASE r.at = "invoke"
      BY <1>2, <2>1, <2>2, <2>5 DEF PlatformTaken, Busy
    <2>6. CASE r.at = "loop"
      BY <1>2, <2>1, <2>2, <2>3, <2>6 DEF PlatformTaken, Busy
    <2> QED
      BY <2>4, <2>5, <2>6
  <1>12. StatesTrue' /\ AnswerIsTrue'
    BY <1>2, <1>3, <1>4 DEF OperationInv, StatesTrue, AnswerIsTrue, Partial
  <1> QED
    BY <1>7, <1>8, <1>9, <1>10, <1>11, <1>12 DEF OperationInv

(* Commit, for a dispatcher that goes on with `r` when it is confirmed.       *)
LEMMA CommitCases ==
  ASSUME OperationInv, NEW p \in Caller, NEW c \in Child, NEW to \in StepState,
         NEW r \in RunType, Commit(p, c, to, r), UNCHANGED <<work, last>>,
         \/ run[p].at = "loop" /\ to = "running"
         \/ /\ run[p].at = "ran" /\ c = run[p].child /\ to \in {"succeeded", "failed"}
            /\ to = "succeeded" => run[p].result = "succeeded",
         \/ /\ r.at = "idle" /\ r.child = 0
            /\ r.answer \notin {"outcome", "reconcile"}
         \/ /\ r.at = "invoke" /\ r.child = c /\ to = "running" /\ r.answer = "none"
            /\ r.todo = run[p].todo /\ r.gate = run[p].gate
            /\ c \in run[p].todo /\ \A d \in run[p].todo : Rank[c] <= Rank[d]
         \/ /\ r.at = "loop" /\ r.child = 0 /\ to # "running" /\ r.answer = "none"
            /\ r.todo = run[p].todo \ {c} /\ r.gate = run[p].gate
  PROVE  OperationInv'
  <1>1. /\ record \in RecordType /\ run \in [Caller -> RunType] /\ run[p] \in RunType
        /\ disturbed \in 0..MaxDisturbances /\ MaxDisturbances \in Nat
    BY OperationTypes, OperationAssumption
  <1>2. /\ Committed(c, to) \in RecordType
        /\ Committed(c, to).steps = [record.steps EXCEPT ![c] = to]
        /\ Committed(c, to).state \in {"running", "reconcile-required"}
        /\ Committed(c, to).state = "reconcile-required" =>
              Partial(Committed(c, to).steps)
    BY <1>1, CommittedIs
  <1>3. "refused" \in Answer
    BY DEF Answer
  <1>4. CASE /\ CommitAccepted(p, c, to) /\ Confirmed(p, c, to)
             /\ record' = Committed(c, to)
             /\ Set(p, [r EXCEPT !.seen = Committed(c, to).steps,
                                 !.state = Committed(c, to).state])
             /\ UNCHANGED disturbed
    <2> DEFINE t == [r EXCEPT !.seen = Committed(c, to).steps,
                              !.state = Committed(c, to).state]
    <2>1. /\ t \in RunType /\ t.at = r.at /\ t.child = r.child /\ t.answer = r.answer
          /\ t.todo = r.todo /\ t.gate = r.gate
          /\ t.seen = Committed(c, to).steps /\ t.state = Committed(c, to).state
      BY <1>2 DEF RunType, RecordType, OperationState
    <2>2. run' = [run EXCEPT ![p] = t]
      BY <1>4 DEF Set
    <2>3. record.token = p /\ record' = Committed(c, to) /\ disturbed' = disturbed
      BY <1>4 DEF CommitAccepted
    <2> HIDE DEF t
    <2>4. t.state = "reconcile-required" => Partial(t.seen)
      BY <1>2, <2>1
    <2>5. t.seen = [record.steps EXCEPT ![c] = to] /\ disturbed' \in 0..MaxDisturbances
      BY <1>1, <1>2, <2>1, <2>3
    <2>6. \/ /\ t.at = "idle" /\ t.child = 0
             /\ t.answer \notin {"outcome", "reconcile"}
          \/ /\ t.at = "invoke" /\ t.child = c /\ to = "running" /\ t.answer = "none"
             /\ t.todo = run[p].todo /\ t.gate = run[p].gate
             /\ c \in run[p].todo /\ \A d \in run[p].todo : Rank[c] <= Rank[d]
          \/ /\ t.at = "loop" /\ t.child = 0 /\ to # "running" /\ t.answer = "none"
             /\ t.todo = run[p].todo \ {c} /\ t.gate = run[p].gate
      BY <2>1
    <2> QED
      BY <2>1, <2>2, <2>3, <2>4, <2>5, <2>6, CommitKeeps
  <1>5. CASE /\ CommitAccepted(p, c, to)
             /\ record' = Committed(c, to)
             /\ Return(p, "refused")
             /\ IF Confirmed(p, c, to) THEN Disturb ELSE UNCHANGED disturbed
    <2>1. /\ Returned(run[p], "refused") \in RunType
          /\ Returned(run[p], "refused").at = "idle"
          /\ Returned(run[p], "refused").child = 0
          /\ Returned(run[p], "refused").answer = "refused"
          /\ Returned(run[p], "refused").seen = run[p].seen
          /\ Returned(run[p], "refused").state = run[p].state
      BY <1>1, <1>3, ReturnedIs
    <2>2. run[p].state = "reconcile-required" => Partial(run[p].seen)
      BY DEF OperationInv, StatesTrue
    <2>3. disturbed' \in 0..MaxDisturbances
      BY <1>1, <1>5 DEF Disturb
    <2>4. record.token = p /\ run' = [run EXCEPT ![p] = Returned(run[p], "refused")]
      BY <1>5 DEF CommitAccepted, Return, Set
    <2> QED
      BY <1>5, <2>1, <2>2, <2>3, <2>4, CommitKeeps
  <1>6. CASE /\ ~CommitAccepted(p, c, to)
             /\ Return(p, "refused")
             /\ UNCHANGED <<record, disturbed>>
    BY <1>1, <1>3, <1>6, ReturnKeeps
  <1> QED
    BY <1>4, <1>5, <1>6 DEF Commit

(* Begin rotates the token; it acquires the operation only when no step of it *)
(* remains running, and its own view is then the journal's.                   *)
LEMMA BeginKeeps ==
  ASSUME OperationInv, NEW p \in Caller, Begin(p) \/ BeginUnconfirmed(p)
  PROVE  OperationInv'
  <1>1. /\ record \in RecordType /\ run \in [Caller -> RunType]
        /\ last \in [Child -> Result]
        /\ disturbed \in 0..MaxDisturbances /\ MaxDisturbances \in Nat
        /\ run[p].at = "idle" /\ record.state # "completed"
        /\ UNCHANGED <<work, last>>
    BY OperationTypes, OperationAssumption DEF Begin, BeginUnconfirmed
  <1>2. disturbed' \in 0..MaxDisturbances
    BY <1>1 DEF Begin, BeginUnconfirmed, Disturb
  <1>3. /\ Reserved(p) \in RecordType /\ Reserved(p).token = p
        /\ Reserved(p).steps = record.steps
        /\ Reserved(p).state = IF record.state = "absent" THEN "running" ELSE record.state
    BY <1>1 DEF Reserved, RecordType, OperationState
  <1>4. "refused" \in Answer
    BY DEF Answer
  <1>5. CASE BeginUnconfirmed(p)
    <2>1. /\ record' \in RecordType /\ record'.token = Nobody
          /\ record'.steps = record.steps /\ record'.state = Reserved(p).state
      BY <1>3, <1>5 DEF BeginUnconfirmed, RecordType
    <2> QED
      BY <1>1, <1>2, <1>3, <1>4, <1>5, <2>1, ReturnKeeps DEF BeginUnconfirmed
  <1>6. CASE Begin(p) /\ \E c \in Child : record'.steps[c] = "running"
    BY <1>1, <1>2, <1>3, <1>4, <1>6, ReturnKeeps DEF Begin
  <1>7. CASE Begin(p) /\ ~\E c \in Child : record'.steps[c] = "running"
    <2> DEFINE r == [at |-> "loop", todo |-> Child, seen |-> record'.steps,
                     state |-> record'.state, gate |-> FALSE, failed |-> FALSE,
                     child |-> 0, result |-> "none", answer |-> "none"]
    <2>1. record' = Reserved(p) /\ run' = [run EXCEPT ![p] = r]
      BY <1>7 DEF Begin, Set
    <2>2. /\ r.at = "loop" /\ r.todo = Child /\ r.seen = record'.steps
          /\ r.state = record'.state /\ r.child = 0 /\ r.answer = "none"
      OBVIOUS
    <2>3. r \in RunType
      BY <1>1, <1>3, <2>1 DEF RunType, RecordType, OperationState, Result, Answer
    <2> HIDE DEF r
    <2>4. /\ run' \in [Caller -> RunType] /\ run'[p] = r
          /\ \A q \in Caller : q # p => run'[q] = run[q]
      BY <1>1, <2>1, <2>3
    <2>5. \A c \in Child : record.steps[c] # "running"
      BY <1>3, <1>7, <2>1
    <2>6. work = {} /\ \A q \in Caller : ~Busy(q)
      <3>1. \A q \in Caller : ~Busy(q)
        BY <2>5, OperationTypes DEF OperationInv, BusyAlone
      <3>2. \A w \in work : FALSE
        BY <2>5, OperationTypes DEF OperationInv, WorkFenced
      <3> QED
        BY <3>1, <3>2
    <2>7. \A q \in Caller : ~Busy(q)'
      BY <2>2, <2>4, <2>6 DEF Busy
    <2>8. OperationTypeOK'
      <3>1. \A q \in Caller : run'[q].child = 0 <=> run'[q].at \in {"idle", "loop"}
        BY <2>2, <2>4, OperationTypes
      <3> QED
        BY <1>1, <1>2, <1>3, <2>1, <2>4, <2>6, <3>1
           DEF OperationTypeOK, RunType, RecordType
    <2>9. FenceSees' /\ BusyAlone' /\ WorkFenced' /\ PlatformFirst'
      BY <1>1, <1>3, <2>1, <2>2, <2>4, <2>5, <2>6, <2>7
         DEF FenceSees, BusyAlone, WorkFenced, PlatformFirst
    <2>10. SuccessIsTrue'
      BY <1>1, <1>3, <2>1, <2>7 DEF OperationInv, SuccessIsTrue, Busy
    <2>11. PlatformTaken'
      <3>1. Platform \subseteq Child
        BY OperationAssumption
      <3>2. \A q \in Caller : q # p => record'.token # q
        BY <1>3, <2>1
      <3>3. \A q \in Caller : run'[q].at # "ran"
        BY <2>7 DEF Busy
      <3> QED
        BY <2>2, <2>4, <2>7, <3>1, <3>2, <3>3 DEF PlatformTaken
    <2>12. StatesTrue'
      BY <1>1, <1>3, <2>1, <2>2, <2>4 DEF OperationInv, StatesTrue, Partial
    <2>13. AnswerIsTrue'
      <3>1. \A q \in Caller : run[q].answer # "outcome"
        BY <1>1 DEF OperationInv, AnswerIsTrue
      <3> QED
        BY <2>2, <2>4, <3>1 DEF OperationInv, AnswerIsTrue
    <2> QED
      BY <2>8, <2>9, <2>10, <2>11, <2>12, <2>13 DEF OperationInv
  <1> QED
    BY <1>5, <1>6, <1>7

(* Replay, SettlePartial, Finalize and Abandon return.                        *)
LEMMA EndKeeps ==
  ASSUME OperationInv, NEW p \in Caller,
         Replay(p) \/ SettlePartial(p) \/ Finalize(p) \/ Abandon(p)
  PROVE  OperationInv'
  <1>1. /\ record \in RecordType
        /\ disturbed \in 0..MaxDisturbances /\ MaxDisturbances \in Nat
    BY OperationTypes, OperationAssumption
  <1>2. {"outcome", "refused", "reconcile"} \subseteq Answer
    BY DEF Answer
  <1>3. CASE Replay(p)
    BY <1>1, <1>2, <1>3, ReturnKeeps DEF Replay
  <1>4. CASE SettlePartial(p)
    <2>1. run[p].state = "reconcile-required" => Partial(run[p].seen)
      BY DEF OperationInv, StatesTrue
    <2> QED
      BY <1>1, <1>2, <1>4, <2>1, ReturnKeeps DEF SettlePartial
  <1>5. CASE Abandon(p)
    <2>1. disturbed' \in 0..MaxDisturbances
      BY <1>1, <1>5 DEF Abandon, Disturb
    <2> QED
      BY <1>1, <1>2, <1>5, <2>1, ReturnKeeps DEF Abandon
  <1>6. CASE Finalize(p)
    <2>1. CASE ~FinalizeAccepted(p)
      BY <1>1, <1>2, <1>6, <2>1, ReturnKeeps DEF Finalize
    <2>2. CASE FinalizeAccepted(p)
      <3>1. record' = [record EXCEPT !.state = "completed", !.token = Nobody]
            /\ UNCHANGED <<work, last>>
        BY <1>6, <2>2 DEF Finalize
      <3>2. /\ record' \in RecordType /\ record'.steps = record.steps
            /\ record'.state = "completed" /\ record'.token = Nobody
        BY <1>1, <3>1 DEF RecordType, OperationState
      <3>3. \A c \in Child : record.steps[c] = "succeeded"
        BY <2>2 DEF FinalizeAccepted, ValidSnapshot
      <3>4. disturbed' \in 0..MaxDisturbances
        BY <1>1, <1>6, <2>2 DEF Finalize, Disturb
      <3>5. record.state # "completed"
        BY <2>2, OperationAssumption DEF FinalizeAccepted, OperationInv, StatesTrue
      <3>6. Return(p, "outcome") \/ Return(p, "refused")
        BY <1>6, <2>2 DEF Finalize
      <3> QED
        BY <1>2, <3>1, <3>2, <3>3, <3>4, <3>5, <3>6, ReturnKeeps
    <2> QED
      BY <2>1, <2>2
  <1> QED
    BY <1>3, <1>4, <1>5, <1>6

(* A succeeded child is passed over: its platform, if it is one, did run.     *)
LEMMA SkipKeeps ==
  ASSUME OperationInv, NEW p \in Caller, SkipSucceeded(p)
  PROVE  OperationInv'
  <1> DEFINE c == NextChild(p)
             r == [run[p] EXCEPT !.todo = @ \ {c}]
  <1>1. /\ run \in [Caller -> RunType] /\ run[p] \in RunType
        /\ run[p].at = "loop" /\ run[p].seen[c] = "succeeded"
        /\ run' = [run EXCEPT ![p] = r]
        /\ UNCHANGED <<record, work, last, disturbed>>
    BY OperationTypes DEF SkipSucceeded, Set
  <1>2. /\ r \in RunType /\ r.todo = run[p].todo \ {c} /\ r.at = "loop"
        /\ r.child = run[p].child /\ r.seen = run[p].seen /\ r.state = run[p].state
        /\ r.gate = run[p].gate /\ r.result = run[p].result /\ r.answer = run[p].answer
    BY <1>1 DEF RunType
  <1>3. c \in Child
    <2>1. run[p].todo \subseteq Child /\ run[p].todo # {}
      BY <1>1 DEF RunType, SkipSucceeded
    <2> QED
      BY <2>1, NextChildIsFirst
  <1> HIDE DEF r, c
  <1>4. /\ run' \in [Caller -> RunType] /\ run'[p] = r
        /\ \A q \in Caller : q # p => run'[q] = run[q]
    BY <1>1, <1>2
  <1>5. \A q \in Caller : Busy(q)' <=> Busy(q)
    BY <1>1, <1>2, <1>4 DEF Busy
  <1>6. OperationTypeOK'
    <2>1. \A q \in Caller : run'[q].child = 0 <=> run'[q].at \in {"idle", "loop"}
      BY <1>1, <1>2, <1>4, OperationTypes
    <2> QED
      BY <1>1, <1>4, <2>1 DEF OperationInv, OperationTypeOK, RunType
  <1>7. FenceSees'
    BY <1>1, <1>2, <1>4, <1>5 DEF OperationInv, FenceSees
  <1>8. BusyAlone' /\ WorkFenced' /\ PlatformFirst'
    <2>1. ~Busy(p)
      BY <1>1 DEF Busy
    <2> QED
      BY <1>1, <1>4, <1>5, <2>1
         DEF OperationInv, BusyAlone, WorkFenced, PlatformFirst
  <1>9. SuccessIsTrue'
    BY <1>1, <1>2, <1>4 DEF OperationInv, SuccessIsTrue
  <1>10. PlatformTaken'
    <2>1. record.token = p => last[c] \in Good
      BY <1>1, <1>3 DEF OperationInv, FenceSees, SuccessIsTrue, Good
    <2>2. ASSUME record.token = p, NEW d \in Platform \ r.todo
          PROVE  r.gate \/ last[d] \in Good
      BY <1>1, <1>2, <2>1, <2>2 DEF OperationInv, PlatformTaken
    <2>3. ~Busy(p) /\ run'[p].at = "loop"
      BY <1>1, <1>2, <1>4 DEF Busy
    <2> QED
      BY <1>1, <1>4, <1>5, <2>2, <2>3 DEF OperationInv, PlatformTaken
  <1>11. StatesTrue' /\ AnswerIsTrue'
    BY <1>1, <1>2, <1>4 DEF OperationInv, StatesTrue, AnswerIsTrue
  <1> QED
    BY <1>6, <1>7, <1>8, <1>9, <1>10, <1>11 DEF OperationInv

(* A child is marked running only in the order of the children, and settled   *)
(* by the dispatcher whose executor ran it.                                   *)
LEMMA CommitStepsKeep ==
  ASSUME OperationInv, NEW p \in Caller,
         CommitRunning(p) \/ CommitFailed(p) \/ CommitSucceeded(p)
  PROVE  OperationInv'
  <1>1. /\ run[p] \in RunType /\ record \in RecordType
        /\ disturbed \in 0..MaxDisturbances
        /\ run[p].at # "idle" => run[p].answer = "none"
        /\ UNCHANGED <<work, last>>
    BY OperationTypes
       DEF CommitRunning, CommitFailed, CommitSucceeded, OperationInv, StatesTrue
  <1>2. {"running", "failed", "succeeded"} \subseteq StepState
        /\ {"refused", "reconcile-critical"} \subseteq Answer /\ "none" \in Result
    BY DEF StepState, Answer, Result
  <1>3. CASE CommitRunning(p)
    <2> DEFINE c == NextChild(p)
               r == [run[p] EXCEPT !.at = "invoke", !.child = c]
    <2>1. /\ run[p].at = "loop" /\ run[p].todo # {} /\ run[p].todo \subseteq Child
      BY <1>1, <1>3 DEF CommitRunning, RunType
    <2>2. c \in Child /\ c \in run[p].todo /\ \A d \in run[p].todo : Rank[c] <= Rank[d]
      BY <2>1, NextChildIsFirst
    <2>3. Commit(p, c, "running", r) \/ (Return(p, "refused") /\ UNCHANGED <<record, disturbed>>)
      BY <1>3 DEF CommitRunning
    <2>4. /\ r \in RunType /\ r.at = "invoke" /\ r.child = c /\ r.answer = "none"
          /\ r.todo = run[p].todo /\ r.gate = run[p].gate
      BY <1>1, <2>1, <2>2 DEF RunType
    <2> HIDE DEF c, r
    <2>5. CASE Commit(p, c, "running", r)
      BY <1>1, <1>2, <2>1, <2>2, <2>4, <2>5, CommitCases
    <2>6. CASE Return(p, "refused") /\ UNCHANGED <<record, disturbed>>
      BY <1>1, <1>2, <2>6, ReturnKeeps
    <2> QED
      BY <2>3, <2>5, <2>6
  <1>4. CASE CommitFailed(p)
    <2> DEFINE c == run[p].child
               r == AfterFailure(run[p], c, run[p].result)
    <2>1. run[p].at = "ran" /\ Commit(p, c, "failed", r)
      BY <1>4 DEF CommitFailed
    <2>2. c \in Child
      BY <2>1, OperationTypes DEF Busy
    <2> HIDE DEF c
    <2>3. CASE stopsRollout(c, run[p].result)
      <3> DEFINE t == [run[p] EXCEPT !.failed = TRUE]
      <3>1. t \in RunType
        BY <1>1 DEF RunType
      <3>2. r = Returned(t, "reconcile-critical")
        BY <2>3 DEF AfterFailure
      <3> HIDE DEF t
      <3>3. r \in RunType /\ r.at = "idle" /\ r.child = 0 /\ r.answer = "reconcile-critical"
        BY <1>2, <3>1, <3>2, ReturnedIs
      <3> HIDE DEF r
      <3> QED
        BY <1>1, <1>2, <2>1, <2>2, <3>3, CommitCases DEF c
    <2>4. CASE ~stopsRollout(c, run[p].result)
      <3>1. r = [run[p] EXCEPT !.at = "loop", !.todo = @ \ {c}, !.child = 0,
                               !.result = "none", !.failed = TRUE]
        BY <2>4 DEF AfterFailure
      <3> HIDE DEF r
      <3>2. r \in RunType
        BY <1>1, <1>2, <3>1 DEF RunType
      <3>3. /\ r.at = "loop" /\ r.child = 0 /\ r.answer = "none"
            /\ r.todo = run[p].todo \ {c} /\ r.gate = run[p].gate
        BY <1>1, <2>1, <3>1 DEF RunType
      <3> QED
        BY <1>1, <1>2, <2>1, <2>2, <3>2, <3>3, CommitCases DEF c
    <2> QED
      BY <2>3, <2>4
  <1>5. CASE CommitSucceeded(p)
    <2> DEFINE c == run[p].child
               r == [run[p] EXCEPT !.at = "loop", !.todo = @ \ {c}, !.child = 0,
                                   !.result = "none"]
    <2>1. /\ run[p].at = "ran" /\ run[p].result = "succeeded"
          /\ Commit(p, c, "succeeded", r)
      BY <1>5 DEF CommitSucceeded
    <2>2. c \in Child
      BY <2>1, OperationTypes DEF Busy
    <2>3. /\ r \in RunType /\ r.at = "loop" /\ r.child = 0 /\ r.answer = "none"
          /\ r.todo = run[p].todo \ {c} /\ r.gate = run[p].gate
      BY <1>1, <1>2, <2>1 DEF RunType
    <2> HIDE DEF r
    <2> QED
      BY <1>1, <1>2, <2>1, <2>2, <2>3, CommitCases
  <1> QED
    BY <1>3, <1>4, <1>5

(* What a dispatcher that stays busy with the same child may change.          *)
LEMMA BusyStepKeeps ==
  ASSUME OperationInv, NEW p \in Caller, NEW r \in RunType, Busy(p),
         run' = [run EXCEPT ![p] = r], record' = record,
         disturbed' \in 0..MaxDisturbances,
         r.at \in {"invoking", "ran"}, r.child = run[p].child, r.todo = run[p].todo,
         r.seen = run[p].seen, r.state = run[p].state, r.answer = run[p].answer,
         run[p].gate => r.gate,
         last' \in [Child -> Result],
         \A d \in Child : d # run[p].child => last'[d] = last[d],
         r.at = "invoking" => last' = last /\ work' = {<<p, run[p].child>>},
         r.at = "ran" =>
             /\ work' = {}
             /\ r.result = "succeeded" => last'[run[p].child] = "succeeded"
             /\ run[p].child \in Platform => r.gate \/ last'[run[p].child] \in Good,
         r.at = "invoking" /\ Bound(run[p].child) => ~run[p].gate
  PROVE  OperationInv'
  <1> DEFINE c == run[p].child
  <1>1. /\ record \in RecordType /\ run \in [Caller -> RunType] /\ c \in Child
        /\ last \in [Child -> Result]
    BY OperationTypes
  <1>2. /\ run' \in [Caller -> RunType] /\ run'[p] = r
        /\ \A q \in Caller : q # p => run'[q] = run[q]
    BY <1>1
  <1>3. /\ record.steps[c] = "running" /\ \A q \in Caller : Busy(q) => q = p
        /\ c \in run[p].todo /\ \A d \in run[p].todo : Rank[c] <= Rank[d]
        /\ \A d \in Platform \ run[p].todo : run[p].gate \/ last[d] \in Good
    BY DEF OperationInv, BusyAlone, PlatformTaken
  <1>4. run[p].at # "idle" /\ run'[p].at # "idle"
    BY <1>2 DEF Busy
  <1> HIDE DEF c
  <1>5. Busy(p)' /\ \A q \in Caller : Busy(q)' => q = p
    BY <1>2, <1>3 DEF Busy
  <1>6. OperationTypeOK'
    <2>1. \A q \in Caller : run'[q].child = 0 <=> run'[q].at \in {"idle", "loop"}
      BY <1>1, <1>2, OperationAssumption, OperationTypes DEF c
    <2>2. work' \subseteq Caller \X Child
      BY <1>1 DEF c
    <2> QED
      BY <1>1, <1>2, <2>1, <2>2 DEF OperationInv, OperationTypeOK, RunType, RecordType
  <1>7. FenceSees'
    <2> SUFFICES ASSUME NEW q \in Caller, record.token = q, run'[q].at # "idle"
                 PROVE  /\ record.steps = run'[q].seen
                        /\ \A d \in Child : record.steps[d] = "running" =>
                              Busy(q)' /\ d = run'[q].child
      BY DEF FenceSees
    <2>1. CASE q = p
      BY <1>2, <1>4, <1>5, <2>1 DEF OperationInv, FenceSees
    <2>2. CASE q # p
      BY <1>2, <2>2 DEF OperationInv, FenceSees, Busy
    <2> QED
      BY <2>1, <2>2
  <1>8. BusyAlone'
    BY <1>2, <1>3, <1>5 DEF BusyAlone, c
  <1>9. WorkFenced'
    <2> SUFFICES ASSUME NEW w \in work'
                 PROVE  /\ record.steps[w[2]] = "running" /\ work' = {w}
                        /\ \A q \in Caller : Busy(q)' =>
                              q = w[1] /\ run'[q].at = "invoking" /\ run'[q].child = w[2]
      BY DEF WorkFenced
    <2>1. r.at = "invoking" /\ w = <<p, c>> /\ work' = {w}
      BY DEF c
    <2>2. w[1] = p /\ w[2] = c
      BY <2>1
    <2>3. run'[p].at = "invoking" /\ run'[p].child = c
      BY <1>2, <2>1 DEF c
    <2> QED
      BY <1>3, <1>5, <2>1, <2>2, <2>3
  <1>10. SuccessIsTrue'
    <2>1. \A d \in Child : record.steps[d] = "succeeded" => last'[d] = "succeeded"
      BY <1>1, <1>3 DEF OperationInv, SuccessIsTrue, c
    <2>2. \A q \in Caller : run'[q].at = "ran" => q = p
      BY <1>5 DEF Busy
    <2> QED
      BY <1>2, <2>1, <2>2 DEF SuccessIsTrue
  <1>11. PlatformTaken'
    <2>1. \A q \in Caller : q # p => ~Busy(q)'
      BY <1>5
    <2>2. \A d \in Platform \ run[p].todo : r.gate \/ last'[d] \in Good
      BY <1>1, <1>3, OperationAssumption DEF c
    <2>3. \A q \in Caller : q # p /\ run'[q].at = "loop" => record.token # q
      BY <1>1, <1>2, <1>3 DEF OperationInv, FenceSees, Busy
    <2>4. \A q \in Caller : run'[q].at = "ran" => q = p
      BY <1>5 DEF Busy
    <2> QED
      BY <1>2, <1>3, <2>1, <2>2, <2>3, <2>4 DEF PlatformTaken, c
  <1>12. PlatformFirst'
    <2> SUFFICES ASSUME NEW w \in work', Bound(w[2]), NEW d \in Platform
                 PROVE  last'[d] \in Good
      BY DEF PlatformFirst, Good
    <2>1. r.at = "invoking" /\ w = <<p, c>>
      BY DEF c
    <2>2. w[2] = c /\ last' = last
      BY <2>1
    <2>3. Rank[c] = 1 /\ Rank[d] = 0
      BY <2>2, OperationAssumption DEF Bound
    <2>4. d \notin run[p].todo
      BY <1>3, <2>3
    <2>5. ~run[p].gate
      BY <2>1, <2>2 DEF c
    <2> QED
      BY <1>3, <2>2, <2>4, <2>5
  <1>13. record.state # "completed"
    BY <1>1, <1>3 DEF OperationInv, StatesTrue
  <1>14. StatesTrue' /\ AnswerIsTrue'
    BY <1>2, <1>4, <1>13 DEF OperationInv, StatesTrue, AnswerIsTrue
  <1> QED
    BY <1>6, <1>7, <1>8, <1>9, <1>10, <1>11, <1>12, <1>14 DEF OperationInv

(* A busy dispatcher that does not wait for an executor finds none in flight. *)
LEMMA NothingInFlight ==
  ASSUME OperationInv, NEW p \in Caller, Busy(p), run[p].at # "invoking"
  PROVE  work = {}
  BY DEF OperationInv, WorkFenced

(* The invocation of a child, or its refusal while the platform's gate is     *)
(* closed.                                                                    *)
LEMMA InvokeKeeps ==
  ASSUME OperationInv, NEW p \in Caller, Invoke(p) \/ RefuseBound(p)
  PROVE  OperationInv'
  <1>1. /\ run[p] \in RunType /\ Busy(p) /\ work = {} /\ run[p].child \in Child
        /\ last \in [Child -> Result] /\ disturbed \in 0..MaxDisturbances
    BY OperationTypes, NothingInFlight DEF Invoke, RefuseBound, Busy
  <1>2. CASE Invoke(p)
    <2> DEFINE r == [run[p] EXCEPT !.at = "invoking"]
    <2>1. /\ r \in RunType /\ r.at = "invoking" /\ r.child = run[p].child
          /\ r.todo = run[p].todo /\ r.seen = run[p].seen /\ r.state = run[p].state
          /\ r.answer = run[p].answer /\ r.gate = run[p].gate
      BY <1>1 DEF RunType
    <2>2. /\ run' = [run EXCEPT ![p] = r] /\ UNCHANGED <<record, last, disturbed>>
          /\ work' = {<<p, run[p].child>>} /\ ~(run[p].gate /\ Bound(run[p].child))
      BY <1>1, <1>2 DEF Invoke, Set
    <2> HIDE DEF r
    <2> QED
      BY <1>1, <2>1, <2>2, BusyStepKeeps
  <1>3. CASE RefuseBound(p)
    <2> DEFINE r == [run[p] EXCEPT !.at = "ran", !.result = "error"]
    <2>1. /\ r \in RunType /\ r.at = "ran" /\ r.child = run[p].child
          /\ r.todo = run[p].todo /\ r.seen = run[p].seen /\ r.state = run[p].state
          /\ r.answer = run[p].answer /\ r.gate = run[p].gate /\ r.result = "error"
      BY <1>1 DEF RunType, Result
    <2>2. /\ run' = [run EXCEPT ![p] = r] /\ UNCHANGED <<record, work, last, disturbed>>
          /\ Bound(run[p].child)
      BY <1>3 DEF RefuseBound, Set
    <2>3. run[p].child \notin Platform
      BY <2>2, OperationAssumption DEF Bound
    <2> HIDE DEF r
    <2> QED
      BY <1>1, <2>1, <2>2, <2>3, BusyStepKeeps
  <1> QED
    BY <1>2, <1>3

(* An executor ends: its dispatcher learns the result if it still waits; an   *)
(* orphaned execution leaves its step running.                                *)
LEMMA ExecutorKeeps ==
  ASSUME OperationInv, NEW p \in Caller, NEW c \in Child,
         NEW result \in Result \ {"none"}, ExecutorEnds(p, c, result)
  PROVE  OperationInv'
  <1> DEFINE w == <<p, c>>
  <1>1. /\ record \in RecordType /\ run \in [Caller -> RunType] /\ run[p] \in RunType
        /\ last \in [Child -> Result]
        /\ disturbed \in 0..MaxDisturbances /\ MaxDisturbances \in Nat
    BY OperationTypes, OperationAssumption
  <1>2. /\ w \in work /\ work' = work \ {w} /\ last' = [last EXCEPT ![c] = result]
        /\ record' = record
    BY DEF ExecutorEnds
  <1>3. disturbed' \in 0..MaxDisturbances
    BY <1>1 DEF ExecutorEnds, Disturb
  <1>4. /\ record.steps[c] = "running" /\ work' = {}
        /\ \A q \in Caller : Busy(q) => /\ q = p /\ run[q].at = "invoking"
                                        /\ run[q].child = c
    <2>1. w[1] = p /\ w[2] = c
      OBVIOUS
    <2>2. /\ record.steps[w[2]] = "running" /\ work = {w}
          /\ \A q \in Caller : Busy(q) =>
                q = w[1] /\ run[q].at = "invoking" /\ run[q].child = w[2]
      BY <1>2 DEF OperationInv, WorkFenced
    <2> QED
      BY <1>2, <2>1, <2>2
  <1>5. /\ last' \in [Child -> Result] /\ last'[c] = result
        /\ \A d \in Child : d # c => last'[d] = last[d]
    BY <1>1, <1>2
  <1>6. CASE run[p].at = "invoking" /\ run[p].child = c
    <2> DEFINE gate == run[p].gate \/ (result = "error" /\ c \in Platform)
               r == [run[p] EXCEPT !.at = "ran", !.result = result, !.gate = gate]
    <2>1. gate \in BOOLEAN
      BY <1>1 DEF RunType
    <2>2. run' = [run EXCEPT ![p] = r]
      BY <1>6 DEF ExecutorEnds, Set
    <2>3. /\ run[p].gate => gate
          /\ c \in Platform => gate \/ result \in Good
      BY DEF Good, Result
    <2> HIDE DEF gate
    <2>4. /\ r \in RunType /\ r.at = "ran" /\ r.child = run[p].child
          /\ r.todo = run[p].todo /\ r.seen = run[p].seen /\ r.state = run[p].state
          /\ r.answer = run[p].answer /\ r.gate = gate /\ r.result = result
      BY <1>1, <2>1 DEF RunType
    <2>5. Busy(p)
      BY <1>6 DEF Busy
    <2> HIDE DEF r
    <2> QED
      BY <1>2, <1>3, <1>4, <1>5, <1>6, <2>2, <2>3, <2>4, <2>5, BusyStepKeeps
  <1>7. CASE ~(run[p].at = "invoking" /\ run[p].child = c)
    <2>1. run' = run /\ \A q \in Caller : ~Busy(q)
      BY <1>4, <1>7 DEF ExecutorEnds
    <2>2. \A q \in Caller : ~Busy(q)'
      BY <2>1 DEF Busy
    <2>3. record.state # "completed"
      BY <1>4 DEF OperationInv, StatesTrue
    <2>4. OperationTypeOK'
      BY <1>2, <1>3, <1>4, <1>5, <2>1 DEF OperationInv, OperationTypeOK
    <2>5. FenceSees'
      BY <1>2, <2>1, <2>2 DEF OperationInv, FenceSees
    <2>6. BusyAlone' /\ WorkFenced' /\ PlatformFirst'
      BY <1>4, <2>2 DEF BusyAlone, WorkFenced, PlatformFirst
    <2>7. SuccessIsTrue'
      <3>1. \A q \in Caller : run'[q].at # "ran"
        BY <2>2 DEF Busy
      <3> QED
        BY <1>2, <1>4, <1>5, <3>1 DEF OperationInv, SuccessIsTrue
    <2>8. PlatformTaken'
      <3>1. \A q \in Caller : run'[q].at = "loop" => record'.token # q
        BY <1>2, <1>4, <2>1 DEF OperationInv, FenceSees
      <3>2. \A q \in Caller : run'[q].at # "ran"
        BY <2>2 DEF Busy
      <3> QED
        BY <2>2, <3>1, <3>2 DEF PlatformTaken
    <2>9. StatesTrue' /\ AnswerIsTrue'
      BY <1>2, <2>1, <2>3 DEF OperationInv, StatesTrue, AnswerIsTrue
    <2> QED
      BY <2>4, <2>5, <2>6, <2>7, <2>8, <2>9 DEF OperationInv
  <1> QED
    BY <1>6, <1>7

-----------------------------------------------------------------------------
(* The operation: the theorems.                                            *)

(* An operation nobody began satisfies the invariant.                         *)
LEMMA OperationInvInit == OperationInit => OperationInv
  <1> SUFFICES ASSUME OperationInit PROVE OperationInv
    OBVIOUS
  <1> DEFINE idle == [at |-> "idle", todo |-> {}, seen |-> [c \in Child |-> "pending"],
                      state |-> "running", gate |-> FALSE, failed |-> FALSE,
                      child |-> 0, result |-> "none", answer |-> "none"]
  <1>1. run = [p \in Caller |-> idle]
    BY DEF OperationInit
  <1>2. idle \in RunType
    BY DEF RunType, StepState, OperationState, Result, Answer
  <1>3. /\ idle.at = "idle" /\ idle.child = 0 /\ idle.state = "running"
        /\ idle.answer = "none"
    OBVIOUS
  <1> HIDE DEF idle
  <1>4. run \in [Caller -> RunType] /\ \A p \in Caller : run[p] = idle
    BY <1>1, <1>2
  <1>5. /\ record \in RecordType /\ record.state = "absent" /\ record.token = Nobody
        /\ \A c \in Child : record.steps[c] = "pending"
        /\ work = {} /\ last \in [Child -> Result]
        /\ disturbed \in 0..MaxDisturbances
    BY OperationAssumption DEF OperationInit, RecordType, OperationState, StepState, Result
  <1>6. OperationTypeOK
    BY <1>3, <1>4, <1>5 DEF OperationTypeOK, RunType, RecordType
  <1>7. \A p \in Caller : ~Busy(p) /\ run[p].at = "idle"
    BY <1>3, <1>4 DEF Busy
  <1> QED
    BY <1>3, <1>4, <1>5, <1>6, <1>7 DEF OperationInv, FenceSees, BusyAlone, WorkFenced,
       SuccessIsTrue, PlatformTaken, StatesTrue, PlatformFirst, AnswerIsTrue

(* Every step of the journal's callers and of their executors keeps it.       *)
LEMMA OperationInvNext ==
  OperationInv /\ [OperationNext]_operationVars => OperationInv'
  <1> SUFFICES ASSUME OperationInv, [OperationNext]_operationVars
               PROVE  OperationInv'
    OBVIOUS
  <1>1. CASE UNCHANGED operationVars
    <2>1. \A p \in Caller : Busy(p)' <=> Busy(p)
      BY <1>1 DEF operationVars, Busy
    <2>2. OperationTypeOK' /\ AnswerIsTrue' /\ PlatformFirst' /\ StatesTrue'
      BY <1>1 DEF operationVars, OperationInv, OperationTypeOK, AnswerIsTrue,
                  PlatformFirst, StatesTrue
    <2>3. FenceSees' /\ BusyAlone' /\ WorkFenced' /\ SuccessIsTrue' /\ PlatformTaken'
      BY <1>1, <2>1 DEF operationVars, OperationInv, FenceSees, BusyAlone, WorkFenced,
                        SuccessIsTrue, PlatformTaken
    <2> QED
      BY <2>2, <2>3 DEF OperationInv
  <1>2. ASSUME NEW p \in Caller,
               \/ Begin(p) \/ BeginUnconfirmed(p) \/ Replay(p) \/ Abandon(p)
               \/ OperationStep(p) \/ ExecutorStep(p)
        PROVE  OperationInv'
    BY <1>2, BeginKeeps, EndKeeps, SkipKeeps, CommitStepsKeep, InvokeKeeps,
       ExecutorKeeps
       DEF OperationStep, ExecutorStep
  <1> QED
    BY <1>1, <1>2 DEF OperationNext

(* OperationInv is an invariant of the operation and its journal.             *)
THEOREM OperationInvariant == OperationSpec => []OperationInv
  BY OperationInvInit, OperationInvNext, PTL DEF OperationSpec

(* Type correctness of the record, the dispatchers and the executor work.     *)
THEOREM OperationTypeCorrect == OperationSpec => []OperationTypeOK
  <1>1. OperationInv => OperationTypeOK
    BY DEF OperationInv
  <1> QED
    BY <1>1, OperationInvariant, PTL

(* The fence token and the step marked running keep the executions of one     *)
(* operation from overlapping, for any number of callers that begin, take     *)
(* over, crash or return while their executor runs on.                        *)
THEOREM ExecutionsFenced == OperationSpec => []ExecutionFenced
  <1>1. OperationInv => ExecutionFenced
    BY DEF OperationInv, WorkFenced, ExecutionFenced
  <1> QED
    BY <1>1, OperationInvariant, PTL

(* A child bound to the platform executes only after the platform's last      *)
(* execution did not fail, for any children and any admissible ranks.         *)
THEOREM PlatformComesFirst == OperationSpec => []PlatformFirst
  <1>1. OperationInv => PlatformFirst
    BY DEF OperationInv
  <1> QED
    BY <1>1, OperationInvariant, PTL

(* What executePrepared returned stays true of the journal and of the last    *)
(* execution of every child.                                                  *)
THEOREM AnswersTrue == OperationSpec => []AnswerIsTrue
  <1>1. OperationInv => AnswerIsTrue
    BY DEF OperationInv
  <1> QED
    BY <1>1, OperationInvariant, PTL

-----------------------------------------------------------------------------
(* The three protocols of a node together, as the runs check them.            *)

\* One step is a step of one protocol, and the others keep their state.
LEMMA PartsStep ==
    ASSUME [Next]_vars
    PROVE  /\ [OperationNext]_operationVars
           /\ [AuthorizationNext]_authorizationVars
           /\ [MaintenanceNext]_maintenanceVars
  BY DEF Next, vars, Operation

(* The inductive invariant of the node: each protocol keeps its own.          *)
THEOREM ApplyInvariant == Spec => [](OperationInv /\ AuthorizationInv /\ MaintenanceInv)
  <1>1. Init => OperationInv /\ AuthorizationInv /\ MaintenanceInv
    BY OperationInvInit, AuthorizationInvInit, MaintenanceInvInit DEF Init
  <1>2. OperationInv /\ AuthorizationInv /\ MaintenanceInv /\ [Next]_vars
          => (OperationInv /\ AuthorizationInv /\ MaintenanceInv)'
    BY PartsStep, OperationInvNext, AuthorizationInvNext, MaintenanceInvNext
  <1> QED
    BY <1>1, <1>2, PTL DEF Spec

(* Type correctness of the product Apply, its authorization and the host      *)
(* maintenance beside them.                                                   *)
THEOREM ApplyTypeCorrect == Spec => []TypeOK
  <1>1. OperationInv /\ AuthorizationInv /\ MaintenanceInv => TypeOK
    BY DEF OperationInv, AuthorizationInv, MaintenanceInv, TypeOK
  <1> QED
    BY <1>1, ApplyInvariant, PTL

=============================================================================
