------------------------- MODULE ApplyAuthorization -------------------------
(***************************************************************************)
(* The generation coordinator of internal/architecturev2 for one stack key *)
(* of one service: a resolution is issued with a new epoch and supersedes  *)
(* every earlier one; it is turned into at most one authorization, to      *)
(* generate, to apply, or to reconcile an earlier Apply; whoever works     *)
(* under it holds the slot's read lock until it is done.                   *)
(*                                                                         *)
(* Resolutions and authorizations are values that may be copied, so any    *)
(* call may come at any time, for any epoch ever issued.  A critical       *)
(* section under the slot's write lock is one step, possible while nobody  *)
(* holds the read lock.                                                    *)
(***************************************************************************)
EXTENDS Naturals, FiniteSets

CONSTANTS
    MaxEpoch,   \* bound on resolutions issued in one run
    Lease       \* names of the concurrent leases of one generation

ASSUME AuthorizationAssumption == MaxEpoch \in Nat /\ "execution" \notin Lease

VARIABLES
    slot,       \* generationSlot: sequence, epoch, stage and occupied
    readers,    \* holders of the slot's read lock: <<epoch, lease>>
    grant,      \* the authorization each epoch was turned into
    working,    \* renders, installs and executions under way
    executed,   \* executions each epoch has authorized so far
    expired     \* epochs whose Apply evidence is no longer fresh

authorizationVars == <<slot, readers, grant, working, executed, expired>>

Epoch == 1..MaxEpoch
Use == {"generate", "apply", "reconcile"}
Stage == {"none", "issued", "authorizing", "authorized",
          "apply-authorizing", "apply-authorized"}

\* Where one authorization stands: its use while it is evaluated, an issued
\* one-shot or generation session, a consumer, or the end.
GrantState == {"none", "evaluating", "issued", "admitted", "consuming",
               "consumed", "closed"}

AuthorizingStage(use) ==
    IF use = "generate" THEN "authorizing" ELSE "apply-authorizing"
AuthorizedStage(use) ==
    IF use = "generate" THEN "authorized" ELSE "apply-authorized"

AuthorizationInit ==
    /\ slot = [sequence |-> 0, epoch |-> 0, stage |-> "none", occupied |-> FALSE]
    /\ readers = {} /\ working = {} /\ expired = {}
    /\ grant = [e \in Epoch |-> [use |-> "apply", state |-> "none"]]
    /\ executed = [e \in Epoch |-> 0]

Exclusive == readers = {}

Holds(e, stage) == slot.occupied /\ slot.epoch = e /\ slot.stage = stage

Emptied == [sequence |-> slot.sequence, epoch |-> 0, stage |-> "none",
            occupied |-> FALSE]

\* revokeGenerationAuthorization empties the slot only for its own epoch.
Revoked(e) == IF slot.occupied /\ slot.epoch = e THEN Emptied ELSE slot

Becomes(e, state) == grant' = [grant EXCEPT ![e].state = state]

-----------------------------------------------------------------------------

\* resolveCurrent: the newest resolution takes the slot over.
issueCurrentGeneration ==
    /\ Exclusive /\ slot.sequence < MaxEpoch
    /\ slot' = [sequence |-> slot.sequence + 1, epoch |-> slot.sequence + 1,
                stage |-> "issued", occupied |-> TRUE]
    /\ UNCHANGED <<readers, grant, working, executed, expired>>

\* beginGenerationAuthorization, beginApplyAuthorization: one evaluation per
\* resolution, whatever it is used for.
BeginAuthorization(e, use) ==
    /\ Exclusive /\ Holds(e, "issued")
    /\ slot' = [slot EXCEPT !.stage = AuthorizingStage(use)]
    /\ grant' = [grant EXCEPT ![e] = [use |-> use, state |-> "evaluating"]]
    /\ UNCHANGED <<readers, working, executed, expired>>

\* The evaluation succeeded; it counts only if nothing superseded it meanwhile.
FinishAuthorization(e) ==
    /\ Exclusive /\ grant[e].state = "evaluating"
    /\ IF Holds(e, AuthorizingStage(grant[e].use))
       THEN /\ slot' = [slot EXCEPT !.stage = AuthorizedStage(grant[e].use)]
            /\ Becomes(e, IF grant[e].use = "reconcile" THEN "admitted"
                          ELSE "issued")
       ELSE /\ slot' = Revoked(e)
            /\ Becomes(e, "closed")
    /\ UNCHANGED <<readers, working, executed, expired>>

\* The evaluation failed: the resolution is used up.
RefuseAuthorization(e) ==
    /\ Exclusive /\ grant[e].state = "evaluating"
    /\ slot' = IF Holds(e, AuthorizingStage(grant[e].use)) THEN Emptied ELSE slot
    /\ Becomes(e, "closed")
    /\ UNCHANGED <<readers, working, executed, expired>>

\* Time passes the expiry of the evidence behind an authorization.
Expire(e) ==
    /\ grant[e].state \in {"evaluating", "issued", "consuming"}
    /\ e \notin expired
    /\ expired' = expired \cup {e}
    /\ UNCHANGED <<slot, readers, grant, working, executed>>

-----------------------------------------------------------------------------
(* Work under an authorization.                                            *)

\* Mutant of Lock: the read lock is given back before the work begins.
LockNothing(w) == readers

\* acquireGenerationAuthorization, acquireApplyAuthorization hand the read
\* lock to the caller.
Lock(w) == readers \cup {w}

\* Render, RenderAndInstall and Install: any number of leases of one session.
AcquireGeneration(e, l) ==
    /\ grant[e] = [use |-> "generate", state |-> "issued"]
    /\ <<e, l>> \notin working
    /\ Holds(e, "authorized")
    /\ readers' = Lock(<<e, l>>)
    /\ working' = working \cup {<<e, l>>}
    /\ UNCHANGED <<slot, grant, executed, expired>>

ReleaseGeneration(e, l) ==
    /\ grant[e].use = "generate" /\ <<e, l>> \in working
    /\ readers' = readers \ {<<e, l>>}
    /\ working' = working \ {<<e, l>>}
    /\ UNCHANGED <<slot, grant, executed, expired>>

\* The one-shot authorization is issued and not consumed.
Consumable(e) == grant[e] = [use |-> "apply", state |-> "issued"]

\* consumeWithClock: the slot, the held workspace and the evidence still hold.
consume(e) ==
    /\ Consumable(e)
    /\ Holds(e, "apply-authorized") /\ e \notin expired
    /\ readers' = Lock(<<e, "execution">>)
    /\ working' = working \cup {<<e, "execution">>}
    /\ executed' = [executed EXCEPT ![e] = @ + 1]
    /\ Becomes(e, "consuming")
    /\ UNCHANGED <<slot, expired>>

\* closeInvalid: superseded, expired, or the generated bytes changed; the
\* authorization is closed and its resolution revoked.
ConsumeInvalid(e) ==
    /\ Consumable(e) /\ Exclusive
    /\ slot' = Revoked(e)
    /\ Becomes(e, "closed")
    /\ UNCHANGED <<readers, working, executed, expired>>

\* reconcileProductApply acquires the slot again after it was authorized.
AcquireReconcile(e) ==
    /\ grant[e].state = "admitted"
    /\ IF Holds(e, "apply-authorized")
       THEN /\ readers' = Lock(<<e, "execution">>)
            /\ working' = working \cup {<<e, "execution">>}
            /\ executed' = [executed EXCEPT ![e] = @ + 1]
            /\ Becomes(e, "consuming")
       ELSE Becomes(e, "closed") /\ UNCHANGED <<readers, working, executed>>
    /\ UNCHANGED <<slot, expired>>

\* The execution ended and released its grant.
ReleaseExecution(e) ==
    /\ grant[e].state = "consuming"
    /\ readers' = readers \ {<<e, "execution">>}
    /\ working' = working \ {<<e, "execution">>}
    /\ Becomes(e, "consumed")
    /\ UNCHANGED <<slot, executed, expired>>

\* Close waits for the leases of its own authorization, then revokes it.
Close(e) ==
    /\ grant[e].use # "reconcile" /\ grant[e].state \in {"issued", "consumed"}
    /\ Exclusive /\ \A w \in working : w[1] # e
    /\ slot' = Revoked(e)
    /\ Becomes(e, "closed")
    /\ UNCHANGED <<readers, working, executed, expired>>

-----------------------------------------------------------------------------

AuthorizationNext ==
    \/ issueCurrentGeneration
    \/ \E e \in Epoch :
          \/ \E use \in Use : BeginAuthorization(e, use)
          \/ FinishAuthorization(e) \/ RefuseAuthorization(e) \/ Expire(e)
          \/ \E l \in Lease : AcquireGeneration(e, l) \/ ReleaseGeneration(e, l)
          \/ consume(e) \/ ConsumeInvalid(e) \/ AcquireReconcile(e)
          \/ ReleaseExecution(e) \/ Close(e)

AuthorizationSpec == AuthorizationInit /\ [][AuthorizationNext]_authorizationVars

-----------------------------------------------------------------------------

\* Type correctness of the slot, its lock and the authorizations.
AuthorizationTypeOK ==
    /\ slot \in [sequence : 0..MaxEpoch, epoch : 0..MaxEpoch, stage : Stage,
                 occupied : BOOLEAN]
    /\ readers \subseteq Epoch \X (Lease \cup {"execution"})
    /\ working \subseteq Epoch \X (Lease \cup {"execution"})
    /\ grant \in [Epoch -> [use : Use, state : GrantState]]
    /\ executed \in [Epoch -> Nat]
    /\ expired \subseteq Epoch

\* Only the newest resolution is ever worked under, until the work ends: no
\* later resolution is issued meanwhile, generated output is not rewritten
\* while an Apply executes from it, and each epoch executes at most once.
CurrentResolutionOnly ==
    /\ \A w \in working : slot.occupied /\ slot.epoch = w[1]
                            /\ slot.sequence = w[1]
    /\ \A w, x \in working : w[2] = "execution" => x = w
    /\ \A e \in Epoch : executed[e] <= 1

=============================================================================
