-------------------------- MODULE SignedOperations --------------------------
(***************************************************************************)
(* What the drivers of an upgrade and of a restore activation and the      *)
(* mutation journal agree on: how the newest signed record of an operation *)
(* may change.  The journal implements it whatever its callers ask for,    *)
(* and each driver implements it whatever fails, so both sides have the    *)
(* same view of what may follow a record.                                  *)
(***************************************************************************)
EXTENDS LifecyclePhases

CONSTANTS
    SignedOp,    \* operations
    SignedKind   \* the kind of each

VARIABLE head    \* the newest signed record of each operation

signedVars == <<head>>

\* recorded: the phases an upgrade's history holds, on which its recovery is
\* decided; closes: "owed" while a native close is not acknowledged yet.
Unsigned == [phase |-> "none", status |-> Active, recorded |-> {}, closes |-> "none"]

SignedInit == head = [o \in SignedOp |-> Unsigned]

IsUpgrade(o) == SignedKind[o] = Upgrade
IsActive(o) == head[o].phase # "none" /\ head[o].status = Active
PreApply(o) == head[o].recorded \subseteq PreApplyPhase

Signs(o, r) == head' = [head EXCEPT ![o] = r]

At(o, next) ==
    [head[o] EXCEPT !.phase = next,
                    !.recorded = IF IsUpgrade(o) THEN @ \cup {next} ELSE @]

\* The operation is prepared.
Begin(o) == head[o] = Unsigned /\ Signs(o, At(o, "prepared"))

\* The next phase of the graph; the prior Generate starts again only while the
\* history proves that target Apply was never admitted.
Advance(o, next) ==
    /\ IsActive(o) /\ AllowedTransition(SignedKind[o], head[o].phase, next)
    /\ (/\ head[o].phase \in {"rollback-generate-started",
                              "rollback-generate-succeeded"}
        /\ next = "rollback-started") => PreApply(o)
    /\ Signs(o, At(o, next))

\* Forward recovery admits target Apply again, or target Generate of another
\* release, once target Apply may have changed data.
Readmit(o, next) ==
    /\ IsActive(o) /\ IsUpgrade(o)
    /\ \/ /\ head[o].phase \in ForwardRecoveryPhase
          /\ next \in {"target-apply-started", "target-generate-started"}
       \/ /\ head[o].phase \in {"target-generate-started",
                                "target-generate-succeeded"}
          /\ ~PreApply(o) /\ next = "target-generate-started"
    /\ Signs(o, At(o, next))

\* A restore activation binds the groups it owes a close, while quiescing.
Bind(o) ==
    /\ IsActive(o) /\ ~IsUpgrade(o)
    /\ head[o].phase = "quiesce-started" /\ head[o].closes = "none"
    /\ Signs(o, [head[o] EXCEPT !.closes = "owed"])

\* The outcome is decided, and agrees with the phase it is decided in.
Settle(o, outcome) ==
    /\ IsActive(o)
    /\ \/ outcome = Succeeded /\ head[o].phase = "commit-succeeded"
       \/ outcome = Recovered /\ head[o].phase = "rollback-succeeded"
       \/ /\ outcome = Recovered /\ head[o].phase = "prepared"
          /\ IsUpgrade(o) /\ head[o].recorded = {"prepared"}
    /\ Signs(o, [head[o] EXCEPT !.status = outcome])

\* After that the last close may be acknowledged, and nothing else changes.
Acknowledge(o) ==
    /\ head[o].status # Active /\ head[o].closes = "owed"
    /\ Signs(o, [head[o] EXCEPT !.closes = "none"])

\* A step signs the next record of one operation.
SignedNext == \E o \in SignedOp :
    LET next == head'[o]
    IN  /\ next # head[o]
        /\ \/ Begin(o) \/ Advance(o, next.phase) \/ Readmit(o, next.phase)
           \/ Bind(o) \/ Settle(o, next.status) \/ Acknowledge(o)

SignedSpec == SignedInit /\ [][SignedNext]_signedVars

=============================================================================
