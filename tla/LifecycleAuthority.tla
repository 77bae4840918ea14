------------------------- MODULE LifecycleAuthority -------------------------
(***************************************************************************)
(* What the lifecycle-mutation journal promises, without files, pointers,  *)
(* locks or crashes: one operation at a time owns the workspace, from the  *)
(* moment it opens to the moment its outcome is decided and its native     *)
(* closes are done; ordinary mutations run only in between; an outcome is  *)
(* decided once.                                                           *)
(***************************************************************************)
CONSTANTS
    AuthorityOp,   \* operations
    Mutator,       \* processes that make ordinary mutations
    Outcome        \* how an operation may end

VARIABLES
    status,    \* of each operation: new, open or settled
    outcome,   \* of each operation: Undecided or a member of Outcome
    mutators   \* processes inside an ordinary mutation

authorityVars == <<status, outcome, mutators>>

Undecided == "undecided"

AuthorityInit ==
    /\ status = [o \in AuthorityOp |-> "new"]
    /\ outcome = [o \in AuthorityOp |-> Undecided]
    /\ mutators = {}

Unowned == \A o \in AuthorityOp : status[o] # "open"

\* An operation takes the workspace; nothing else may be under way.
Open(o) ==
    /\ status[o] = "new" /\ Unowned /\ mutators = {}
    /\ status' = [status EXCEPT ![o] = "open"]
    /\ UNCHANGED <<outcome, mutators>>

\* The outcome is decided; an operation that owes no close is settled with it.
Decide(o, result) ==
    /\ status[o] = "open" /\ outcome[o] = Undecided
    /\ outcome' = [outcome EXCEPT ![o] = result]
    /\ status' \in {status, [status EXCEPT ![o] = "settled"]}
    /\ UNCHANGED mutators

\* The last native close of a decided operation is acknowledged.
Release(o) ==
    /\ status[o] = "open" /\ outcome[o] # Undecided
    /\ status' = [status EXCEPT ![o] = "settled"]
    /\ UNCHANGED <<outcome, mutators>>

\* One ordinary mutation begins while no operation owns the workspace.
Mutate(p) ==
    /\ Unowned /\ mutators = {}
    /\ mutators' = {p}
    /\ UNCHANGED <<status, outcome>>

MutationEnds ==
    /\ mutators' = {}
    /\ UNCHANGED <<status, outcome>>

AuthorityNext ==
    \/ \E o \in AuthorityOp : \/ Open(o) \/ Release(o)
                              \/ \E result \in Outcome : Decide(o, result)
    \/ \E p \in Mutator : Mutate(p)
    \/ MutationEnds

AuthoritySpec == AuthorityInit /\ [][AuthorityNext]_authorityVars

=============================================================================
