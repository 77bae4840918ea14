------------------------------ MODULE MCApply ------------------------------
(* Small instances of the protocols that apply changes to a node: the      *)
(* authorization of a product Apply, the operation its execution journals, *)
(* and the package updates and reboots of the host.  They share no state,  *)
(* so one behaviour is a behaviour of one of them.                         *)
EXTENDS ApplyOperation, ApplyAuthorization, HostMaintenance

CONSTANTS a, b

VARIABLE part

vars == <<operationVars, authorizationVars, maintenanceVars, part>>

\* The workload of child 1 deploys through the platform of child 2; child 3
\* verifies certificates and is core work.
Ranks == [c \in Child |-> CASE c = 1 -> 1 [] c = 2 -> 0 [] c = 3 -> 2]

Init ==
    /\ part \in {"operation", "authorization", "maintenance"}
    /\ OperationInit /\ AuthorizationInit /\ MaintenanceInit
    /\ part # "maintenance" => packages = NoHolder

Operation(A) == part = "operation" /\ A
                /\ UNCHANGED <<authorizationVars, maintenanceVars, part>>

Next ==
    \/ Operation(OperationNext)
    \/ /\ part = "authorization" /\ AuthorizationNext
       /\ UNCHANGED <<operationVars, maintenanceVars, part>>
    \/ /\ part = "maintenance" /\ MaintenanceNext
       /\ UNCHANGED <<operationVars, authorizationVars, part>>

\* OperationFairness, of the operation's behaviours.
Fairness ==
    /\ \A p \in Caller : /\ WF_vars(Operation(OperationStep(p)))
                         /\ WF_vars(Operation(ExecutorStep(p)))
    /\ WF_vars(Operation(Begin(Retrier)))

Spec == Init /\ [][Next]_vars /\ Fairness

\* Type correctness of the three protocols.
TypeOK == OperationTypeOK /\ AuthorizationTypeOK /\ MaintenanceTypeOK

=============================================================================
