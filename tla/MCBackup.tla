------------------------------ MODULE MCBackup ------------------------------
(* Small instances of the two snapshot protocols of a host: containers that  *)
(* the backup runtime stops itself, and an application group that its native *)
(* manager stops.  A host runs one of them, so one behaviour is a behaviour  *)
(* of either.                                                                *)
EXTENDS SnapshotQuiescence, AppGroupControl

VARIABLE host

vars == <<quiescenceVars, groupVars, host>>

\* Container 2 stops after container 1 and starts before it.
Ranks == [w \in Writer |-> w]

Init ==
    /\ host \in {"containers", "group"}
    /\ QuiescenceInit /\ GroupInit
    /\ host = "group" => running = {} /\ op.mode = "backup"
    /\ host = "containers" => native.group = "down"

Next ==
    \/ /\ host = "containers" /\ QuiescenceNext
       /\ UNCHANGED <<groupVars, host>>
    \/ /\ host = "group" /\ GroupNext
       /\ UNCHANGED <<quiescenceVars, host>>

\* A command that a process executes goes on, the helper and the manager end,
\* and an operation that is pending is retried.
Containers(A) ==
    host = "containers" /\ A /\ Remember /\ UNCHANGED <<groupVars, host>>
Group(A) == host = "group" /\ A /\ UNCHANGED <<quiescenceVars, host>>

Fairness ==
    /\ WF_vars(Containers(ProcessStep)) /\ WF_vars(Containers(KopiaEnds))
    /\ \A m \in Mode : WF_vars(Containers(Run(m)))
    /\ WF_vars(Group(WorkerStep)) /\ WF_vars(Group(HelperEnds))
    /\ WF_vars(Group(ManagerStep)) /\ WF_vars(Group(GroupRun))

Spec == Init /\ [][Next]_vars /\ Fairness

\* Type correctness of both protocols.
TypeOK == QuiescenceTypeOK /\ GroupTypeOK

\* No writer of a governed volume runs while CreateSnapshot's Kopia helper
\* captures it, with containers and with a native group alike.
CaptureQuiesced == ContainersQuiesced /\ GroupQuiesced

=============================================================================
