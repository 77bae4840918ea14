--------------------------- MODULE RuntimeControl ---------------------------
(***************************************************************************)
(* Stopping and starting the writers of a restore activation through their *)
(* manager (internal/backuplifecycle/runtime_control.go), as the           *)
(* application and the Store runtimes of internal/restoreactivation use it: *)
(* every power command is journaled as preparing, prepared and dispatched  *)
(* before it is sent, is sent once, and counts only when the manager's own *)
(* terminal receipt has been observed.  The manager executes a command it  *)
(* accepted at any later time, also when its sender is long gone.          *)
(*                                                                         *)
(* The phases are the ones of module RestoreActivation in which a call is  *)
(* made or must have been settled; the volume copies happen in "quiesced"  *)
(* and in "rollback-volume-started".  The authenticated initial power has  *)
(* been captured; nobody but the manager switches a component.             *)
(***************************************************************************)
EXTENDS Integers

CONSTANTS
    N,          \* number of components, in start order
    Writers,    \* "application": settles every control first; "store": has one
                \* component, and the others are none of its own
    Receipts,   \* the kinds of drivers: receipts "retained" by the manager, or
                \* "in-process" and lost with it
    MaxFaults   \* bound on injected faults

ASSUME ControlAssumption ==
    /\ N \in Nat \ {0}
    /\ Writers \subseteq {"application", "store"}
    /\ Receipts \subseteq {"retained", "in-process"}
    /\ MaxFaults \in Nat

Comp == 1..N
Action == {"stop", "start", "rollback-stop", "rollback-start"}
EffectState == {"", "preparing", "prepared", "dispatched", "observed"}

VARIABLES
    phase,       \* phase of the owning operation's newest signed record
    effect,      \* its controls: state of each effect of each component
    wasRunning,  \* its authenticated initial power
    receipts,    \* the kind of its drivers
    writer,      \* the writer whose controls these are
    power,       \* TRUE while the component runs
    queue,       \* commands the manager accepted and has not executed
    receipt,     \* commands with a terminal receipt the driver can read
    sent,        \* how often each command was sent
    pc, entry,   \* where the process is, and the call it runs
    cur,         \* component whose control it advances
    faults

journal == <<phase, effect, wasRunning, receipts, writer>>
manager == <<power, queue, receipt, sent>>
process == <<pc, entry, cur>>
vars == <<journal, manager, process, faults>>

controlStarts(a) == a \in {"start", "rollback-start"}

\* The component has the power the action leaves.
HasEffect(c, a) == power[c] <=> controlStarts(a)

RollbackPhase == {"rollback-started", "rollback-volume-started",
                  "rollback-runtime-started", "rollback-runtime-succeeded"}
StopPhase == {"quiesce-started", "rollback-started", "rollback-volume-started"}
StartPhase == {"runtime-start-started", "rollback-runtime-started"}

Init ==
    /\ wasRunning \in [Comp -> BOOLEAN] /\ power = wasRunning
    /\ receipts \in Receipts /\ writer \in Writers
    /\ writer = "store" =>
          receipts = "retained" /\ \A c \in Comp \ {1} : ~wasRunning[c]
    /\ phase = "quiesce-started"
    /\ effect = [c \in Comp |-> [a \in Action |-> ""]]
    /\ queue = [c \in Comp |-> {}] /\ receipt = [c \in Comp |-> {}]
    /\ sent = [c \in Comp |-> [a \in Action |-> 0]]
    /\ pc = "call" /\ entry = "activate" /\ cur = N
    /\ faults = 0

-----------------------------------------------------------------------------
(* Processes, faults and journal writes.                                   *)

Fault == faults < MaxFaults /\ faults' = faults + 1

\* The process is gone, and with it every receipt only it could read.
ProcessEnds ==
    /\ pc' = "idle" /\ entry' = "none" /\ cur' = N
    /\ receipt' = IF receipts = "retained" THEN receipt
                  ELSE [c \in Comp |-> {}]

\* An error of Activate starts its own recovery; any other error ends the process.
Fail ==
    IF entry = "activate"
    THEN pc' = "recover" /\ entry' = "auto" /\ cur' = N /\ UNCHANGED receipt
    ELSE ProcessEnds

Crash ==
    /\ pc # "idle" /\ Fault /\ ProcessEnds
    /\ UNCHANGED <<journal, power, queue, sent>>

\* Mutant of EffectAllowed: a rollback cannot start what the activation did not.
EffectAllowedStrict(a) ==
    /\ a = "stop" => phase = "quiesce-started"
    /\ a = "start" => phase = "runtime-start-started"
    /\ a = "rollback-stop" => phase \in {"rollback-started", "rollback-volume-started"}
    /\ a = "rollback-start" => phase = "rollback-runtime-started"

\* validRestoreControlTransition: the phases in which an effect may advance.
EffectAllowed(a) ==
    /\ a = "stop" => phase = "quiesce-started"
    /\ a = "start" => phase \in {"runtime-start-started", "rollback-runtime-started"}
    /\ a = "rollback-stop" => phase \in {"rollback-started", "rollback-volume-started"}
    /\ a = "rollback-start" => phase = "rollback-runtime-started"

Pending(c) == \E a \in Action : effect[c][a] \notin {"", "observed"}

\* Phases that a power command is dispatched or settled in.
BoundaryPhase == {"quiesce-started", "runtime-start-started", "rollback-started",
                  "rollback-runtime-started"}

\* validateRestoreControlsForPhase
ControlsAllow(p) ==
    \A c \in Comp : wasRunning[c] =>
        /\ p \notin BoundaryPhase => ~Pending(c)
        /\ p = "quiesced" => effect[c]["stop"] = "observed" /\ effect[c]["start"] = ""
        /\ p = "runtime-start-succeeded" => effect[c]["start"] = "observed"
        /\ p = "rollback-volume-started" =>
              \/ effect[c]["rollback-stop"] = "observed"
              \/ effect[c]["stop"] = "observed" /\ effect[c]["start"] = ""
        /\ p = "rollback-runtime-succeeded" =>
              \/ effect[c]["rollback-stop"] = "" /\ effect[c]["start"] = "observed"
              \/ effect[c]["rollback-start"] = "observed"

\* RecordRestoreControls: the effect's next state is signed, or the write fails
\* with or without installing it.
Persist(c, a, state, next) ==
    /\ EffectAllowed(a) \/ state = "observed"
    /\ LET signed == [effect EXCEPT ![c][a] = state]
       IN \/ /\ effect' = signed /\ pc' = next
             /\ UNCHANGED <<entry, cur, receipt, faults>>
          \/ Fault /\ effect' \in {effect, signed} /\ Fail
    /\ UNCHANGED <<phase, wasRunning, receipts, writer>>

\* A phase is signed, with the controls it requires.
Enter(p, next) ==
    /\ ControlsAllow(p)
    /\ \/ phase' = p /\ pc' = next /\ cur' = N /\ UNCHANGED <<entry, receipt, faults>>
       \/ Fault /\ phase' \in {phase, p} /\ Fail
    /\ UNCHANGED <<effect, wasRunning, receipts, writer, power, queue, sent>>

-----------------------------------------------------------------------------
(* settleRuntimeControl                                                    *)

\* The action advanceControl asks for, from the phase and the retained effects.
ActionOf(c) ==
    IF phase \in StopPhase
    THEN IF phase \in RollbackPhase THEN "rollback-stop" ELSE "stop"
    ELSE IF effect[c]["rollback-stop"] # "" THEN "rollback-start" ELSE "start"

\* settleControls runs over all components before an application's call; the
\* action's own settlement runs over its component.
Settling(c) == pc = "settle" \/ (pc = "advance" /\ cur = c /\ wasRunning[c])

Requested(c, a) == pc = "advance" /\ a = ActionOf(c)

\* Mutant of SettleRefuses: a control without a receipt is passed over.
RefusesPreparing(c, a) ==
    effect[c][a] = "preparing" \/ (effect[c][a] = "prepared" /\ ~Requested(c, a))

\* A control without a handle, a prepared one other than the requested, and a
\* dispatched one that has no receipt or not left its effect are unresolved.
SettleRefuses(c, a) ==
    \/ effect[c][a] = "preparing"
    \/ effect[c][a] = "prepared" /\ ~Requested(c, a)
    \/ effect[c][a] = "dispatched" /\ \/ a \notin receipt[c]
                                      \/ ~HasEffect(c, a)

\* A retained manager's Complete waits for a queued command; only a canceled
\* wait gives it up.
StillWaits(c) ==
    receipts = "retained" /\ \E a \in queue[c] : effect[c][a] = "dispatched"

\* An earlier dispatch is taken for done on its receipt and its effect.
SettleObserved(c, a) ==
    /\ Settling(c) /\ effect[c][a] = "dispatched" /\ ~SettleRefuses(c, a)
    /\ Persist(c, a, "observed", pc)
    /\ UNCHANGED <<power, queue, sent>>

Settled(c) == \A a \in Action : effect[c][a] # "dispatched" /\ ~SettleRefuses(c, a)

SettleDone ==
    /\ pc = "settle" /\ \A c \in Comp : Settled(c)
    /\ pc' = "advance" /\ cur' = IF phase \in StopPhase THEN N ELSE 1
    /\ UNCHANGED <<journal, manager, entry, faults>>

-----------------------------------------------------------------------------
(* AdvanceRuntimeControl                                                   *)

\* Components are stopped in reverse start order.
NextComponent ==
    LET last == IF phase \in StopPhase THEN cur = 1 ELSE cur = N
        step == IF phase \in StopPhase THEN cur - 1 ELSE cur + 1
    IN /\ pc' = IF last THEN "returned" ELSE "advance"
       /\ cur' = IF last THEN N ELSE step
       /\ UNCHANGED entry

\* A rollback keeps the verified stop of a component not started since, and a
\* component never stopped is not started.
StopStands(c, a) ==
    \/ a = "rollback-stop" /\ effect[c]["start"] = "" /\ effect[c]["stop"] = "observed"
    \/ a = "start" /\ effect[c]["stop"] = ""

NothingToDo(c, a) == ~wasRunning[c] \/ StopStands(c, a) \/ effect[c][a] = "observed"

\* An initially stopped component stays stopped; a start needs its own verified
\* stop; the power is the opposite of the effect before it, the effect's after it.
PowerAllows(c, a) ==
    IF wasRunning[c]
    THEN StopStands(c, a) \/
           /\ a = "start" => effect[c]["stop"] = "observed"
           /\ a = "rollback-start" => effect[c]["rollback-stop"] = "observed"
           /\ effect[c][a] = "" => ~HasEffect(c, a)
           /\ effect[c][a] = "observed" => HasEffect(c, a)
    ELSE ~power[c]

Advancing(c) == pc = "advance" /\ cur = c /\ (wasRunning[c] => Settled(c))

\* The call is refused, or an observation, a validation or a wait fails.
ControlFails(c) ==
    /\ \/ /\ UNCHANGED faults
          /\ \/ Settling(c) /\ ~StillWaits(c) /\ \E a \in Action : SettleRefuses(c, a)
             \/ Advancing(c) /\ ~PowerAllows(c, ActionOf(c))
             \/ pc = "observe" /\ cur = c /\ ~HasEffect(c, ActionOf(c))
       \/ Fault /\ (Settling(c) \/ Advancing(c) \/ (pc = "observe" /\ cur = c))
    /\ Fail
    /\ UNCHANGED <<journal, power, queue, sent>>

AdvanceSkips(c) ==
    /\ Advancing(c) /\ NothingToDo(c, ActionOf(c)) /\ PowerAllows(c, ActionOf(c))
    /\ NextComponent
    /\ UNCHANGED <<journal, manager, faults>>

\* The effect is recorded before the manager is asked for a handle.
AdvancePreparing(c) ==
    LET a == ActionOf(c)
    IN /\ Advancing(c) /\ ~NothingToDo(c, a) /\ PowerAllows(c, a)
       /\ effect[c][a] = ""
       /\ Persist(c, a, "preparing", "prepare")
       /\ UNCHANGED <<power, queue, sent>>

\* The handle is dormant; Prepare itself may fail.
AdvancePrepared(c) ==
    LET a == ActionOf(c)
    IN /\ pc = "prepare" /\ cur = c
       /\ \/ Persist(c, a, "prepared", "advance")
          \/ Fault /\ Fail /\ UNCHANGED journal
       /\ UNCHANGED <<power, queue, sent>>

AdvanceDispatched(c) ==
    LET a == ActionOf(c)
    IN /\ Advancing(c) /\ effect[c][a] = "prepared"
       /\ Persist(c, a, "dispatched", "dispatch")
       /\ UNCHANGED <<power, queue, sent>>

\* Mutant of Dispatch: a failed request is repeated.
DispatchRetried(c) ==
    LET a == ActionOf(c)
    IN /\ pc = "dispatch" /\ cur = c
       /\ queue' = [queue EXCEPT ![c] = @ \cup {a}]
       /\ sent' = [sent EXCEPT ![c][a] = @ + 1]
       /\ \/ pc' = "complete" /\ UNCHANGED faults
          \/ Fault /\ UNCHANGED pc
       /\ UNCHANGED <<journal, power, receipt, entry, cur>>

\* Dispatch, in its only place: an error says nothing about the manager.
Dispatch(c) ==
    LET a == ActionOf(c)
        accepted == /\ queue' = [queue EXCEPT ![c] = @ \cup {a}]
                    /\ sent' = [sent EXCEPT ![c][a] = @ + 1]
    IN /\ pc = "dispatch" /\ cur = c
       /\ \/ accepted /\ pc' = "complete" /\ UNCHANGED <<entry, cur, receipt, faults>>
          \/ Fault /\ Fail /\ (accepted \/ UNCHANGED <<queue, sent>>)
       /\ UNCHANGED <<journal, power>>

\* Complete returns with the receipt, or its wait is canceled.
Complete(c) ==
    LET a == ActionOf(c)
    IN /\ pc = "complete" /\ cur = c
       /\ \/ a \in receipt[c] /\ pc' = "observe" /\ UNCHANGED <<entry, cur, receipt, faults>>
          \/ Fault /\ Fail
       /\ UNCHANGED <<journal, power, queue, sent>>

AdvanceObserved(c) ==
    LET a == ActionOf(c)
    IN /\ pc = "observe" /\ cur = c /\ HasEffect(c, a)
       /\ Persist(c, a, "observed", "advance")
       /\ UNCHANGED <<power, queue, sent>>

-----------------------------------------------------------------------------
(* The manager.                                                            *)

\* A command is executed at any time after it was accepted.  A synchronous
\* call leaves a receipt only with the process that still waits for it.
Execute(c, a) ==
    /\ a \in queue[c]
    /\ queue' = [queue EXCEPT ![c] = @ \ {a}]
    /\ power' = [power EXCEPT ![c] = controlStarts(a)]
    /\ receipt' = IF \/ receipts = "retained"
                     \/ pc = "complete" /\ cur = c /\ a = ActionOf(c)
                  THEN [receipt EXCEPT ![c] = @ \cup {a}] ELSE receipt
    /\ UNCHANGED <<journal, sent, process, faults>>

-----------------------------------------------------------------------------
(* The owning operation: Stop, Start and the phases around them.           *)

\* The runtime's Stop or Start begins.
Call ==
    /\ pc = "call"
    /\ pc' = IF writer = "application" THEN "settle" ELSE "advance"
    /\ cur' = IF phase \in StopPhase THEN N ELSE 1
    /\ UNCHANGED <<journal, manager, entry, faults>>

\* Stop or Start returned: the next phase is signed.
Returned ==
    /\ pc = "returned"
    /\ \/ phase = "quiesce-started" /\ Enter("quiesced", "work")
       \/ phase = "runtime-start-started" /\ Enter("runtime-start-succeeded", "work")
       \/ /\ phase = "rollback-started"
          /\ Enter("rollback-volume-started", "work")
               \/ Enter("rollback-runtime-started", "call")
       \/ /\ phase = "rollback-volume-started"
          /\ Enter("rollback-runtime-started", "call")
       \/ /\ phase = "rollback-runtime-started"
          /\ Enter("rollback-runtime-succeeded", "ended")

\* Volumes are copied, or the started services verified.
Work ==
    /\ pc = "work"
    /\ \/ phase = "quiesced" /\ Enter("runtime-start-started", "call")
       \/ phase = "rollback-volume-started" /\ Enter("rollback-runtime-started", "call")
       \/ /\ phase = "runtime-start-succeeded"
          /\ pc' = "ended" /\ UNCHANGED <<entry, cur, journal, manager, faults>>
       \/ Fault /\ Fail /\ UNCHANGED <<journal, power, queue, sent>>

\* rollbackLocked, of the automatic or an explicit recovery.
Rollback ==
    /\ pc = "recover"
    /\ \/ phase \notin RollbackPhase /\ Enter("rollback-started", "call")
       \/ /\ phase \in RollbackPhase
          /\ pc' = IF phase = "rollback-runtime-succeeded" THEN "ended" ELSE "call"
          /\ UNCHANGED <<entry, cur, journal, manager, faults>>

Recover ==
    /\ pc = "idle" /\ pc' = "recover" /\ entry' = "recover"
    /\ UNCHANGED <<journal, manager, cur, faults>>

Driver ==
    \/ Call \/ SettleDone \/ Returned \/ Work \/ Rollback
    \/ \E c \in Comp :
          \/ ControlFails(c) \/ \E a \in Action : SettleObserved(c, a)
          \/ AdvanceSkips(c) \/ AdvancePreparing(c) \/ AdvancePrepared(c)
          \/ AdvanceDispatched(c) \/ Dispatch(c) \/ Complete(c) \/ AdvanceObserved(c)

Manager == \E c \in Comp, a \in Action : Execute(c, a)

Next == Driver \/ Manager \/ Recover \/ Crash

Spec == Init /\ [][Next]_vars

\* The process goes on, the manager executes what it accepted, and the Owner
\* repeats the recovery.
FairSpec == Spec /\ WF_vars(Driver) /\ WF_vars(Manager) /\ WF_vars(Recover)

-----------------------------------------------------------------------------

\* Type correctness of the journal, the manager and the process.
TypeOK ==
    /\ phase \in RollbackPhase \cup StopPhase \cup StartPhase
                   \cup {"quiesced", "runtime-start-succeeded"}
    /\ effect \in [Comp -> [Action -> EffectState]]
    /\ wasRunning \in [Comp -> BOOLEAN] /\ power \in [Comp -> BOOLEAN]
    /\ receipts \in Receipts /\ writer \in Writers
    /\ queue \in [Comp -> SUBSET Action] /\ receipt \in [Comp -> SUBSET Action]
    /\ sent \in [Comp -> [Action -> Nat]]
    /\ pc \in {"idle", "call", "settle", "advance", "prepare", "dispatch",
               "complete", "observe", "returned", "work", "recover", "ended"}
    /\ entry \in {"none", "activate", "auto", "recover"}
    /\ cur \in Comp /\ faults \in 0..MaxFaults

\* While volumes are copied no component runs, and the manager holds no command
\* that could still start one: a late start of an interrupted call never meets
\* a copy.
QuietWhileCopying ==
    phase \in {"quiesced", "rollback-volume-started"} =>
        \A c \in Comp : ~power[c] /\ \A a \in queue[c] : ~controlStarts(a)

\* A command is sent at most once, and never while an earlier command to the
\* same component has not been executed: the manager cannot execute two in the
\* wrong order.
SentOnceInTurn ==
    \A c \in Comp : /\ \A a \in Action : sent[c][a] <= 1
                    /\ \A a, b \in queue[c] : a = b

\* When the operation has started its services again, after an activation or a
\* rollback, every component has its authenticated initial power and no command
\* is left to change it.
InitialPowerRestored ==
    phase \in {"runtime-start-succeeded", "rollback-runtime-succeeded"} =>
        \A c \in Comp : power[c] = wasRunning[c] /\ queue[c] = {}

\* A control the code declares unresolved for good.
Unresolvable ==
    \E c \in Comp, a \in Action :
        \/ effect[c][a] = "preparing"
        \/ /\ effect[c][a] = "prepared"
           /\ writer = "store" =>
                 a = "stop" \/ (a = "start" /\ phase # "rollback-runtime-started")
        \/ effect[c][a] = "dispatched" /\ a \notin receipt[c] \cup queue[c]

\* The operation ends with its services started, unless an interruption left a
\* control that has no handle, was not dispatched or lost its receipt: neither a
\* signed effect nor a phase's control obligations ever refuse the next call.
ControlsSettle == <>[](pc = "ended" \/ Unresolvable)

-----------------------------------------------------------------------------
(* The inductive invariant behind the three safety properties.             *)

\* The effects of a component advance one after the other.
Before(a, b) ==
    \/ a = "stop" /\ b # "stop"
    \/ a = "start" /\ b \in {"rollback-stop", "rollback-start"}
    \/ a = "rollback-stop" /\ b = "rollback-start"

InTurn(c) ==
    /\ \A a, b \in Action :
          Before(a, b) /\ effect[c][b] # "" => effect[c][a] \in {"", "observed"}
    /\ effect[c]["rollback-start"] # "" => effect[c]["rollback-stop"] # ""

\* The power the observed effects of an initially running component leave.
Expected(c) ==
    IF effect[c]["rollback-start"] = "observed" THEN TRUE
    ELSE IF effect[c]["rollback-stop"] = "observed" THEN FALSE
    ELSE IF effect[c]["start"] = "observed" THEN TRUE
    ELSE effect[c]["stop"] # "observed"

\* An initially stopped component is left alone.  The power of any other one is
\* the expected power, or decided by what became of the dispatched command.
PowerKnown(c) ==
    IF wasRunning[c]
    THEN /\ (\A a \in Action : effect[c][a] # "dispatched") => (power[c] <=> Expected(c))
         /\ \A a \in Action : effect[c][a] = "dispatched" =>
                /\ a \in queue[c] => ~HasEffect(c, a)
                /\ a \in receipt[c] => HasEffect(c, a)
         /\ \A a \in Action :
                effect[c][a] \in {"preparing", "prepared"} => ~HasEffect(c, a)
    ELSE ~power[c] /\ \A a \in Action : effect[c][a] = ""

\* Only a dispatched command waits at the manager, only a sent one has a receipt,
\* and a command not yet dispatched was never sent.
CommandsFollow(c) ==
    \A a \in Action :
        /\ a \in queue[c] => effect[c][a] = "dispatched" /\ a \notin receipt[c]
        /\ a \in receipt[c] => effect[c][a] \in {"dispatched", "observed"}
        /\ sent[c][a] <= 1
        /\ effect[c][a] \notin {"dispatched", "observed"} => sent[c][a] = 0

\* The process that advances a control stands where the signed effect says.
ProcessAt ==
    /\ pc = "prepare" => wasRunning[cur] /\ effect[cur][ActionOf(cur)] = "preparing"
    /\ pc = "dispatch" => /\ effect[cur][ActionOf(cur)] = "dispatched"
                          /\ sent[cur][ActionOf(cur)] = 0
                          /\ ~HasEffect(cur, ActionOf(cur))
                          /\ ActionOf(cur) \notin queue[cur] \cup receipt[cur]
    /\ pc = "complete" => effect[cur][ActionOf(cur)] = "dispatched"
    /\ pc = "observe" => /\ effect[cur][ActionOf(cur)] = "dispatched"
                         /\ ActionOf(cur) \in receipt[cur]
    /\ pc \in {"call", "settle", "advance", "prepare", "dispatch", "complete",
               "observe", "returned"} => phase \in StopPhase \cup StartPhase

\* A phase keeps the controls it was entered with, and rollback effects belong
\* to rollback phases.
PhaseKeepsControls ==
    /\ ControlsAllow(phase)
    /\ \A c \in Comp :
          /\ effect[c]["start"] # "" => phase \notin {"quiesce-started", "quiesced"}
          /\ effect[c]["rollback-stop"] # "" => phase \in RollbackPhase
          /\ effect[c]["rollback-start"] # "" =>
                phase \in {"rollback-runtime-started", "rollback-runtime-succeeded"}

ControlInv ==
    /\ TypeOK /\ ProcessAt /\ PhaseKeepsControls
    /\ \A c \in Comp : InTurn(c) /\ PowerKnown(c) /\ CommandsFollow(c)

=============================================================================
