------------------------ MODULE RuntimeControlProofs ------------------------
(***************************************************************************)
(* Proofs for RuntimeControl: ControlInv is inductive, so volumes are only *)
(* copied while every writer is quiet, a command is sent once and in turn, *)
(* and the initial power comes back, for every number of components, both  *)
(* kinds of writers and drivers and any number of faults.                  *)
(***************************************************************************)
EXTENDS RuntimeControl, TLAPS

\* A failed call leaves the process in its own recovery or gone, and the driver
\* with the receipts it had or with none.
LEMMA FailLeaves ==
    ASSUME TypeOK, Fail \/ ProcessEnds
    PROVE  /\ pc' \in {"recover", "idle"} /\ entry' \in {"auto", "none"}
           /\ cur' \in Comp
           /\ receipt' = receipt \/ receipt' = [c \in Comp |-> {}]
  BY ControlAssumption DEF TypeOK, Fail, ProcessEnds, Comp

\* The first and the last component.
LEMMA FirstAndLast == 1 \in Comp /\ N \in Comp
  BY ControlAssumption DEF Comp

\* Faults are counted.
LEMMA FaultCounted ==
    ASSUME TypeOK, Fault
    PROVE  faults' \in 0..MaxFaults
  BY ControlAssumption DEF TypeOK, Fault

\* A component is stopped or started.
LEMMA ActionTyped ==
    ASSUME NEW c \in Comp
    PROVE  ActionOf(c) \in Action
  BY DEF ActionOf, Action

\* Losing receipts breaks no component's invariant.
LEMMA ReceiptsLost ==
    ASSUME ControlInv, UNCHANGED <<phase, effect, wasRunning, power, queue, sent>>,
           receipt' = receipt \/ receipt' = [c \in Comp |-> {}]
    PROVE  /\ PhaseKeepsControls'
           /\ \A c \in Comp : InTurn(c)' /\ PowerKnown(c)' /\ CommandsFollow(c)'
  <1>1. PhaseKeepsControls'
    BY DEF ControlInv, PhaseKeepsControls, ControlsAllow, Pending
  <1>2. ASSUME NEW c \in Comp PROVE InTurn(c)'
    BY <1>2 DEF ControlInv, InTurn
  <1>3. ASSUME NEW c \in Comp PROVE PowerKnown(c)'
    <2>1. PowerKnown(c)
      BY <1>3 DEF ControlInv
    <2>2. receipt'[c] \subseteq receipt[c]
      BY <1>3
    <2> QED BY <2>1, <2>2 DEF PowerKnown, HasEffect, Expected
  <1>4. ASSUME NEW c \in Comp PROVE CommandsFollow(c)'
    <2>1. CommandsFollow(c)
      BY <1>4 DEF ControlInv
    <2>2. receipt'[c] \subseteq receipt[c]
      BY <1>4
    <2> QED BY <2>1, <2>2 DEF CommandsFollow
  <1> QED BY <1>1, <1>2, <1>3, <1>4

\* A step of the process that leaves journal and manager alone.
LEMMA ProcessMoves ==
    ASSUME ControlInv, UNCHANGED <<journal, power, queue, sent>>,
           receipt' = receipt \/ receipt' = [c \in Comp |-> {}],
           pc' \in {"idle", "call", "settle", "advance", "prepare", "dispatch",
                    "complete", "observe", "returned", "work", "recover", "ended"},
           entry' \in {"none", "activate", "auto", "recover"}, cur' \in Comp,
           faults' \in 0..MaxFaults, ProcessAt'
    PROVE  ControlInv'
  <1>1. UNCHANGED <<phase, effect, wasRunning, receipts, writer, power, queue, sent>>
    BY DEF journal
  <1>2. TypeOK'
    BY <1>1 DEF ControlInv, TypeOK
  <1> QED BY <1>1, <1>2, ReceiptsLost DEF ControlInv

\* A failing call, or the end of the process.
LEMMA FailKeepsInv ==
    ASSUME ControlInv, UNCHANGED <<journal, power, queue, sent>>,
           Fail \/ ProcessEnds, faults' = faults \/ Fault
    PROVE  ControlInv'
  <1>1. TypeOK
    BY DEF ControlInv
  <1>2. faults' \in 0..MaxFaults
    BY <1>1, FaultCounted DEF TypeOK
  <1>3. ProcessAt'
    BY <1>1, FailLeaves DEF ProcessAt
  <1> QED BY <1>1, <1>2, <1>3, FailLeaves, ProcessMoves

\* One effect of one component advances by one state, in its turn.
LEMMA EffectAdvances ==
    ASSUME ControlInv, NEW c \in Comp, NEW a \in Action, NEW s \in EffectState,
           effect' = [effect EXCEPT ![c][a] = s],
           UNCHANGED <<phase, wasRunning, power, queue, sent>>,
           receipt' = receipt \/ receipt' = [d \in Comp |-> {}],
           wasRunning[c], EffectAllowed(a) \/ s = "observed",
           phase \in BoundaryPhase,
           \/ effect[c][a] = "" /\ s = "preparing" /\ ~HasEffect(c, a)
           \/ effect[c][a] = "preparing" /\ s = "prepared"
           \/ effect[c][a] = "prepared" /\ s = "dispatched"
           \/ effect[c][a] = "dispatched" /\ s = "observed" /\ HasEffect(c, a),
           \A b \in Action \ {a} : effect[c][b] \in {"", "observed"},
           \A b \in Action : Before(a, b) => effect[c][b] = "",
           a = "rollback-start" => effect[c]["rollback-stop"] # ""
    PROVE  /\ PhaseKeepsControls'
           /\ \A d \in Comp : InTurn(d)' /\ PowerKnown(d)' /\ CommandsFollow(d)'
  <1>1. /\ effect \in [Comp -> [Action -> EffectState]]
        /\ sent \in [Comp -> [Action -> Nat]]
    BY DEF ControlInv, TypeOK
  <1>2. /\ effect'[c] = [effect[c] EXCEPT ![a] = s]
        /\ \A d \in Comp \ {c} : effect'[d] = effect[d]
    BY <1>1
  <1>3. /\ effect'[c][a] = s
        /\ \A b \in Action \ {a} : effect'[c][b] = effect[c][b]
    BY <1>1, <1>2
  <1>4. \A d \in Comp : receipt'[d] \subseteq receipt[d]
    OBVIOUS
  <1>5. PhaseKeepsControls'
    <2>1. ControlsAllow(phase)'
      BY DEF ControlsAllow, BoundaryPhase
    <2>2. ASSUME NEW d \in Comp
          PROVE  /\ effect'[d]["start"] # "" => phase \notin {"quiesce-started", "quiesced"}
                 /\ effect'[d]["rollback-stop"] # "" => phase \in RollbackPhase
                 /\ effect'[d]["rollback-start"] # "" =>
                      phase \in {"rollback-runtime-started", "rollback-runtime-succeeded"}
      <3>1. CASE d # c
        <4>1. effect'[d] = effect[d]
          BY <1>2, <3>1, <2>2
        <4> QED
          BY <2>2, <4>1 DEF ControlInv, PhaseKeepsControls
      <3>2. CASE d = c
        BY <1>3, <3>2, <2>2
           DEF ControlInv, PhaseKeepsControls, EffectAllowed, RollbackPhase, Action
      <3> QED BY <3>1, <3>2
    <2> QED BY <2>1, <2>2 DEF PhaseKeepsControls
  <1>6. ASSUME NEW d \in Comp PROVE InTurn(d)'
    <2>1. InTurn(d)
      BY <1>6 DEF ControlInv
    <2>2. CASE d # c
      BY <1>2, <2>1, <2>2, <1>6 DEF InTurn
    <2>3. CASE d = c
      <3>0. effect'[c]["rollback-start"] # "" => effect'[c]["rollback-stop"] # ""
        BY <1>3, <2>1, <2>3 DEF InTurn, Action
      <3> SUFFICES ASSUME NEW x \in Action, NEW y \in Action,
                          Before(x, y), effect'[c][y] # ""
                   PROVE  effect'[c][x] \in {"", "observed"}
        BY <2>3, <3>0 DEF InTurn
      <3>1. x # y
        BY DEF Before
      <3>2. CASE x = a
        BY <1>3, <3>1, <3>2
      <3>3. CASE x # a
        BY <1>3, <3>3
      <3> QED BY <3>2, <3>3
    <2> QED BY <2>2, <2>3
  <1>7. ASSUME NEW d \in Comp PROVE CommandsFollow(d)'
    <2>1. CommandsFollow(d)
      BY <1>7 DEF ControlInv
    <2>2. CASE d # c
      BY <1>2, <1>4, <2>1, <2>2, <1>7 DEF CommandsFollow
    <2>3. CASE d = c
      <3> SUFFICES ASSUME NEW x \in Action
                   PROVE  /\ x \in queue[c] => effect'[c][x] = "dispatched" /\ x \notin receipt'[c]
                          /\ x \in receipt'[c] => effect'[c][x] \in {"dispatched", "observed"}
                          /\ sent[c][x] <= 1
                          /\ effect'[c][x] \notin {"dispatched", "observed"} => sent[c][x] = 0
        BY <2>3 DEF CommandsFollow
      <3>1. CASE x # a
        BY <1>3, <1>4, <2>1, <2>3, <3>1 DEF CommandsFollow
      <3>2. CASE x = a
        <4>1. PowerKnown(c)
          BY DEF ControlInv
        <4>2. s = "observed" => a \notin queue[c]
          BY <4>1, <1>1 DEF PowerKnown, HasEffect
        <4> QED BY <1>3, <1>4, <2>1, <2>3, <3>2, <4>2 DEF CommandsFollow
      <3> QED BY <3>1, <3>2
    <2> QED BY <2>2, <2>3
  <1>8. ASSUME NEW d \in Comp PROVE PowerKnown(d)'
    <2>1. PowerKnown(d) /\ CommandsFollow(d)
      BY <1>8 DEF ControlInv
    <2>2. CASE d # c
      <3>1. effect'[d] = effect[d] /\ (Expected(d)' <=> Expected(d))
        BY <1>2, <2>2, <1>8 DEF Expected
      <3> QED BY <1>4, <2>1, <3>1, <1>8 DEF PowerKnown, HasEffect
    <2>3. CASE d = c
      <3>1. CASE s \in {"preparing", "prepared"}
        <4>1. \A x \in Action : effect[c][x] # "dispatched" /\ effect'[c][x] # "dispatched"
          BY <1>3, <3>1
        <4>2. Expected(c)' <=> Expected(c)
          BY <1>3, <3>1 DEF Expected, Action
        <4>3. \A x \in Action : effect'[c][x] \in {"preparing", "prepared"} => x = a
          BY <1>3, <3>1
        <4>4. ~HasEffect(c, a)
          BY <2>1, <2>3, <3>1 DEF PowerKnown
        <4> QED BY <4>1, <4>2, <4>3, <4>4, <2>1, <2>3 DEF PowerKnown, HasEffect
      <3>2. CASE s = "dispatched"
        <4>1. \A x \in Action : effect'[c][x] = "dispatched" => x = a
          BY <1>3, <3>2
        <4>2. a \notin queue[c] /\ a \notin receipt[c]
          BY <2>1, <2>3, <3>2 DEF CommandsFollow
        <4>3. ~(\A x \in Action : effect'[c][x] # "dispatched")
          BY <1>3, <3>2
        <4>4. \A x \in Action : effect'[c][x] \notin {"preparing", "prepared"}
          BY <1>3, <3>2
        <4> QED BY <4>1, <4>2, <4>3, <4>4, <1>4, <2>3 DEF PowerKnown, HasEffect
      <3>3. CASE s = "observed"
        <4>1. \A x \in Action : effect'[c][x] # "dispatched"
          BY <1>3, <3>3
        <4>2. Expected(c)' <=> controlStarts(a)
          <5>1. CASE a = "stop"
            BY <1>3, <3>3, <5>1 DEF Expected, controlStarts, Before, Action
          <5>2. CASE a = "start"
            BY <1>3, <3>3, <5>2 DEF Expected, controlStarts, Before, Action
          <5>3. CASE a = "rollback-stop"
            BY <1>3, <3>3, <5>3 DEF Expected, controlStarts, Before, Action
          <5>4. CASE a = "rollback-start"
            BY <1>3, <3>3, <5>4 DEF Expected, controlStarts, Before, Action
          <5> QED BY <5>1, <5>2, <5>3, <5>4 DEF Action
        <4>3. HasEffect(c, a)
          BY <3>3
        <4>4. \A x \in Action : effect'[c][x] \notin {"preparing", "prepared"}
          BY <1>3, <3>3
        <4> QED BY <4>1, <4>2, <4>3, <4>4, <2>3 DEF PowerKnown, HasEffect
      <3> QED BY <3>1, <3>2, <3>3 DEF EffectState
    <2> QED BY <2>2, <2>3
  <1> QED BY <1>5, <1>6, <1>7, <1>8

\* A pending effect is the only one of its component, in its turn.
LEMMA PendingAlone ==
    ASSUME ControlInv, NEW c \in Comp, NEW a \in Action,
           effect[c][a] \in {"preparing", "prepared", "dispatched"}
    PROVE  /\ wasRunning[c] /\ phase \in BoundaryPhase
           /\ \A b \in Action \ {a} : effect[c][b] \in {"", "observed"}
           /\ \A b \in Action : Before(a, b) => effect[c][b] = ""
           /\ a = "rollback-start" => effect[c]["rollback-stop"] # ""
  <1>1. InTurn(c) /\ PowerKnown(c) /\ ControlsAllow(phase)
    BY DEF ControlInv, PhaseKeepsControls
  <1>2. wasRunning[c]
    BY <1>1 DEF PowerKnown
  <1>3. phase \in BoundaryPhase
    BY <1>1, <1>2 DEF ControlsAllow, Pending
  <1>4. \A b \in Action : Before(a, b) => effect[c][b] = ""
    BY <1>1 DEF InTurn
  <1>5. \A b \in Action \ {a} : Before(a, b) \/ Before(b, a)
    BY DEF Before, Action
  <1>6. \A b \in Action : Before(b, a) => effect[c][b] \in {"", "observed"}
    BY <1>1 DEF InTurn
  <1>7. \A b \in Action \ {a} : effect[c][b] \in {"", "observed"}
    BY <1>4, <1>5, <1>6
  <1>8. a = "rollback-start" => effect[c]["rollback-stop"] # ""
    BY <1>1 DEF InTurn
  <1> QED BY <1>2, <1>3, <1>4, <1>7, <1>8

\* Signing an effect's next state, with or without success.
LEMMA PersistKeepsInv ==
    ASSUME ControlInv, NEW c \in Comp, NEW a \in Action, NEW s \in EffectState,
           NEW next \in {"settle", "advance", "prepare", "dispatch"},
           Persist(c, a, s, next), UNCHANGED <<power, queue, sent>>,
           wasRunning[c], phase \in BoundaryPhase,
           \/ effect[c][a] = "" /\ s = "preparing" /\ ~HasEffect(c, a)
           \/ effect[c][a] = "preparing" /\ s = "prepared"
           \/ effect[c][a] = "prepared" /\ s = "dispatched"
           \/ effect[c][a] = "dispatched" /\ s = "observed" /\ HasEffect(c, a),
           \A b \in Action \ {a} : effect[c][b] \in {"", "observed"},
           \A b \in Action : Before(a, b) => effect[c][b] = "",
           a = "rollback-start" => effect[c]["rollback-stop"] # "",
           effect' = [effect EXCEPT ![c][a] = s] /\ pc' = next
             /\ cur' = cur /\ receipt' = receipt => ProcessAt'
    PROVE  ControlInv'
  <1>1. TypeOK
    BY DEF ControlInv
  <1>2. UNCHANGED <<phase, wasRunning, receipts, writer>> /\ (EffectAllowed(a) \/ s = "observed")
    BY DEF Persist
  <1>3. [effect EXCEPT ![c][a] = s] \in [Comp -> [Action -> EffectState]]
    BY <1>1 DEF TypeOK
  <1>4. CASE /\ effect' = [effect EXCEPT ![c][a] = s] /\ pc' = next
             /\ UNCHANGED <<entry, cur, receipt, faults>>
    <2>1. TypeOK'
      BY <1>1, <1>2, <1>3, <1>4 DEF TypeOK
    <2>2. ProcessAt'
      BY <1>4
    <2> QED BY <1>2, <1>4, <2>1, <2>2, EffectAdvances DEF ControlInv
  <1>5. CASE Fault /\ effect' = effect /\ Fail
    BY <1>2, <1>5, FailKeepsInv DEF journal
  <1>6. CASE Fault /\ effect' = [effect EXCEPT ![c][a] = s] /\ Fail
    <2>1. /\ pc' \in {"recover", "idle"} /\ entry' \in {"auto", "none"} /\ cur' \in Comp
          /\ receipt' = receipt \/ receipt' = [d \in Comp |-> {}]
      BY <1>1, <1>6, FailLeaves
    <2>2. TypeOK'
      BY <1>1, <1>2, <1>3, <1>6, <2>1, FaultCounted DEF TypeOK
    <2>3. ProcessAt'
      BY <2>1 DEF ProcessAt
    <2> QED BY <1>2, <1>6, <2>1, <2>2, <2>3, EffectAdvances DEF ControlInv
  <1> QED BY <1>4, <1>5, <1>6 DEF Persist

-----------------------------------------------------------------------------
(* One lemma per kind of step.                                             *)

\* The same action is asked for after its effect has advanced.
LEMMA SameAction ==
    ASSUME ControlInv, NEW c \in Comp, NEW s \in EffectState, UNCHANGED phase,
           effect' = [effect EXCEPT ![c][ActionOf(c)] = s]
    PROVE  /\ ActionOf(c)' = ActionOf(c)
           /\ effect'[c][ActionOf(c)] = s
  <1>1. effect \in [Comp -> [Action -> EffectState]] /\ ActionOf(c) \in Action
    BY ActionTyped DEF ControlInv, TypeOK
  <1>2. effect'[c] = [effect[c] EXCEPT ![ActionOf(c)] = s]
    BY <1>1
  <1>3. effect'[c][ActionOf(c)] = s
    BY <1>1, <1>2
  <1>4. CASE phase \in StopPhase
    BY <1>3, <1>4 DEF ActionOf
  <1>5. CASE phase \notin StopPhase
    <2>1. ActionOf(c) # "rollback-stop"
      BY <1>5 DEF ActionOf
    <2>2. effect'[c]["rollback-stop"] = effect[c]["rollback-stop"]
      BY <1>1, <1>2, <2>1 DEF Action
    <2> QED BY <1>3, <1>5, <2>2 DEF ActionOf
  <1> QED BY <1>3, <1>4, <1>5

\* An effect is recorded as preparing before its exec exists.
LEMMA AdvancePreparingKeepsInv ==
    ASSUME ControlInv, NEW c \in Comp, AdvancePreparing(c)
    PROVE  ControlInv'
  <1> DEFINE a == ActionOf(c)
  <1>1. /\ pc = "advance" /\ cur = c /\ ~NothingToDo(c, a) /\ effect[c][a] = ""
        /\ Persist(c, a, "preparing", "prepare") /\ UNCHANGED <<power, queue, sent>>
        /\ wasRunning[c] /\ Settled(c) /\ ~HasEffect(c, a)
    BY DEF AdvancePreparing, Advancing, NothingToDo, PowerAllows
  <1>2. a \in Action /\ EffectAllowed(a) /\ UNCHANGED phase
    BY <1>1, ActionTyped DEF Persist
  <1>3. \A b \in Action : effect[c][b] \in {"", "observed"}
    <2>1. \A b \in Action : effect[c][b] \in EffectState
      BY DEF ControlInv, TypeOK
    <2> QED BY <1>1, <2>1 DEF Settled, SettleRefuses, Requested, EffectState
  <1>4. phase \in StopPhase \cup StartPhase
    BY <1>1 DEF ControlInv, ProcessAt
  <1>5. phase \in BoundaryPhase
    <2>1. phase # "rollback-volume-started"
      BY <1>1, <1>2 DEF ControlInv, PhaseKeepsControls, ControlsAllow, NothingToDo,
         StopStands, ActionOf, StopPhase, RollbackPhase
    <2> QED BY <1>4, <2>1 DEF StopPhase, StartPhase, BoundaryPhase
  <1>6. /\ a = "rollback-start" => effect[c]["rollback-stop"] # ""
        /\ a = "start" => effect[c]["rollback-stop"] = ""
    BY DEF ActionOf
  <1>7. \A b \in Action : Before(a, b) => effect[c][b] = ""
    <2>1. PhaseKeepsControls /\ InTurn(c)
      BY DEF ControlInv
    <2>2. CASE a = "stop"
      BY <1>2, <2>1, <2>2
         DEF PhaseKeepsControls, EffectAllowed, Before, Action, RollbackPhase
    <2>3. CASE a = "start"
      BY <1>6, <2>1, <2>3 DEF InTurn, Before, Action
    <2>4. CASE a = "rollback-stop"
      BY <1>2, <2>1, <2>4 DEF PhaseKeepsControls, EffectAllowed, Before, Action
    <2>5. CASE a = "rollback-start"
      BY <2>5 DEF Before, Action
    <2> QED BY <1>2, <2>2, <2>3, <2>4, <2>5 DEF Action
  <1>8. ASSUME effect' = [effect EXCEPT ![c][a] = "preparing"], pc' = "prepare",
               cur' = cur, receipt' = receipt
        PROVE  ProcessAt'
    <2>1. ActionOf(c)' = a /\ effect'[c][a] = "preparing" /\ wasRunning'[c]
      BY <1>1, <1>2, <1>8, SameAction DEF EffectState, Persist
    <2> QED BY <1>1, <1>2, <1>4, <1>8, <2>1 DEF ProcessAt
  <1>9. "preparing" \in EffectState
    BY DEF EffectState
  <1> HIDE DEF a
  <1> QED BY <1>1, <1>2, <1>3, <1>5, <1>6, <1>7, <1>8, <1>9, PersistKeepsInv

\* Its exec is recorded as prepared.
LEMMA AdvancePreparedKeepsInv ==
    ASSUME ControlInv, NEW c \in Comp, AdvancePrepared(c)
    PROVE  ControlInv'
  <1> DEFINE a == ActionOf(c)
  <1>1. pc = "prepare" /\ cur = c /\ UNCHANGED <<power, queue, sent>>
    BY DEF AdvancePrepared
  <1>2. effect[c][a] = "preparing" /\ a \in Action /\ phase \in StopPhase \cup StartPhase
    BY <1>1, ActionTyped DEF ControlInv, ProcessAt
  <1>3. CASE Fault /\ Fail /\ UNCHANGED journal
    BY <1>1, <1>3, FailKeepsInv
  <1>4. CASE Persist(c, a, "prepared", "advance")
    <2>1. pc' = "advance" /\ UNCHANGED phase => ProcessAt'
      BY <1>2 DEF ProcessAt
    <2>2. UNCHANGED phase
      BY <1>4 DEF Persist
    <2>3. "prepared" \in EffectState
      BY DEF EffectState
    <2>4. /\ wasRunning[c] /\ phase \in BoundaryPhase
          /\ \A b \in Action \ {a} : effect[c][b] \in {"", "observed"}
          /\ \A b \in Action : Before(a, b) => effect[c][b] = ""
          /\ a = "rollback-start" => effect[c]["rollback-stop"] # ""
      BY <1>2, PendingAlone
    <2> HIDE DEF a
    <2> QED BY <1>1, <1>2, <1>4, <2>1, <2>2, <2>3, <2>4, PersistKeepsInv
  <1> QED BY <1>3, <1>4 DEF AdvancePrepared

\* Its dispatch is recorded before it is sent.
LEMMA AdvanceDispatchedKeepsInv ==
    ASSUME ControlInv, NEW c \in Comp, AdvanceDispatched(c)
    PROVE  ControlInv'
  <1> DEFINE a == ActionOf(c)
  <1>1. /\ pc = "advance" /\ cur = c /\ UNCHANGED <<power, queue, sent>>
        /\ effect[c][a] = "prepared" /\ Persist(c, a, "dispatched", "dispatch")
    BY DEF AdvanceDispatched, Advancing
  <1>2. a \in Action /\ UNCHANGED phase /\ phase \in StopPhase \cup StartPhase
    BY <1>1, ActionTyped DEF Persist, ControlInv, ProcessAt
  <1>3. sent[c][a] = 0 /\ a \notin queue[c] /\ a \notin receipt[c] /\ ~HasEffect(c, a)
    BY <1>1, <1>2 DEF ControlInv, CommandsFollow, PowerKnown
  <1>4. "dispatched" \in EffectState
    BY DEF EffectState
  <1>5. ASSUME effect' = [effect EXCEPT ![c][a] = "dispatched"], pc' = "dispatch",
               cur' = cur, receipt' = receipt
        PROVE  ProcessAt'
    <2>1. ActionOf(c)' = a /\ effect'[c][a] = "dispatched"
      BY <1>2, <1>4, <1>5, SameAction
    <2>2. ~HasEffect(c, ActionOf(c))'
      BY <1>1, <1>3, <2>1 DEF HasEffect, controlStarts
    <2> QED BY <1>1, <1>2, <1>3, <1>5, <2>1, <2>2 DEF ProcessAt
  <1>6. /\ wasRunning[c] /\ phase \in BoundaryPhase
        /\ \A b \in Action \ {a} : effect[c][b] \in {"", "observed"}
        /\ \A b \in Action : Before(a, b) => effect[c][b] = ""
        /\ a = "rollback-start" => effect[c]["rollback-stop"] # ""
    BY <1>1, <1>2, PendingAlone
  <1> HIDE DEF a
  <1> QED BY <1>1, <1>2, <1>4, <1>5, <1>6, PersistKeepsInv

\* An observed effect is recorded.
LEMMA ObservedKeepsInv ==
    ASSUME ControlInv, NEW c \in Comp, NEW a \in Action,
           NEW next \in {"settle", "advance"},
           effect[c][a] = "dispatched", HasEffect(c, a),
           Persist(c, a, "observed", next), UNCHANGED <<power, queue, sent>>,
           phase \in StopPhase \cup StartPhase
    PROVE  ControlInv'
  <1>1. UNCHANGED phase /\ (pc' = next => ProcessAt')
    BY DEF Persist, ProcessAt
  <1>2. "observed" \in EffectState
    BY DEF EffectState
  <1>3. /\ wasRunning[c] /\ phase \in BoundaryPhase
        /\ \A b \in Action \ {a} : effect[c][b] \in {"", "observed"}
        /\ \A b \in Action : Before(a, b) => effect[c][b] = ""
        /\ a = "rollback-start" => effect[c]["rollback-stop"] # ""
    BY PendingAlone
  <1> QED BY <1>1, <1>2, <1>3, PersistKeepsInv

\* It is observed by a settlement or by the advance itself.
LEMMA SettlingKeepsInv ==
    ASSUME ControlInv, NEW c \in Comp, NEW a \in Action,
           SettleObserved(c, a) \/ (AdvanceObserved(c) /\ a = ActionOf(c))
    PROVE  ControlInv'
  <1>1. CASE SettleObserved(c, a)
    <2>1. /\ pc \in {"settle", "advance"} /\ effect[c][a] = "dispatched" /\ HasEffect(c, a)
          /\ Persist(c, a, "observed", pc) /\ UNCHANGED <<power, queue, sent>>
      BY <1>1 DEF SettleObserved, Settling, SettleRefuses
    <2>2. phase \in StopPhase \cup StartPhase
      BY <2>1 DEF ControlInv, ProcessAt
    <2> QED BY <2>1, <2>2, ObservedKeepsInv
  <1>2. CASE AdvanceObserved(c) /\ a = ActionOf(c)
    <2>1. /\ pc = "observe" /\ cur = c /\ HasEffect(c, a)
          /\ Persist(c, a, "observed", "advance") /\ UNCHANGED <<power, queue, sent>>
      BY <1>2 DEF AdvanceObserved
    <2>2. effect[c][a] = "dispatched" /\ phase \in StopPhase \cup StartPhase
      BY <1>2, <2>1 DEF ControlInv, ProcessAt
    <2> QED BY <2>1, <2>2, ObservedKeepsInv
  <1> QED BY <1>1, <1>2

\* The command reaches the manager, whether its sender hears of it or not.
LEMMA DispatchKeepsInv ==
    ASSUME ControlInv, NEW c \in Comp, Dispatch(c)
    PROVE  ControlInv'
  <1> DEFINE a == ActionOf(c)
             accepted == /\ queue' = [queue EXCEPT ![c] = @ \cup {a}]
                         /\ sent' = [sent EXCEPT ![c][a] = @ + 1]
  <1>1. pc = "dispatch" /\ cur = c /\ UNCHANGED <<journal, power>>
    BY DEF Dispatch
  <1>2. \/ /\ accepted /\ pc' = "complete" /\ UNCHANGED <<entry, cur, receipt, faults>>
        \/ Fault /\ Fail /\ (accepted \/ UNCHANGED <<queue, sent>>)
    BY DEF Dispatch
  <1>3. /\ a \in Action /\ effect[c][a] = "dispatched" /\ sent[c][a] = 0
        /\ ~HasEffect(c, a)
        /\ a \notin queue[c] /\ a \notin receipt[c]
        /\ phase \in StopPhase \cup StartPhase
    BY <1>1, ActionTyped DEF ControlInv, ProcessAt
  <1>4. UNCHANGED <<phase, effect, wasRunning, receipts, writer, power>> /\ TypeOK
    BY <1>1 DEF journal, ControlInv
  <1>5. CASE Fault /\ Fail /\ UNCHANGED <<queue, sent>>
    BY <1>1, <1>5, FailKeepsInv
  <1>6. CASE accepted
    <2>1. /\ pc' \in {"complete", "recover", "idle"} /\ cur' \in Comp
          /\ entry' \in {"none", "activate", "auto", "recover"}
          /\ receipt' = receipt \/ receipt' = [d \in Comp |-> {}]
          /\ faults' \in 0..MaxFaults /\ (pc' = "complete" => cur' = cur)
      BY <1>2, <1>4, FailLeaves, FaultCounted DEF TypeOK
    <2>2. /\ queue'[c] = queue[c] \cup {a} /\ sent'[c] = [sent[c] EXCEPT ![a] = @ + 1]
          /\ \A d \in Comp \ {c} : queue'[d] = queue[d] /\ sent'[d] = sent[d]
      BY <1>4, <1>6 DEF TypeOK
    <2>3. sent'[c][a] = 1 /\ \A b \in Action \ {a} : sent'[c][b] = sent[c][b]
      BY <1>3, <1>4, <2>2 DEF TypeOK
    <2>4. TypeOK'
      BY <1>3, <1>4, <1>6, <2>1 DEF TypeOK
    <2>5. PhaseKeepsControls'
      BY <1>4 DEF ControlInv, PhaseKeepsControls, ControlsAllow, Pending
    <2>6. ActionOf(c)' = a /\ ProcessAt'
      <3>1. ActionOf(c)' = a
        BY <1>4 DEF ActionOf
      <3> QED BY <1>1, <1>3, <1>4, <2>1, <3>1 DEF ProcessAt
    <2>7. \A d \in Comp : receipt'[d] \subseteq receipt[d]
      BY <2>1
    <2>8. ASSUME NEW d \in Comp PROVE InTurn(d)' /\ CommandsFollow(d)'
      <3>1. InTurn(d) /\ CommandsFollow(d)
        BY <2>8 DEF ControlInv
      <3>2. InTurn(d)'
        BY <1>4, <3>1 DEF InTurn
      <3>3. CASE d # c
        BY <1>4, <2>2, <2>7, <2>8, <3>1, <3>2, <3>3 DEF CommandsFollow
      <3>4. CASE d = c
        <4> SUFFICES ASSUME NEW x \in Action
                     PROVE  /\ x \in queue'[c] =>
                                 effect[c][x] = "dispatched" /\ x \notin receipt'[c]
                            /\ x \in receipt'[c] => effect[c][x] \in {"dispatched", "observed"}
                            /\ sent'[c][x] <= 1
                            /\ effect[c][x] \notin {"dispatched", "observed"} => sent'[c][x] = 0
          BY <1>4, <3>2, <3>4 DEF CommandsFollow
        <4>1. CASE x = a
          BY <1>3, <2>2, <2>3, <2>7, <4>1
        <4>2. CASE x # a
          BY <2>2, <2>3, <2>7, <3>1, <3>4, <4>2 DEF CommandsFollow
        <4> QED BY <4>1, <4>2
      <3> QED BY <3>3, <3>4
    <2>9. ASSUME NEW d \in Comp PROVE PowerKnown(d)'
      <3>1. PowerKnown(d) /\ (Expected(d)' <=> Expected(d))
        BY <1>4, <2>9 DEF ControlInv, Expected
      <3>2. CASE d # c
        BY <1>4, <2>2, <2>7, <2>9, <3>1, <3>2 DEF PowerKnown, HasEffect
      <3>3. CASE d = c
        BY <1>3, <1>4, <2>2, <2>7, <3>1, <3>3 DEF PowerKnown, HasEffect
      <3> QED BY <3>2, <3>3
    <2> QED BY <2>4, <2>5, <2>6, <2>8, <2>9 DEF ControlInv
  <1> QED BY <1>2, <1>5, <1>6

\* The manager executes the only command a component waits for.
LEMMA ExecuteKeepsInv ==
    ASSUME ControlInv, NEW c \in Comp, NEW a \in Action, Execute(c, a)
    PROVE  ControlInv'
  <1>1. /\ a \in queue[c] /\ queue' = [queue EXCEPT ![c] = @ \ {a}]
        /\ power' = [power EXCEPT ![c] = controlStarts(a)]
        /\ receipt' = [receipt EXCEPT ![c] = @ \cup {a}] \/ receipt' = receipt
        /\ UNCHANGED <<phase, effect, wasRunning, receipts, writer, sent, pc, entry, cur, faults>>
    BY DEF Execute, journal, process
  <1>2. TypeOK /\ InTurn(c) /\ CommandsFollow(c) /\ PowerKnown(c)
    BY DEF ControlInv
  <1>3. effect[c][a] = "dispatched" /\ a \notin receipt[c]
    BY <1>1, <1>2 DEF CommandsFollow
  <1>4. /\ wasRunning[c]
        /\ \A b \in Action \ {a} : effect[c][b] \in {"", "observed"}
    BY <1>3, PendingAlone
  <1>5. /\ queue'[c] = queue[c] \ {a} /\ (power'[c] <=> controlStarts(a))
        /\ receipt'[c] \in {receipt[c], receipt[c] \cup {a}}
        /\ \A d \in Comp \ {c} : /\ queue'[d] = queue[d] /\ power'[d] = power[d]
                                 /\ receipt'[d] = receipt[d]
    BY <1>1, <1>2 DEF TypeOK
  <1>6. TypeOK'
    <2>1. controlStarts(a) \in BOOLEAN
      BY DEF controlStarts
    <2>2. queue' \in [Comp -> SUBSET Action] /\ power' \in [Comp -> BOOLEAN]
      BY <1>1, <1>2, <2>1 DEF TypeOK
    <2>3. receipt' \in [Comp -> SUBSET Action]
      BY <1>1, <1>2 DEF TypeOK
    <2> QED BY <1>1, <1>2, <2>2, <2>3 DEF TypeOK
  <1>7. PhaseKeepsControls'
    BY <1>1 DEF ControlInv, PhaseKeepsControls, ControlsAllow, Pending
  <1>8. ProcessAt'
    <2>1. cur \in Comp /\ ActionOf(cur) \in Action /\ ActionOf(cur)' = ActionOf(cur)
      BY <1>1, <1>2, ActionTyped DEF TypeOK, ActionOf
    <2>2. ASSUME pc = "dispatch" PROVE cur # c
      BY <1>1, <1>3, <1>4, <2>1, <2>2 DEF ControlInv, ProcessAt
    <2>3. ASSUME pc = "dispatch" PROVE ~HasEffect(cur, ActionOf(cur))'
      BY <1>1, <1>5, <2>1, <2>2, <2>3 DEF ControlInv, ProcessAt, HasEffect, controlStarts
    <2>4. pc = "observe" => ActionOf(cur) \in receipt'[cur]
      BY <1>5, <2>1 DEF ControlInv, ProcessAt
    <2>5. pc = "dispatch" => ActionOf(cur) \notin queue'[cur] \cup receipt'[cur]
      BY <1>5, <2>1, <2>2 DEF ControlInv, ProcessAt
    <2> QED BY <1>1, <2>1, <2>3, <2>4, <2>5 DEF ControlInv, ProcessAt
  <1>9. ASSUME NEW d \in Comp PROVE InTurn(d)' /\ CommandsFollow(d)' /\ PowerKnown(d)'
    <2>1. InTurn(d)'
      BY <1>1, <1>9 DEF ControlInv, InTurn
    <2>2. CommandsFollow(d) /\ PowerKnown(d) /\ (Expected(d)' <=> Expected(d))
      BY <1>1, <1>9 DEF ControlInv, Expected
    <2>3. CASE d # c
      <3>1. queue'[d] = queue[d] /\ receipt'[d] = receipt[d] /\ power'[d] = power[d]
        BY <1>5, <1>9, <2>3
      <3>2. CommandsFollow(d)'
        BY <1>1, <2>2, <3>1 DEF CommandsFollow
      <3>3. PowerKnown(d)'
        BY <1>1, <2>2, <3>1 DEF PowerKnown, HasEffect
      <3> QED BY <2>1, <3>2, <3>3
    <2>4. CASE d = c
      <3>1. CommandsFollow(c)'
        BY <1>1, <1>2, <1>3, <1>5 DEF CommandsFollow
      <3>2. PowerKnown(c)'
        <4>1. \A x \in Action : effect'[c][x] = "dispatched" => x = a
          BY <1>1, <1>4
        <4>2. \A x \in Action : effect'[c][x] \notin {"preparing", "prepared"}
          BY <1>1, <1>3, <1>4
        <4>3. ~(\A x \in Action : effect'[c][x] # "dispatched")
          BY <1>1, <1>3
        <4> QED BY <1>1, <1>4, <1>5, <4>1, <4>2, <4>3 DEF PowerKnown, HasEffect
      <3> QED BY <2>1, <2>4, <3>1, <3>2
    <2> QED BY <2>3, <2>4
  <1> QED BY <1>6, <1>7, <1>8, <1>9 DEF ControlInv

\* A phase is entered with the controls it requires.
LEMMA EnterKeepsInv ==
    ASSUME ControlInv, NEW p \in RollbackPhase \cup StopPhase \cup StartPhase
                                  \cup {"quiesced", "runtime-start-succeeded"},
           NEW next \in {"work", "call", "ended"}, Enter(p, next),
           next = "call" => p \in StopPhase \cup StartPhase,
           \A c \in Comp :
              /\ effect[c]["start"] # "" => p \notin {"quiesce-started", "quiesced"}
              /\ effect[c]["rollback-stop"] # "" => p \in RollbackPhase
              /\ effect[c]["rollback-start"] # "" =>
                    p \in {"rollback-runtime-started", "rollback-runtime-succeeded"}
    PROVE  ControlInv'
  <1>1. /\ TypeOK /\ ControlsAllow(p)
        /\ UNCHANGED <<effect, wasRunning, receipts, writer, power, queue, sent>>
    BY DEF ControlInv, Enter
  <1>2. phase' \in {phase, p} /\ cur' \in Comp /\ faults' \in 0..MaxFaults
        /\ entry' \in {"none", "activate", "auto", "recover"}
        /\ (receipt' = receipt \/ receipt' = [d \in Comp |-> {}])
        /\ (pc' \in {"recover", "idle"} \/ (pc' = next /\ phase' = p))
    <2>1. CASE phase' = p /\ pc' = next /\ cur' = N /\ UNCHANGED <<entry, receipt, faults>>
      <3>1. N \in Comp
        BY FirstAndLast
      <3>2. entry \in {"none", "activate", "auto", "recover"} /\ faults \in 0..MaxFaults
        BY <1>1 DEF TypeOK
      <3> QED BY <2>1, <3>1, <3>2
    <2>2. CASE Fault /\ phase' \in {phase, p} /\ Fail
      BY <1>1, <2>2, FailLeaves, FaultCounted
    <2> QED BY <2>1, <2>2 DEF Enter
  <1>3. TypeOK'
    BY <1>1, <1>2 DEF TypeOK
  <1>4. ProcessAt'
    BY <1>2 DEF ProcessAt
  <1>5. PhaseKeepsControls'
    <2>1. ControlsAllow(phase)'
      <3>1. ControlsAllow(phase)
        BY DEF ControlInv, PhaseKeepsControls
      <3>2. \A c \in Comp : Pending(c)' <=> Pending(c)
        BY <1>1 DEF Pending
      <3>3. CASE phase' = phase
        BY <1>1, <3>1, <3>2, <3>3 DEF ControlsAllow
      <3>4. CASE phase' = p
        BY <1>1, <3>2, <3>4 DEF ControlsAllow
      <3> QED BY <1>2, <3>3, <3>4
    <2> QED BY <1>1, <1>2, <2>1 DEF ControlInv, PhaseKeepsControls
  <1>6. ASSUME NEW c \in Comp PROVE InTurn(c)' /\ PowerKnown(c)' /\ CommandsFollow(c)'
    <2>1. InTurn(c) /\ PowerKnown(c) /\ CommandsFollow(c) /\ (Expected(c)' <=> Expected(c))
      BY <1>1, <1>6 DEF ControlInv, Expected
    <2>2. receipt'[c] \subseteq receipt[c]
      BY <1>2, <1>6
    <2>3. InTurn(c)'
      BY <1>1, <2>1 DEF InTurn
    <2>4. CommandsFollow(c)'
      BY <1>1, <2>1, <2>2 DEF CommandsFollow
    <2>5. PowerKnown(c)'
      BY <1>1, <2>1, <2>2 DEF PowerKnown, HasEffect
    <2> QED BY <2>3, <2>4, <2>5
  <1> QED BY <1>3, <1>4, <1>5, <1>6 DEF ControlInv

\* Stop and Start return to the phase sequence of the activation and the rollback.
LEMMA OwnerKeepsInv ==
    ASSUME ControlInv, Returned \/ Work \/ Rollback
    PROVE  ControlInv'
  <1>1. TypeOK /\ PhaseKeepsControls
    BY DEF ControlInv
  <1>2. ASSUME NEW p, NEW next, Enter(p, next),
               \/ phase = "quiesce-started" /\ p = "quiesced" /\ next = "work"
               \/ phase = "runtime-start-started" /\ p = "runtime-start-succeeded" /\ next = "work"
               \/ phase = "rollback-started" /\ p = "rollback-volume-started" /\ next = "work"
               \/ /\ phase \in {"rollback-started", "rollback-volume-started"}
                  /\ p = "rollback-runtime-started" /\ next = "call"
               \/ /\ phase = "rollback-runtime-started"
                  /\ p = "rollback-runtime-succeeded" /\ next = "ended"
               \/ phase = "quiesced" /\ p = "runtime-start-started" /\ next = "call"
               \/ phase \notin RollbackPhase /\ p = "rollback-started" /\ next = "call"
        PROVE  ControlInv'
    <2>1. p \in RollbackPhase \cup StopPhase \cup StartPhase
                 \cup {"quiesced", "runtime-start-succeeded"}
      BY <1>2 DEF RollbackPhase, StopPhase, StartPhase
    <2>2. next \in {"work", "call", "ended"} /\ (next = "call" => p \in StopPhase \cup StartPhase)
      BY <1>2 DEF StopPhase, StartPhase
    <2>3. ASSUME NEW c \in Comp
          PROVE  /\ effect[c]["start"] # "" => p \notin {"quiesce-started", "quiesced"}
                 /\ effect[c]["rollback-stop"] # "" => p \in RollbackPhase
                 /\ effect[c]["rollback-start"] # "" =>
                       p \in {"rollback-runtime-started", "rollback-runtime-succeeded"}
      BY <1>1, <1>2, <2>3 DEF PhaseKeepsControls, RollbackPhase
    <2> QED BY <1>2, <2>1, <2>2, <2>3, EnterKeepsInv
  <1>3. ASSUME pc' \in {"ended", "call"}, UNCHANGED <<entry, cur, journal, manager, faults>>,
               pc' = "call" => phase \in StopPhase \cup StartPhase
        PROVE  ControlInv'
    <2>1. UNCHANGED <<power, queue, sent, receipt, phase>>
      BY <1>3 DEF manager, journal
    <2>2. ProcessAt'
      BY <1>3, <2>1 DEF ProcessAt
    <2> QED BY <1>1, <1>3, <2>1, <2>2, ProcessMoves DEF TypeOK
  <1>4. CASE Returned
    BY <1>2, <1>4 DEF Returned
  <1>5. CASE Work
    <2>1. CASE phase = "quiesced" /\ Enter("runtime-start-started", "call")
      BY <1>2, <2>1
    <2>2. CASE /\ phase = "rollback-volume-started"
               /\ Enter("rollback-runtime-started", "call")
      BY <1>2, <2>2
    <2>3. CASE pc' = "ended" /\ UNCHANGED <<entry, cur, journal, manager, faults>>
      BY <1>3, <2>3
    <2>4. CASE Fault /\ Fail /\ UNCHANGED <<journal, power, queue, sent>>
      BY <2>4, FailKeepsInv
    <2> QED BY <1>5, <2>1, <2>2, <2>3, <2>4 DEF Work
  <1>6. CASE Rollback
    <2>1. CASE phase \notin RollbackPhase /\ Enter("rollback-started", "call")
      BY <1>2, <2>1
    <2>2. CASE /\ phase \in RollbackPhase
               /\ pc' = IF phase = "rollback-runtime-succeeded" THEN "ended" ELSE "call"
               /\ UNCHANGED <<entry, cur, journal, manager, faults>>
      BY <1>3, <2>2 DEF RollbackPhase, StopPhase, StartPhase
    <2> QED BY <1>6, <2>1, <2>2 DEF Rollback
  <1> QED BY <1>4, <1>5, <1>6

\* Steps of the process between its journal writes.
LEMMA CallKeepsInv ==
    ASSUME ControlInv,
           \/ Call \/ SettleDone \/ Recover \/ Crash
           \/ \E c \in Comp : AdvanceSkips(c) \/ Complete(c) \/ ControlFails(c)
    PROVE  ControlInv'
  <1>1. TypeOK /\ N \in Comp /\ 1 \in Comp
    BY FirstAndLast DEF ControlInv
  <1>2. ASSUME UNCHANGED <<journal, manager, faults>>, cur' \in Comp,
               pc' \in {"settle", "advance", "returned", "recover"},
               entry' \in {entry, "recover"},
               pc' # "recover" => phase \in StopPhase \cup StartPhase
        PROVE  ControlInv'
    <2>1. UNCHANGED <<power, queue, sent, receipt, phase>>
      BY <1>2 DEF manager, journal
    <2>2. ProcessAt'
      BY <1>2, <2>1 DEF ProcessAt
    <2> QED BY <1>1, <1>2, <2>1, <2>2, ProcessMoves DEF TypeOK
  <1>3. pc \in {"call", "settle", "advance"} => phase \in StopPhase \cup StartPhase
    BY DEF ControlInv, ProcessAt
  <1>4. CASE Call
    BY <1>1, <1>2, <1>3, <1>4 DEF Call
  <1>5. CASE SettleDone
    BY <1>1, <1>2, <1>3, <1>5 DEF SettleDone
  <1>6. CASE Recover
    BY <1>1, <1>2, <1>6 DEF Recover, TypeOK
  <1>7. CASE Crash
    BY <1>7, FailKeepsInv DEF Crash
  <1>8. ASSUME NEW c \in Comp, AdvanceSkips(c) PROVE ControlInv'
    <2>1. /\ UNCHANGED <<journal, manager, faults, entry>> /\ pc = "advance" /\ cur = c
          /\ pc' \in {"returned", "advance"}
      BY <1>8 DEF AdvanceSkips, Advancing, NextComponent
    <2>2. cur' \in Comp
      BY <1>1, <1>8, <2>1 DEF AdvanceSkips, NextComponent, Comp
    <2> QED BY <1>2, <1>3, <2>1, <2>2
  <1>9. ASSUME NEW c \in Comp, Complete(c) PROVE ControlInv'
    <2>1. pc = "complete" /\ cur = c /\ UNCHANGED <<journal, power, queue, sent>>
      BY <1>9 DEF Complete
    <2>2. CASE Fault /\ Fail
      BY <2>1, <2>2, FailKeepsInv
    <2>3. CASE /\ ActionOf(c) \in receipt[c] /\ pc' = "observe"
               /\ UNCHANGED <<entry, cur, receipt, faults>>
      <3>1. ActionOf(c)' = ActionOf(c) /\ UNCHANGED <<phase, effect>>
        BY <2>1 DEF journal, ActionOf
      <3>2. ProcessAt'
        BY <2>1, <2>3, <3>1 DEF ControlInv, ProcessAt
      <3> QED BY <1>1, <2>1, <2>3, <3>2, ProcessMoves DEF TypeOK
    <2> QED BY <1>9, <2>2, <2>3 DEF Complete
  <1>10. ASSUME NEW c \in Comp, ControlFails(c) PROVE ControlInv'
    <2>1. /\ Fail /\ UNCHANGED <<journal, power, queue, sent>>
          /\ faults' = faults \/ Fault
      BY <1>10 DEF ControlFails
    <2> QED BY <2>1, FailKeepsInv
  <1> QED BY <1>4, <1>5, <1>6, <1>7, <1>8, <1>9, <1>10

-----------------------------------------------------------------------------

\* ControlInv holds throughout: the effects of a component advance one after the
\* other, and the signed record always tells which command may still change it.
THEOREM ControlInvariant == Spec => []ControlInv
  <1>1. Init => ControlInv
    <2> SUFFICES ASSUME Init PROVE ControlInv
      OBVIOUS
    <2>1. TypeOK
      <3>1. 0 \in 0..MaxFaults /\ N \in Comp
        BY ControlAssumption, FirstAndLast
      <3>2. /\ effect \in [Comp -> [Action -> EffectState]]
            /\ sent \in [Comp -> [Action -> Nat]]
            /\ queue \in [Comp -> SUBSET Action] /\ receipt \in [Comp -> SUBSET Action]
        BY DEF Init, EffectState
      <3> QED BY <3>1, <3>2 DEF Init, TypeOK, StopPhase
    <2>2. ProcessAt
      BY DEF Init, ProcessAt, StopPhase
    <2>3. \A c \in Comp, a \in Action : effect[c][a] = "" /\ sent[c][a] = 0
      BY DEF Init
    <2>4. PhaseKeepsControls
      BY <2>3 DEF Init, PhaseKeepsControls, ControlsAllow, BoundaryPhase, Action
    <2>5. \A c \in Comp : InTurn(c) /\ CommandsFollow(c)
      <3>1. \A c \in Comp : InTurn(c)
        BY <2>3 DEF InTurn, Action
      <3>2. \A c \in Comp : queue[c] = {} /\ receipt[c] = {}
        BY DEF Init
      <3>3. \A c \in Comp : CommandsFollow(c)
        <4> SUFFICES ASSUME NEW c \in Comp PROVE CommandsFollow(c)
          OBVIOUS
        <4>1. 0 <= 1
          OBVIOUS
        <4> QED BY <2>3, <3>2, <4>1, Zenon DEF CommandsFollow
      <3> QED BY <3>1, <3>3
    <2>6. \A c \in Comp : PowerKnown(c)
      BY <2>3 DEF Init, PowerKnown, Expected, Action
    <2> QED BY <2>1, <2>2, <2>4, <2>5, <2>6 DEF ControlInv
  <1>2. ControlInv /\ [Next]_vars => ControlInv'
    <2> SUFFICES ASSUME ControlInv, [Next]_vars PROVE ControlInv'
      OBVIOUS
    <2>1. CASE UNCHANGED vars
      <3>1. UNCHANGED <<phase, effect, wasRunning, receipts, writer, power, queue, sent, receipt,
                        pc, entry, cur, faults>>
        BY <2>1 DEF vars, journal, manager, process
      <3>2. ProcessAt'
        BY <3>1 DEF ControlInv, ProcessAt, ActionOf, HasEffect
      <3> QED BY <3>1, <3>2, ProcessMoves DEF ControlInv, TypeOK, journal
    <2>2. CASE Returned \/ Work \/ Rollback
      BY <2>2, OwnerKeepsInv
    <2>3. CASE \/ Call \/ SettleDone \/ Recover \/ Crash
               \/ \E c \in Comp : AdvanceSkips(c) \/ Complete(c) \/ ControlFails(c)
      BY <2>3, CallKeepsInv
    <2>4. ASSUME NEW c \in Comp, NEW a \in Action, SettleObserved(c, a) \/ Execute(c, a)
          PROVE  ControlInv'
      BY <2>4, SettlingKeepsInv, ExecuteKeepsInv
    <2>5. ASSUME NEW c \in Comp, AdvanceObserved(c) PROVE ControlInv'
      BY <2>5, SettlingKeepsInv, ActionTyped
    <2>6. ASSUME NEW c \in Comp,
                 \/ AdvancePreparing(c) \/ AdvancePrepared(c)
                 \/ AdvanceDispatched(c) \/ Dispatch(c)
          PROVE  ControlInv'
      BY <2>6, AdvancePreparingKeepsInv, AdvancePreparedKeepsInv,
         AdvanceDispatchedKeepsInv, DispatchKeepsInv
    <2> QED BY <2>1, <2>2, <2>3, <2>4, <2>5, <2>6 DEF Next, Driver, Manager
  <1> QED BY <1>1, <1>2, PTL DEF Spec

\* Volumes are copied only while no writer runs and none can be started by a
\* command the manager still holds.
THEOREM CopiesMeetNoWriter == Spec => []QuietWhileCopying
  <1>1. ControlInv => QuietWhileCopying
    <2> SUFFICES ASSUME ControlInv, phase \in {"quiesced", "rollback-volume-started"},
                        NEW c \in Comp
                 PROVE  ~power[c] /\ \A a \in queue[c] : ~controlStarts(a)
      BY DEF QuietWhileCopying
    <2>1. PhaseKeepsControls /\ PowerKnown(c) /\ CommandsFollow(c) /\ queue[c] \subseteq Action
      BY DEF ControlInv, TypeOK
    <2>2. \A a \in Action : effect[c][a] \in {"", "observed"}
      <3>1. wasRunning[c] => ~Pending(c)
        BY <2>1 DEF PhaseKeepsControls, ControlsAllow, BoundaryPhase
      <3> QED BY <2>1, <3>1 DEF Pending, PowerKnown
    <2>3. queue[c] = {}
      BY <2>1, <2>2 DEF CommandsFollow
    <2>4. effect[c]["rollback-start"] = ""
      BY <2>1 DEF PhaseKeepsControls
    <2>5. ~power[c]
      <3>1. CASE wasRunning[c]
        <4>1. ~Expected(c)
          BY <2>1, <2>4, <3>1 DEF PhaseKeepsControls, ControlsAllow, Expected, RollbackPhase
        <4> QED BY <2>1, <2>2, <3>1, <4>1 DEF PowerKnown
      <3>2. CASE ~wasRunning[c]
        BY <2>1, <3>2 DEF PowerKnown
      <3> QED BY <3>1, <3>2
    <2> QED BY <2>3, <2>5
  <1> QED BY <1>1, ControlInvariant, PTL

\* No power command is ever repeated or overtaken.
THEOREM CommandsInTurn == Spec => []SentOnceInTurn
  <1>1. ControlInv => SentOnceInTurn
    <2> SUFFICES ASSUME ControlInv, NEW c \in Comp
                 PROVE  /\ \A a \in Action : sent[c][a] <= 1
                        /\ \A a, b \in queue[c] : a = b
      BY DEF SentOnceInTurn
    <2>1. CommandsFollow(c) /\ queue[c] \subseteq Action
      BY DEF ControlInv, TypeOK
    <2>2. ASSUME NEW a \in queue[c], NEW b \in queue[c] PROVE a = b
      <3>1. a \in Action /\ b \in Action
        BY <2>1, <2>2
      <3>2. effect[c][a] = "dispatched" /\ effect[c][b] = "dispatched"
        BY <2>1, <2>2, <3>1 DEF CommandsFollow
      <3> QED BY <3>1, <3>2, PendingAlone
    <2> QED BY <2>1, <2>2 DEF CommandsFollow
  <1> QED BY <1>1, ControlInvariant, PTL

\* A finished start, of an activation or a rollback, has restored the captured
\* power of every component for good.
THEOREM PowerComesBack == Spec => []InitialPowerRestored
  <1>1. ControlInv => InitialPowerRestored
    <2> SUFFICES ASSUME ControlInv, NEW c \in Comp,
                        phase \in {"runtime-start-succeeded", "rollback-runtime-succeeded"}
                 PROVE  power[c] = wasRunning[c] /\ queue[c] = {}
      BY DEF InitialPowerRestored
    <2>1. /\ PhaseKeepsControls /\ PowerKnown(c) /\ CommandsFollow(c) /\ InTurn(c)
          /\ queue[c] \subseteq Action /\ power[c] \in BOOLEAN /\ wasRunning[c] \in BOOLEAN
      BY DEF ControlInv, TypeOK
    <2>2. \A a \in Action : effect[c][a] \in {"", "observed"}
      <3>1. wasRunning[c] => ~Pending(c)
        BY <2>1 DEF PhaseKeepsControls, ControlsAllow, BoundaryPhase
      <3> QED BY <2>1, <3>1 DEF Pending, PowerKnown
    <2>3. queue[c] = {}
      BY <2>1, <2>2 DEF CommandsFollow
    <2>4. power[c] <=> wasRunning[c]
      <3>1. CASE wasRunning[c]
        <4>1. Expected(c)
          BY <2>1, <3>1 DEF PhaseKeepsControls, ControlsAllow, Expected, RollbackPhase
        <4> QED BY <2>1, <2>2, <3>1, <4>1 DEF PowerKnown
      <3>2. CASE ~wasRunning[c]
        BY <2>1, <3>2 DEF PowerKnown
      <3> QED BY <3>1, <3>2
    <2> QED BY <2>1, <2>3, <2>4
  <1> QED BY <1>1, ControlInvariant, PTL

\* Type correctness of the controls, the manager and the process, for every
\* number of components.
THEOREM ControlTypeCorrect == Spec => []TypeOK
  <1>1. ControlInv => TypeOK
    BY DEF ControlInv
  <1> QED BY ControlInvariant, <1>1, PTL

=============================================================================
