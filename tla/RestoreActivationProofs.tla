---------------------- MODULE RestoreActivationProofs ----------------------
(***************************************************************************)
(* The safety theorems of module RestoreActivation, for every number of    *)
(* volumes, every power control and any number of faults.                  *)
(*                                                                         *)
(* The invariant RestoreInv has three parts.  VolumesInv(jrn) says what    *)
(* the signed record alone proves about the volumes, the helpers and the   *)
(* services, so it also survives the driver; it is stated of a record      *)
(* because a write that fails may still have installed the next one.       *)
(* CallsInv says what the driver's own position adds: the helper it waits  *)
(* for and what its finished calls left behind.  ResultInv and CleanInv    *)
(* are about the result, the cleanup and the terminal record.  Last, every *)
(* step signs what SignedOperations allows.                                *)
(***************************************************************************)
EXTENDS RestoreActivation, TLAPS

\* The phases of the activation itself, before its commit.
CopyPhase == {"rollback-copy-started", "rollback-copy-succeeded", "rollback-ready",
              "activation-copy-started", "activation-copy-succeeded",
              "activation-succeeded"}
StartedPhase == {"runtime-start-succeeded", "verify-started", "verify-succeeded"}
ActivatePhase == {"prepared", "quiesce-started", "quiesced", "runtime-start-started"}
                   \cup CopyPhase \cup StartedPhase
RestorePhase == {"none", "commit-started", "commit-succeeded"}
                   \cup ActivatePhase \cup RollbackPhase

\* Phases in which no service runs, and in which all of them do.
QuietPhase == {"quiesced", "rollback-volume-started", "rollback-volume-succeeded"}
                \cup CopyPhase
ServedPhase == {"commit-started", "commit-succeeded", "rollback-runtime-succeeded"}
                 \cup StartedPhase \cup RequiresVerify

\* Phases in which the rollback copies of the prepared volumes are relied on.
SavedPhase == {"runtime-start-started", "commit-started"} \cup CopyPhase \cup StartedPhase

Copying == {h \in helpers : ~IsDigest(h)}

\* The volumes record j counts as changed.
Changed(j, v) ==
    v <= j.activated \/ (j.phase = "activation-copy-started" /\ v = j.inFlight)

\* The counters fit the phase; nothing is activated before all is prepared.
Progress(j) ==
    /\ j.phase \in RestorePhase
    /\ IF j.phase = "none"
       THEN j.prepared = 0 /\ j.activated = 0 /\ j.inFlight = 0
       ELSE PhaseProgress(j)
    /\ j.activated > 0 => j.prepared = N

\* A copy helper, waited for or orphaned, works on the volume the record names,
\* while no service runs: in its own phase, or in the rollback that follows until
\* that has stopped it.
HelperKnown(j, h) ==
    \/ /\ h.call = "save" /\ h.vol = j.prepared + 1 /\ j.activated = 0
       /\ j.phase \in {"rollback-copy-started", "rollback-started"}
    \/ /\ h.call = "activate" /\ j.phase = "activation-copy-started"
       /\ h.vol = j.inFlight
    \/ /\ h.call = "activate" /\ j.phase = "rollback-started"
       /\ h.vol = j.activated
    \/ /\ h.call = "restore" /\ j.phase = "rollback-volume-started"
       /\ h.vol = j.inFlight

HelpersKnown(j) ==
    \A h \in Copying : ~running /\ j.unresolved # "start" /\ HelperKnown(j, h)

\* A volume that is not changed holds its own data; of a changed one the rollback
\* volume does, and so it does for every volume prepared; and until the rollback
\* begins an activated volume holds the staged data.
VolumeKept(j, v) ==
    /\ ~Changed(j, v) => live[v] = Newest(v)
    /\ Changed(j, v) /\ j.phase # "commit-succeeded" => rollback[v] = Newest(v)
    /\ j.phase \in SavedPhase /\ v <= j.prepared => rollback[v] = Newest(v)
    /\ j.phase \notin RollbackPhase /\ v <= j.activated => live[v] = "staged"

VolumesKept(j) == \A v \in Vol : VolumeKept(j, v)

AllStaged == \A v \in Vol : live[v] = "staged"

\* The services' power in each phase; when they run, or may be started late,
\* either no volume or every volume is activated.
PowerKnown(j) ==
    /\ j.phase \in QuietPhase => ~running
    /\ j.phase \in ServedPhase => running /\ j.unresolved = "none"
    /\ running \/ j.unresolved = "start" =>
          j.activated = 0 \/ (j.activated = N /\ AllStaged)
    /\ j.unresolved = "start" =>
          j.phase \in {"runtime-start-started", "rollback-started",
                       "rollback-runtime-started"}
    /\ j.unresolved = "stop" => j.phase \in {"quiesce-started"} \cup RequiresQuiesce

VolumesInv(j) ==
    Progress(j) /\ HelpersKnown(j) /\ VolumesKept(j) /\ PowerKnown(j)

-----------------------------------------------------------------------------

\* Where the driver can be in each phase.
DriverAt ==
    /\ pc \in {"idle", "reconcile"} => waiting = {} /\ done = {}
    /\ jrn.phase = "none" => pc = "idle"
    /\ pc \in {"activate", "reconcile"} => jrn.phase \in ActivatePhase
    /\ pc = "commit" => jrn.phase \in {"verify-succeeded", "commit-started"}
    /\ pc = "rollback" => /\ jrn.phase # "commit-succeeded"
                          /\ jrn.phase \notin RollbackPhase => done = {}
    /\ pc = "committed" => jrn.phase = "commit-succeeded"
    /\ pc \in {"persist", "cleanup", "finalize", "complete"} =>
          jrn.phase \in {"commit-succeeded", "rollback-succeeded"}
    /\ pc = "close" => Settled
    /\ Settled => pc \in {"idle", "close"}
    /\ jrn.unresolved # "none" =>
          pc \in {"idle", "reconcile", "rollback"} /\ waiting = {} /\ done = {}

\* The helper the driver waits for is the one its phase called for.
WaitsFor ==
    /\ \A g, h \in waiting : g = h
    /\ \A h \in waiting :
          /\ h.vol = jrn.inFlight
          /\ \/ /\ pc = "activate" /\ jrn.phase = "rollback-copy-started"
                /\ h.call = "save"
             \/ /\ pc = "activate" /\ jrn.phase = "activation-copy-started"
                /\ h.call = "activate" \/ (IsDigest(h) /\ "copy" \in done)
             \/ /\ pc = "rollback" /\ jrn.phase = "rollback-volume-started"
                /\ h.call = "restore" /\ "stop" \in done

\* What a finished runtime call left behind.
DoneMeans ==
    /\ pc = "activate" =>
          /\ "stop" \in done /\ jrn.phase = "quiesce-started" => ~running
          /\ "copy" \in done /\ jrn.phase = "rollback-copy-started" =>
                Copying = {} /\ rollback[jrn.inFlight] = Newest(jrn.inFlight)
          /\ "copy" \in done /\ jrn.phase = "activation-copy-started" =>
                Copying = {} /\ live[jrn.inFlight] = "staged"
          /\ "start" \in done /\ jrn.phase = "runtime-start-started" => running
    /\ pc = "rollback" =>
          /\ "stop" \in done /\ jrn.phase \in RequiresQuiesce =>
                ~running /\ Copying \subseteq waiting
          /\ "copy" \in done /\ jrn.phase = "rollback-volume-started" =>
                Copying = {} /\ live[jrn.inFlight] = Newest(jrn.inFlight)
          /\ "start" \in done /\ jrn.phase = "rollback-runtime-started" => running

CallsInv == DriverAt /\ WaitsFor /\ DoneMeans

-----------------------------------------------------------------------------

\* The result: one operation hands one result to the finalizer, the first process
\* finds none, and a settled operation has finalized it after the cleanup.
ResultInv ==
    /\ finalized \subseteq {result}
    /\ result.status = "none" => result = NoResult
    /\ jrn.phase = "none" => result = NoResult
    /\ pc = "committed" => entry = "recover"
    /\ pc \in {"activate", "reconcile", "commit"} => result = NoResult
    /\ pc \in {"rollback", "persist"} /\ entry # "recover" => result = NoResult
    /\ pc \in {"cleanup", "finalize", "complete"} => result.status = Outcome(jrn.phase)
    /\ pc = "complete" \/ Settled => result \in finalized

\* What is left of the copies: none once the cleanup passed, and the staged data
\* until a committed activation is cleaned up.
CleanInv ==
    /\ pc \in {"finalize", "complete"} \/ Settled => \A v \in Vol : rollback[v] = "absent"
    /\ ~staged => jrn.phase = "commit-succeeded"
    /\ jrn.status = Succeeded => jrn.phase = "commit-succeeded"
    /\ jrn.status = Recovered => jrn.phase = "rollback-succeeded"
    /\ Settled => result.status = SettledOutcome

RestoreInv == TypeOK /\ VolumesInv(jrn) /\ CallsInv /\ ResultInv /\ CleanInv

-----------------------------------------------------------------------------
(* The model's own operators.                                              *)

\* The phase in which each runtime call is made, and what precedes it.
LEMMA DueCalls ==
    ASSUME NEW k, Due(k)
    PROVE  /\ waiting = {} /\ k \notin done
           /\ \/ pc = "activate" /\ k = "stop" /\ jrn.phase = "quiesce-started"
              \/ /\ pc = "activate" /\ k = "copy"
                 /\ jrn.phase \in {"rollback-copy-started", "activation-copy-started"}
              \/ /\ pc = "activate" /\ k \in {"digest-staged", "digest-live"}
                 /\ jrn.phase = "activation-copy-started" /\ "copy" \in done
              \/ pc = "activate" /\ k = "start" /\ jrn.phase = "runtime-start-started"
              \/ pc = "activate" /\ k = "verify" /\ jrn.phase = "verify-started"
              \/ pc = "rollback" /\ k = "stop" /\ jrn.phase \in RequiresQuiesce
              \/ /\ pc = "rollback" /\ k = "copy"
                 /\ jrn.phase = "rollback-volume-started" /\ "stop" \in done
              \/ /\ pc = "rollback" /\ k = "start"
                 /\ jrn.phase = "rollback-runtime-started"
              \/ pc = "rollback" /\ k = "verify" /\ jrn.phase \in RequiresVerify
              \/ pc = "committed" /\ k = "verify"
  <1>1. waiting = {} /\ (ActivateDue(k) \/ RollbackDue(k) \/ CommitDue(k))
    BY DEF Due
  <1>2. CASE ActivateDue(k)
    <2>1. PICK i \in DOMAIN CallsOf(jrn.phase) :
             /\ CallsOf(jrn.phase)[i] = k
             /\ \A j \in 1..(i - 1) : CallsOf(jrn.phase)[j] \in done
      BY <1>2 DEF ActivateDue
    <2>2. pc = "activate" /\ k \notin done
      BY <1>2 DEF ActivateDue
    <2>3. CASE jrn.phase = "activation-copy-started"
      <3>1. CallsOf(jrn.phase) = <<"copy", "digest-staged", "digest-live">>
        BY <2>3 DEF CallsOf
      <3>2. i \in 1..3
        BY <2>1, <3>1
      <3>3. i = 1 \/ 1 \in 1..(i - 1)
        BY <3>2
      <3>4. i = 1 \/ "copy" \in done
        BY <2>1, <3>1, <3>3
      <3>5. i = 1 => k = "copy"
        BY <2>1, <3>1
      <3>6. k \in {"copy", "digest-staged", "digest-live"}
        BY <2>1, <3>1, <3>2
      <3> QED BY <1>1, <2>2, <2>3, <3>4, <3>5, <3>6
    <2>4. CASE jrn.phase # "activation-copy-started"
      BY <1>1, <2>1, <2>2, <2>4 DEF CallsOf
    <2> QED BY <2>3, <2>4
  <1>3. CASE RollbackDue(k)
    BY <1>1, <1>3 DEF RollbackDue
  <1>4. CASE CommitDue(k)
    BY <1>1, <1>4 DEF CommitDue
  <1> QED BY <1>1, <1>2, <1>3, <1>4

\* A phase of the activation is left after its calls.
LEMMA CallsFinished ==
    ASSUME CallsDone
    PROVE  /\ jrn.phase = "quiesce-started" => "stop" \in done
           /\ jrn.phase = "rollback-copy-started" => "copy" \in done
           /\ jrn.phase = "activation-copy-started" => "copy" \in done
           /\ jrn.phase = "runtime-start-started" => "start" \in done
  <1>1. jrn.phase = "quiesce-started" => CallsOf(jrn.phase) = <<"stop">>
    BY DEF CallsOf
  <1>2. jrn.phase = "rollback-copy-started" => CallsOf(jrn.phase) = <<"copy">>
    BY DEF CallsOf
  <1>3. jrn.phase = "activation-copy-started" =>
           CallsOf(jrn.phase) = <<"copy", "digest-staged", "digest-live">>
    BY DEF CallsOf
  <1>4. jrn.phase = "runtime-start-started" => CallsOf(jrn.phase) = <<"start">>
    BY DEF CallsOf
  <1>5. \A i \in DOMAIN CallsOf(jrn.phase) : CallsOf(jrn.phase)[i] \in done
    BY DEF CallsDone
  <1>6. jrn.phase = "quiesce-started" => "stop" \in done
    BY <1>1, <1>5
  <1>7. jrn.phase = "rollback-copy-started" => "copy" \in done
    BY <1>2, <1>5
  <1>8. jrn.phase = "activation-copy-started" => "copy" \in done
    BY <1>3, <1>5
  <1>9. jrn.phase = "runtime-start-started" => "start" \in done
    BY <1>4, <1>5
  <1> QED BY <1>6, <1>7, <1>8, <1>9

\* The fields of a record.
LEMMA RecordFields ==
    ASSUME NEW j \in Record
    PROVE  /\ j.phase \in Phase \cup {"none"} /\ j.status \in Status
           /\ j.prepared \in 0..N /\ j.activated \in 0..N /\ j.inFlight \in 0..N
           /\ j.custody \in BOOLEAN /\ j.unresolved \in {"none", "stop", "start"}
           /\ j.closed \in BOOLEAN /\ j.power \in Powers
  BY DEF Record

\* A step that leaves volumes and services alone, and starts no copy, takes
\* VolumesInv to the record it installs.
LEMMA SameData ==
    ASSUME UNCHANGED data, Copying' \subseteq Copying, VolumesInv(jrn')
    PROVE  VolumesInv(jrn)'
  <1>1. UNCHANGED <<live, rollback, wrote, staged, running>>
    BY DEF data
  <1>2. Progress(jrn)'
    BY DEF VolumesInv
  <1>3. HelpersKnown(jrn)'
    BY <1>1 DEF VolumesInv, HelpersKnown
  <1>4. VolumesKept(jrn)'
    BY <1>1 DEF VolumesInv, VolumesKept, VolumeKept, Newest
  <1>5. PowerKnown(jrn)'
    BY <1>1 DEF VolumesInv, PowerKnown, AllStaged
  <1> QED BY <1>2, <1>3, <1>4, <1>5 DEF VolumesInv

-----------------------------------------------------------------------------
(* Steps of the driver.                                                    *)

\* What the terminal record j has to find: the cleanup done and its result
\* finalized.
TerminalFits(j) ==
    j.status # Active =>
        /\ \A v \in Vol : rollback[v] = "absent"
        /\ result \in finalized
        /\ \/ /\ j.status = Succeeded /\ j.phase = "commit-succeeded"
              /\ result.status = "activated"
           \/ /\ j.status = Recovered /\ j.phase = "rollback-succeeded"
              /\ result.status = "recovered"

\* RestoreInv implies it of the newest record.
LEMMA TerminalNow ==
    ASSUME RestoreInv
    PROVE  TerminalFits(jrn)
  BY DEF RestoreInv, TypeOK, Record, Status, ResultInv, CleanInv, TerminalFits, Settled,
         SettledOutcome, Active, Succeeded, Recovered

\* A fault is counted.
LEMMA FaultCounted ==
    ASSUME RestoreInv, UNCHANGED faults \/ \E k \in {"journal", "call", "cancel", "crash"} : Fault(k)
    PROVE  faults' \in 0..MaxFaults
  BY RestoreAssumption DEF RestoreInv, TypeOK, Fault

\* An error, or the end of the process, at any point: what the record proves has
\* to hold, the driver's own knowledge is dropped.
LEMMA FailedStep ==
    ASSUME RestoreInv, pc # "idle", UNCHANGED <<staged, evidence>>,
           Fail \/ (pc' = "idle" /\ entry' = "none" /\ waiting' = {} /\ done' = {}),
           jrn' \in Record, live' \in [Vol -> Content], rollback' \in [Vol -> Content],
           wrote' \subseteq Vol, running' \in BOOLEAN, helpers' \subseteq Helper,
           UNCHANGED faults \/ \E k \in {"journal", "call", "cancel", "crash"} : Fault(k),
           VolumesInv(jrn)', TerminalFits(jrn)',
           jrn'.phase # "none", jrn.phase = "commit-succeeded" => jrn'.phase = "commit-succeeded",
           pc = "activate" => jrn'.phase \in ActivatePhase /\ jrn'.status = Active
    PROVE  RestoreInv'
  <1>1. /\ pc' \in {"idle", "reconcile"} /\ entry' \in {"none", "auto"}
        /\ (pc' = "reconcile" => pc = "activate") /\ waiting' = {} /\ done' = {}
    BY DEF Fail
  <1>2. TypeOK'
    <2>1. faults' \in 0..MaxFaults
      BY FaultCounted
    <2>2. UNCHANGED <<staged, result, finalized>>
      BY DEF evidence
    <2> QED BY <1>1, <2>1, <2>2 DEF RestoreInv, TypeOK
  <1>3. CallsInv'
    <2>1. DriverAt'
      BY <1>1 DEF DriverAt, Settled
    <2>2. WaitsFor'
      BY <1>1 DEF WaitsFor
    <2>3. DoneMeans'
      BY <1>1 DEF DoneMeans
    <2> QED BY <2>1, <2>2, <2>3 DEF CallsInv
  <1>4. ResultInv'
    <2>1. UNCHANGED <<result, finalized>>
      BY DEF evidence
    <2> QED BY <1>1, <2>1 DEF RestoreInv, ResultInv, TerminalFits, Settled
  <1>5. CleanInv'
    <2>1. UNCHANGED <<result, finalized, staged>>
      BY DEF evidence
    <2> QED BY <1>1, <2>1 DEF RestoreInv, CleanInv, TerminalFits, Settled,
               SettledOutcome, Active, Succeeded, Recovered
  <1> QED BY <1>2, <1>3, <1>4, <1>5 DEF RestoreInv

\* An error that changes nothing but the driver.
LEMMA FailedCall ==
    ASSUME RestoreInv, Fail, pc # "idle", UNCHANGED <<jrn, data, evidence>>,
           helpers' \subseteq helpers,
           UNCHANGED faults \/ \E k \in {"journal", "call", "cancel", "crash"} : Fault(k)
    PROVE  RestoreInv'
  <1>1. UNCHANGED <<live, rollback, wrote, staged, running, result, finalized>>
    BY DEF data, evidence
  <1>2. VolumesInv(jrn)'
    <2>1. Copying' \subseteq Copying
      BY DEF Copying
    <2> QED BY <2>1, SameData DEF RestoreInv
  <1>3. TerminalFits(jrn)'
    BY <1>1, TerminalNow DEF TerminalFits
  <1>4. /\ jrn.phase # "none"
        /\ pc = "activate" => jrn.phase \in ActivatePhase /\ jrn.status = Active
    BY DEF RestoreInv, CallsInv, DriverAt, Settled
  <1>5. TypeOK
    BY DEF RestoreInv
  <1> QED BY <1>1, <1>2, <1>3, <1>4, <1>5, FailedStep DEF TypeOK

\* A step of the driver that leaves the record, the volumes and the services alone
\* and starts no copy.
LEMMA DriverMoves ==
    ASSUME RestoreInv, UNCHANGED <<jrn, data>>, Copying' \subseteq Copying,
           helpers' \subseteq Helper, waiting' \subseteq helpers',
           pc' \in {"idle", "activate", "reconcile", "rollback", "commit",
                    "committed", "persist", "cleanup", "finalize", "complete",
                    "close"},
           entry' \in {"none", "activate", "auto", "recover"},
           done' \subseteq {"stop", "start", "copy", "verify", "digest-staged",
                            "digest-live"},
           result' \in [status : {"none", "activated", "recovered"}, evidence : Nat],
           finalized' \subseteq [status : {"activated", "recovered"}, evidence : Nat],
           UNCHANGED faults \/ \E k \in {"journal", "call", "cancel", "crash"} : Fault(k),
           CallsInv', ResultInv', CleanInv'
    PROVE  RestoreInv'
  <1>1. UNCHANGED <<live, rollback, wrote, staged, running>>
    BY DEF data
  <1>2. VolumesInv(jrn)'
    BY SameData DEF RestoreInv
  <1>3. faults' \in 0..MaxFaults
    BY FaultCounted
  <1>4. TypeOK'
    BY <1>1, <1>3 DEF RestoreInv, TypeOK
  <1> QED BY <1>2, <1>4 DEF RestoreInv

\* A record that proves what it says is signed, or the write fails with or
\* without installing it.
LEMMA SignKeeps ==
    ASSUME RestoreInv, NEW r \in Record, NEW next, Sign(r, next), VolumesInv(r),
           TerminalFits(r), r.phase # "none", waiting = {},
           pc \in {"activate", "commit", "rollback", "complete", "close"},
           next \in {pc, "persist", "close"},
           jrn.phase = "commit-succeeded" => r.phase = "commit-succeeded",
           pc = "activate" => r.phase \in ActivatePhase /\ next = pc,
           next = "commit" => r.phase \in {"verify-succeeded", "commit-started"},
           next = "rollback" =>
               /\ r.phase \in RollbackPhase
               /\ r.phase \in RequiresQuiesce => jrn.phase \in RequiresQuiesce \/ done = {},
           next = "persist" => pc = "commit" /\ r.phase = "commit-succeeded",
           next = "complete" => pc # "complete",
           r.status # Active <=> next = "close",
           r.unresolved # "none" => pc = "rollback" /\ next = "rollback" /\ done = {}
    PROVE  RestoreInv'
  <1>0. /\ UNCHANGED <<live, rollback, wrote, staged, running, helpers, result, finalized>>
        /\ UNCHANGED data
    BY DEF Sign, data, evidence
  <1>1. CASE Fail /\ Fault("journal") /\ jrn' \in {jrn, r}
    <2>1. jrn' \in Record /\ VolumesInv(jrn') /\ TerminalFits(jrn')
      BY <1>1, TerminalNow DEF RestoreInv, TypeOK
    <2>2. VolumesInv(jrn)'
      BY <2>1, <1>0, SameData DEF Copying
    <2>3. TerminalFits(jrn)'
      BY <2>1, <1>0 DEF TerminalFits
    <2>4. /\ jrn'.phase # "none"
          /\ pc = "activate" => jrn'.phase \in ActivatePhase /\ jrn'.status = Active
          /\ jrn.phase = "commit-succeeded" => jrn'.phase = "commit-succeeded"
      BY <1>1 DEF RestoreInv, CallsInv, DriverAt, Settled
    <2>5. TypeOK
      BY DEF RestoreInv
    <2> QED BY <1>0, <1>1, <2>1, <2>2, <2>3, <2>4, <2>5, FailedStep DEF TypeOK, evidence
  <1>2. CASE /\ jrn' = r /\ pc' = next
             /\ done' = IF pc = "rollback" THEN done \cap {"stop", "verify"} ELSE {}
             /\ UNCHANGED <<entry, waiting, faults>>
    <2>1. VolumesInv(jrn)'
      BY <1>0, <1>2, SameData DEF Copying
    <2>2. TypeOK'
      BY <1>0, <1>2 DEF RestoreInv, TypeOK
    <2>3. DriverAt'
      BY <1>2 DEF DriverAt, Settled, RollbackPhase
    <2>4. WaitsFor'
      BY <1>2 DEF WaitsFor
    <2>5. DoneMeans'
      <3>1. ASSUME pc' = "rollback", "stop" \in done', jrn'.phase \in RequiresQuiesce
            PROVE  ~running' /\ Copying' \subseteq waiting'
        <4>1. pc = "rollback" /\ "stop" \in done /\ jrn.phase \in RequiresQuiesce
          BY <1>2, <3>1
        <4> QED BY <4>1, <1>0, <1>2 DEF RestoreInv, CallsInv, DoneMeans, Copying
      <3>2. pc' = "rollback" => "copy" \notin done' /\ "start" \notin done'
        BY <1>2
      <3>3. pc' = "activate" => done' = {}
        BY <1>2
      <3> QED BY <3>1, <3>2, <3>3 DEF DoneMeans
    <2>6. ResultInv'
      BY <1>0, <1>2 DEF RestoreInv, ResultInv, TerminalFits, Settled
    <2>7. CleanInv'
      BY <1>0, <1>2 DEF RestoreInv, CleanInv, TerminalFits, Settled, SettledOutcome,
         Active, Succeeded, Recovered
    <2> QED BY <2>1, <2>2, <2>3, <2>4, <2>5, <2>6, <2>7 DEF RestoreInv, CallsInv
  <1> QED BY <1>1, <1>2 DEF Sign

-----------------------------------------------------------------------------
(* The records the driver signs.                                           *)

\* The target of an allowed transition is a phase.
LEMMA TargetsArePhases ==
    ASSUME NEW cur, NEW ph, AllowedTransition(RestoreActivation, cur, ph)
    PROVE  ph \in Phase
  <1>1. <<cur, ph>> \in RestoreTransition
    BY DEF AllowedTransition
  <1>2. <<cur, ph>>[2] \in Phase
    BY <1>1 DEF Phase
  <1> QED BY <1>2

\* Record r differs from the newest one in its phase and its counters only.
Follows(r, ph, p, a, f) ==
    /\ r \in Record /\ r.status = jrn.status /\ r.unresolved = jrn.unresolved
    /\ r.phase = ph /\ r.prepared = p /\ r.activated = a /\ r.inFlight = f

\* The record of a phase without progress of its own.
LEMMA ToRecord ==
    ASSUME jrn \in Record, NEW ph \in Phase
    PROVE  Follows(To(ph), ph, jrn.prepared, jrn.activated, jrn.inFlight)
  <1>1. To(ph) \in Record
    BY DEF To, Record
  <1> QED BY <1>1 DEF To, Record, Follows

\* The record of a volume that goes in flight.
LEMMA InFlightRecord ==
    ASSUME jrn \in Record, NEW ph \in Phase, NEW f \in 0..N
    PROVE  \E r : r = [To(ph) EXCEPT !.inFlight = f] /\ Follows(r, ph, jrn.prepared, jrn.activated, f)
  <1> DEFINE q == To(ph)
             r == [q EXCEPT !.inFlight = f]
  <1>1. /\ q \in Record /\ q.phase = ph /\ q.status = jrn.status
        /\ q.unresolved = jrn.unresolved
        /\ q.prepared = jrn.prepared /\ q.activated = jrn.activated
    BY ToRecord DEF Follows
  <1> HIDE DEF q
  <1>2. 0 \in 0..N
    BY RestoreAssumption
  <1>3. r \in Record
    BY <1>1, <1>2 DEF Record
  <1>4. Follows(r, ph, jrn.prepared, jrn.activated, f)
    BY <1>1, <1>3 DEF Record, Follows
  <1> QED BY <1>4 DEF q

\* The record of a volume counted as prepared.
LEMMA PreparedRecord ==
    ASSUME jrn \in Record, NEW ph \in Phase, NEW p \in 0..N
    PROVE  \E r : r = [To(ph) EXCEPT !.prepared = p, !.inFlight = 0] /\ Follows(r, ph, p, jrn.activated, 0)
  <1> DEFINE q == To(ph)
             r == [q EXCEPT !.prepared = p, !.inFlight = 0]
  <1>1. /\ q \in Record /\ q.phase = ph /\ q.status = jrn.status
        /\ q.unresolved = jrn.unresolved
        /\ q.prepared = jrn.prepared /\ q.activated = jrn.activated
    BY ToRecord DEF Follows
  <1> HIDE DEF q
  <1>2. 0 \in 0..N
    BY RestoreAssumption
  <1>3. r \in Record
    BY <1>1, <1>2 DEF Record
  <1>4. Follows(r, ph, p, jrn.activated, 0)
    BY <1>1, <1>3 DEF Record, Follows
  <1> QED BY <1>4 DEF q

\* The record of a new count of activated volumes.
LEMMA ActivatedRecord ==
    ASSUME jrn \in Record, NEW ph \in Phase, NEW a \in 0..N
    PROVE  \E r : r = [To(ph) EXCEPT !.activated = a, !.inFlight = 0] /\ Follows(r, ph, jrn.prepared, a, 0)
  <1> DEFINE q == To(ph)
             r == [q EXCEPT !.activated = a, !.inFlight = 0]
  <1>1. /\ q \in Record /\ q.phase = ph /\ q.status = jrn.status
        /\ q.unresolved = jrn.unresolved
        /\ q.prepared = jrn.prepared /\ q.activated = jrn.activated
    BY ToRecord DEF Follows
  <1> HIDE DEF q
  <1>2. 0 \in 0..N
    BY RestoreAssumption
  <1>3. r \in Record
    BY <1>1, <1>2 DEF Record
  <1>4. Follows(r, ph, jrn.prepared, a, 0)
    BY <1>1, <1>3 DEF Record, Follows
  <1> QED BY <1>4 DEF q

\* Outside their phases there are no copy helpers.
LEMMA NoCopies ==
    ASSUME VolumesInv(jrn),
           jrn.phase \notin {"rollback-copy-started", "activation-copy-started",
                             "rollback-started", "rollback-volume-started"}
    PROVE  Copying = {}
  BY DEF VolumesInv, HelpersKnown, HelperKnown

\* A record of the activation itself.
LEMMA SignForward ==
    ASSUME RestoreInv, pc = "activate", waiting = {}, NEW r \in Record,
           r.status = jrn.status, r.unresolved = jrn.unresolved,
           r.phase \in ActivatePhase, VolumesInv(r), Sign(r, pc)
    PROVE  RestoreInv'
  <1>1. jrn.status = Active /\ jrn.unresolved = "none" /\ jrn.phase \in ActivatePhase
    BY DEF RestoreInv, CallsInv, DriverAt, Settled
  <1>2. r \in Record /\ r.status = Active /\ r.unresolved = "none"
    BY <1>1
  <1>3. TerminalFits(r)
    BY <1>2 DEF TerminalFits
  <1>4. r.phase # "none" /\ jrn.phase # "commit-succeeded"
    BY <1>1 DEF ActivatePhase, CopyPhase, StartedPhase
  <1> QED BY <1>1, <1>2, <1>3, <1>4, SignKeeps

\* A record of the rollback.
LEMMA SignBack ==
    ASSUME RestoreInv, pc = "rollback", waiting = {}, NEW r \in Record,
           r.status = jrn.status, r.unresolved = jrn.unresolved,
           r.phase \in RollbackPhase, VolumesInv(r), Sign(r, pc),
           r.phase \in RequiresQuiesce => jrn.phase \in RequiresQuiesce \/ done = {}
    PROVE  RestoreInv'
  <1>1. /\ jrn.status = Active /\ jrn.phase # "commit-succeeded"
        /\ jrn.unresolved # "none" => done = {}
    BY DEF RestoreInv, CallsInv, DriverAt, Settled
  <1>2. r \in Record /\ r.status = Active /\ r.unresolved = jrn.unresolved
    BY <1>1
  <1>3. TerminalFits(r)
    BY <1>2 DEF TerminalFits
  <1>4. r.phase # "none"
    BY DEF RollbackPhase
  <1> QED BY <1>1, <1>2, <1>3, <1>4, SignKeeps

\* The phases of a restore activation are phases of the journal.
LEMMA PhasesKnown == RestorePhase \ {"none"} \subseteq Phase
  <1>1. \A x, y : <<x, y>> \in RestoreForward \cup RestoreRollback =>
                     x \in Phase /\ y \in Phase
    <2> SUFFICES ASSUME NEW x, NEW y, <<x, y>> \in RestoreForward \cup RestoreRollback
                 PROVE  x \in Phase /\ y \in Phase
      OBVIOUS
    <2>1. <<x, y>> \in RestoreTransition
      BY DEF RestoreTransition
    <2>2. <<x, y>>[1] \in Phase /\ <<x, y>>[2] \in Phase
      BY <2>1 DEF Phase
    <2> QED BY <2>2
  <1>2. /\ <<"prepared", "quiesce-started">> \in RestoreForward
        /\ <<"quiesced", "rollback-copy-started">> \in RestoreForward
        /\ <<"rollback-copy-succeeded", "rollback-ready">> \in RestoreForward
        /\ <<"activation-copy-started", "activation-copy-succeeded">> \in RestoreForward
        /\ <<"activation-succeeded", "runtime-start-started">> \in RestoreForward
        /\ <<"runtime-start-succeeded", "verify-started">> \in RestoreForward
        /\ <<"verify-succeeded", "commit-started">> \in RestoreForward
        /\ <<"commit-started", "commit-succeeded">> \in RestoreForward
        /\ <<"rollback-started", "rollback-volume-started">> \in RestoreRollback
        /\ <<"rollback-volume-succeeded", "rollback-runtime-started">> \in RestoreRollback
        /\ <<"rollback-runtime-succeeded", "rollback-verify-started">> \in RestoreRollback
        /\ <<"rollback-verify-succeeded", "rollback-succeeded">> \in RestoreRollback
    BY DEF RestoreForward, RestoreRollback
  <1>3. {"prepared", "quiesce-started", "quiesced", "rollback-copy-started",
         "rollback-copy-succeeded", "rollback-ready"} \subseteq Phase
    BY <1>1, <1>2
  <1>4. {"activation-copy-started", "activation-copy-succeeded",
         "activation-succeeded", "runtime-start-started"} \subseteq Phase
    BY <1>1, <1>2
  <1>5. {"runtime-start-succeeded", "verify-started", "verify-succeeded",
         "commit-started", "commit-succeeded"} \subseteq Phase
    BY <1>1, <1>2
  <1>6. {"rollback-started", "rollback-volume-started", "rollback-volume-succeeded",
         "rollback-runtime-started"} \subseteq Phase
    BY <1>1, <1>2
  <1>7. {"rollback-runtime-succeeded", "rollback-verify-started",
         "rollback-verify-succeeded", "rollback-succeeded"} \subseteq Phase
    BY <1>1, <1>2
  <1> QED BY <1>3, <1>4, <1>5, <1>6, <1>7
          DEF RestorePhase, ActivatePhase, CopyPhase, StartedPhase, RollbackPhase

\* The phases around the volume loops follow one another.
LEMMA RuntimeEdges ==
    ASSUME NEW cur, NEW next, AllowedTransition(RestoreActivation, cur, next)
    PROVE  /\ next = "quiesce-started" => cur = "prepared"
           /\ next = "quiesced" => cur = "quiesce-started"
           /\ next = "runtime-start-started" => cur = "activation-succeeded"
           /\ next = "runtime-start-succeeded" => cur = "runtime-start-started"
           /\ next = "verify-started" => cur = "runtime-start-succeeded"
           /\ next = "verify-succeeded" => cur = "verify-started"
           /\ next = "rollback-started" => cur # "none"
  BY DEF AllowedTransition, RestoreTransition, RestoreForward, RestoreRollback

\* A record of the activation keeps the volumes: what is still owed for r.
LEMMA ForwardVolumes ==
    ASSUME RestoreInv, pc = "activate", Copying = {}, NEW r \in Record,
           r.status = jrn.status, r.unresolved = jrn.unresolved,
           r.phase \in ActivatePhase, PhaseProgress(r),
           r.activated > 0 => r.prepared = N,
           r.phase \in QuietPhase => ~running,
           r.phase \in ServedPhase => running,
           running => r.activated = 0 \/ (r.activated = N /\ AllStaged),
           VolumesKept(r)
    PROVE  VolumesInv(r)
  <1>1. jrn.unresolved = "none"
    BY DEF RestoreInv, CallsInv, DriverAt
  <1>2. PowerKnown(r)
    BY <1>1 DEF PowerKnown
  <1>3. HelpersKnown(r)
    BY DEF HelpersKnown
  <1>4. r.phase \in RestorePhase /\ r.phase # "none"
    BY DEF RestorePhase, ActivatePhase, CopyPhase, StartedPhase
  <1> QED BY <1>2, <1>3, <1>4 DEF VolumesInv, Progress

\* The volume loops of activateLocked.
LEMMA ActivateVolumesKeeps ==
    ASSUME RestoreInv, pc = "activate", waiting = {}, CallsDone, ActivateVolumes
    PROVE  RestoreInv'
  <1>0. /\ jrn \in Record /\ jrn.prepared \in 0..N /\ jrn.activated \in 0..N
        /\ jrn.inFlight \in 0..N /\ N \in Nat /\ VolumesInv(jrn)
        /\ VolumesKept(jrn) /\ PowerKnown(jrn) /\ PhaseProgress(jrn)
        /\ jrn.activated > 0 => jrn.prepared = N
    <2>1. jrn.phase # "none"
      BY DEF RestoreInv, CallsInv, DriverAt
    <2> QED BY <2>1, RestoreAssumption, RecordFields
            DEF RestoreInv, TypeOK, VolumesInv, Progress
  <1>P. {"rollback-copy-started", "rollback-copy-succeeded", "rollback-ready",
         "activation-copy-started", "activation-copy-succeeded",
         "activation-succeeded"} \subseteq Phase \cap ActivatePhase \cap QuietPhase
    BY PhasesKnown DEF RestorePhase, ActivatePhase, CopyPhase, QuietPhase
  <1>Q. ASSUME NEW ph \in CopyPhase PROVE ph \notin ServedPhase
    BY DEF CopyPhase, ServedPhase, StartedPhase, RequiresVerify
  <1>1. CASE /\ jrn.phase \in {"quiesced", "rollback-copy-succeeded"}
             /\ jrn.prepared < N
             /\ Transition([To("rollback-copy-started") EXCEPT
                              !.inFlight = jrn.prepared + 1], pc)
    <2>0. jrn.prepared + 1 \in 0..N
      BY <1>0, <1>1
    <2>1. PICK r : /\ r = [To("rollback-copy-started") EXCEPT !.inFlight = jrn.prepared + 1]
                   /\ Follows(r, "rollback-copy-started", jrn.prepared, jrn.activated,
                              jrn.prepared + 1)
      BY <1>0, <1>P, <2>0, InFlightRecord
    <2>2. PhaseProgress(r) /\ Sign(r, pc)
      BY <1>1, <2>1 DEF Transition
    <2>3. Copying = {} /\ ~running
      BY <1>0, <1>1, NoCopies DEF PowerKnown, QuietPhase, CopyPhase
    <2>4. jrn.activated = 0 /\ (jrn.phase = "quiesced" => jrn.prepared = 0)
      BY <1>0, <1>1 DEF PhaseProgress
    <2>5. VolumesKept(r)
      <3> SUFFICES ASSUME NEW v \in Vol PROVE VolumeKept(r, v)
        BY DEF VolumesKept
      <3>1. VolumeKept(jrn, v) /\ v \in 1..N
        BY <1>0 DEF VolumesKept, Vol
      <3> QED BY <1>0, <1>1, <2>1, <2>4, <3>1
              DEF VolumeKept, Changed, SavedPhase, CopyPhase, RollbackPhase, Follows
    <2>6. VolumesInv(r)
      BY <1>0, <1>P, <1>Q, <2>1, <2>2, <2>3, <2>4, <2>5, ForwardVolumes
         DEF CopyPhase, Follows
    <2> QED BY <1>P, <2>1, <2>2, <2>6, SignForward DEF Follows
  <1>2. CASE /\ jrn.phase = "rollback-copy-started"
             /\ Transition([To("rollback-copy-succeeded") EXCEPT
                              !.prepared = @ + 1, !.inFlight = 0], pc)
    <2>0. /\ jrn.prepared + 1 \in 0..N /\ jrn.inFlight = jrn.prepared + 1
          /\ jrn.activated = 0 /\ jrn.inFlight \in Vol
      BY <1>0, <1>2 DEF PhaseProgress, Vol
    <2>1. PICK r : /\ r = [To("rollback-copy-succeeded") EXCEPT
                             !.prepared = jrn.prepared + 1, !.inFlight = 0]
                   /\ Follows(r, "rollback-copy-succeeded", jrn.prepared + 1,
                              jrn.activated, 0)
      BY <1>0, <1>P, <2>0, PreparedRecord
    <2>2. To("rollback-copy-succeeded").prepared = jrn.prepared
      BY <1>0, <1>P, ToRecord DEF Follows
    <2>3. PhaseProgress(r) /\ Sign(r, pc)
      BY <1>2, <2>1, <2>2 DEF Transition
    <2>4. /\ Copying = {} /\ ~running
          /\ rollback[jrn.inFlight] = Newest(jrn.inFlight)
      BY <1>0, <1>2, CallsFinished
         DEF RestoreInv, CallsInv, DoneMeans, PowerKnown, QuietPhase, CopyPhase
    <2>5. VolumesKept(r)
      <3> SUFFICES ASSUME NEW v \in Vol PROVE VolumeKept(r, v)
        BY DEF VolumesKept
      <3>1. VolumeKept(jrn, v) /\ v \in 1..N
        BY <1>0 DEF VolumesKept, Vol
      <3>2. v <= r.prepared => v <= jrn.prepared \/ v = jrn.inFlight
        BY <1>0, <2>0, <2>1, <3>1 DEF Follows
      <3> QED BY <1>0, <1>2, <2>0, <2>1, <2>4, <3>1, <3>2
              DEF VolumeKept, Changed, SavedPhase, CopyPhase, RollbackPhase, Follows
    <2>6. VolumesInv(r)
      <3>1. /\ r \in Record /\ r.status = jrn.status /\ r.unresolved = jrn.unresolved
            /\ r.phase \in ActivatePhase /\ r.phase \notin ServedPhase /\ r.activated = 0
        BY <1>P, <1>Q, <2>0, <2>1 DEF CopyPhase, Follows
      <3> QED BY <2>3, <2>4, <2>5, <3>1, ForwardVolumes
    <2> QED BY <1>P, <2>1, <2>3, <2>6, SignForward DEF Follows
  <1>3. CASE /\ jrn.phase = "rollback-copy-succeeded" /\ jrn.prepared = N
             /\ Transition(To("rollback-ready"), pc)
    <2>1. PICK r : /\ r = To("rollback-ready")
                   /\ Follows(r, "rollback-ready", jrn.prepared, jrn.activated,
                              jrn.inFlight)
      BY <1>0, <1>P, ToRecord
    <2>2. PhaseProgress(r) /\ Sign(r, pc)
      BY <1>3, <2>1 DEF Transition
    <2>3. Copying = {} /\ ~running
      BY <1>0, <1>3, NoCopies DEF PowerKnown, QuietPhase, CopyPhase
    <2>4. VolumesKept(r)
      <3> SUFFICES ASSUME NEW v \in Vol PROVE VolumeKept(r, v)
        BY DEF VolumesKept
      <3>1. VolumeKept(jrn, v) /\ v \in 1..N
        BY <1>0 DEF VolumesKept, Vol
      <3> QED BY <1>0, <1>3, <2>1, <3>1
              DEF VolumeKept, Changed, SavedPhase, CopyPhase, RollbackPhase, Follows
    <2>5. VolumesInv(r)
      BY <1>0, <1>P, <1>Q, <2>1, <2>2, <2>3, <2>4, ForwardVolumes DEF CopyPhase, Follows
    <2> QED BY <1>P, <2>1, <2>2, <2>5, SignForward DEF Follows
  <1>4. CASE /\ jrn.phase \in {"rollback-ready", "activation-copy-succeeded"}
             /\ jrn.activated < N
             /\ Transition([To("activation-copy-started") EXCEPT
                              !.inFlight = jrn.activated + 1], pc)
    <2>0. jrn.activated + 1 \in 0..N /\ jrn.prepared = N
      BY <1>0, <1>4 DEF PhaseProgress
    <2>1. PICK r : /\ r = [To("activation-copy-started") EXCEPT
                             !.inFlight = jrn.activated + 1]
                   /\ Follows(r, "activation-copy-started", jrn.prepared, jrn.activated,
                              jrn.activated + 1)
      BY <1>0, <1>P, <2>0, InFlightRecord
    <2>2. PhaseProgress(r) /\ Sign(r, pc)
      BY <1>4, <2>1 DEF Transition
    <2>3. Copying = {} /\ ~running
      BY <1>0, <1>4, NoCopies DEF PowerKnown, QuietPhase, CopyPhase
    <2>4. VolumesKept(r)
      <3> SUFFICES ASSUME NEW v \in Vol PROVE VolumeKept(r, v)
        BY DEF VolumesKept
      <3>1. VolumeKept(jrn, v) /\ v \in 1..N
        BY <1>0 DEF VolumesKept, Vol
      <3>2. rollback[v] = Newest(v)
        BY <1>0, <1>4, <2>0, <3>1 DEF VolumeKept, SavedPhase, CopyPhase
      <3> QED BY <1>0, <1>4, <2>1, <3>1, <3>2
              DEF VolumeKept, Changed, SavedPhase, CopyPhase, RollbackPhase, Follows
    <2>5. VolumesInv(r)
      BY <1>0, <1>P, <1>Q, <2>1, <2>2, <2>3, <2>4, ForwardVolumes DEF CopyPhase, Follows
    <2> QED BY <1>P, <2>1, <2>2, <2>5, SignForward DEF Follows
  <1>5. CASE /\ jrn.phase = "activation-copy-started"
             /\ Transition([To("activation-copy-succeeded") EXCEPT
                              !.activated = @ + 1, !.inFlight = 0], pc)
    <2>0. /\ jrn.activated + 1 \in 0..N /\ jrn.inFlight = jrn.activated + 1
          /\ jrn.prepared = N /\ jrn.inFlight \in Vol
      BY <1>0, <1>5 DEF PhaseProgress, Vol
    <2>1. PICK r : /\ r = [To("activation-copy-succeeded") EXCEPT
                             !.activated = jrn.activated + 1, !.inFlight = 0]
                   /\ Follows(r, "activation-copy-succeeded", jrn.prepared,
                              jrn.activated + 1, 0)
      BY <1>0, <1>P, <2>0, ActivatedRecord
    <2>2. To("activation-copy-succeeded").activated = jrn.activated
      BY <1>0, <1>P, ToRecord DEF Follows
    <2>3. PhaseProgress(r) /\ Sign(r, pc)
      BY <1>5, <2>1, <2>2 DEF Transition
    <2>4. Copying = {} /\ ~running /\ live[jrn.inFlight] = "staged"
      BY <1>0, <1>5, CallsFinished
         DEF RestoreInv, CallsInv, DoneMeans, PowerKnown, QuietPhase, CopyPhase
    <2>5. VolumesKept(r)
      <3> SUFFICES ASSUME NEW v \in Vol PROVE VolumeKept(r, v)
        BY DEF VolumesKept
      <3>1. VolumeKept(jrn, v) /\ v \in 1..N
        BY <1>0 DEF VolumesKept, Vol
      <3>2. v <= r.activated <=> v <= jrn.activated \/ v = jrn.inFlight
        BY <1>0, <2>0, <2>1, <3>1 DEF Follows
      <3> QED BY <1>0, <1>5, <2>0, <2>1, <2>4, <3>1, <3>2
              DEF VolumeKept, Changed, SavedPhase, CopyPhase, RollbackPhase, Follows
    <2>6. VolumesInv(r)
      BY <1>0, <1>P, <1>Q, <2>0, <2>1, <2>3, <2>4, <2>5, ForwardVolumes
         DEF CopyPhase, Follows
    <2> QED BY <1>P, <2>1, <2>3, <2>6, SignForward DEF Follows
  <1>6. CASE /\ jrn.phase = "activation-copy-succeeded" /\ jrn.activated = N
             /\ Transition(To("activation-succeeded"), pc)
    <2>1. PICK r : /\ r = To("activation-succeeded")
                   /\ Follows(r, "activation-succeeded", jrn.prepared, jrn.activated,
                              jrn.inFlight)
      BY <1>0, <1>P, ToRecord
    <2>2. PhaseProgress(r) /\ Sign(r, pc)
      BY <1>6, <2>1 DEF Transition
    <2>3. Copying = {} /\ ~running
      BY <1>0, <1>6, NoCopies DEF PowerKnown, QuietPhase, CopyPhase
    <2>4. VolumesKept(r)
      <3> SUFFICES ASSUME NEW v \in Vol PROVE VolumeKept(r, v)
        BY DEF VolumesKept
      <3>1. VolumeKept(jrn, v) /\ v \in 1..N
        BY <1>0 DEF VolumesKept, Vol
      <3> QED BY <1>0, <1>6, <2>1, <3>1
              DEF VolumeKept, Changed, SavedPhase, CopyPhase, RollbackPhase, Follows
    <2>5. VolumesInv(r)
      BY <1>0, <1>P, <1>Q, <2>1, <2>2, <2>3, <2>4, ForwardVolumes DEF CopyPhase, Follows
    <2> QED BY <1>P, <2>1, <2>2, <2>5, SignForward DEF Follows
  <1> QED BY <1>1, <1>2, <1>3, <1>4, <1>5, <1>6 DEF ActivateVolumes

\* The phases around the volume loops, and the whole of activateLocked.
LEMMA ActivateKeeps ==
    ASSUME RestoreInv, activateLocked
    PROVE  RestoreInv'
  <1>1. pc = "activate" /\ waiting = {} /\ CallsDone
    BY DEF activateLocked
  <1>2. CASE ActivateVolumes
    BY <1>1, <1>2, ActivateVolumesKeeps
  <1>3. CASE ActivateRuntime
    <2>1. PICK next \in {"quiesce-started", "quiesced", "runtime-start-started",
                         "runtime-start-succeeded", "verify-started",
                         "verify-succeeded"} : Transition(To(next), pc)
      BY <1>3 DEF ActivateRuntime
    <2>2. /\ jrn \in Record /\ VolumesInv(jrn) /\ VolumesKept(jrn) /\ PowerKnown(jrn)
          /\ jrn.activated \in 0..N /\ jrn.prepared \in 0..N /\ jrn.inFlight \in 0..N
          /\ jrn.activated > 0 => jrn.prepared = N
      BY RecordFields DEF RestoreInv, TypeOK, VolumesInv, Progress
    <2>3. next \in Phase /\ next \in ActivatePhase
      BY PhasesKnown DEF RestorePhase, ActivatePhase, StartedPhase
    <2>4. PICK r : /\ r = To(next)
                   /\ Follows(r, next, jrn.prepared, jrn.activated, jrn.inFlight)
      BY <2>2, <2>3, ToRecord
    <2>5. /\ AllowedTransition(RestoreActivation, jrn.phase, next)
          /\ PhaseProgress(r) /\ Sign(r, pc)
      BY <2>1, <2>4 DEF Transition, Follows
    <2>6. /\ next = "quiesce-started" => jrn.phase = "prepared"
          /\ next = "quiesced" => jrn.phase = "quiesce-started"
          /\ next = "runtime-start-started" => jrn.phase = "activation-succeeded"
          /\ next = "runtime-start-succeeded" => jrn.phase = "runtime-start-started"
          /\ next = "verify-started" => jrn.phase = "runtime-start-succeeded"
          /\ next = "verify-succeeded" => jrn.phase = "verify-started"
      BY <2>5, RuntimeEdges
    <2>7. Copying = {}
      BY <2>1, <2>2, <2>6, NoCopies
    <2>8. next = "quiesced" => ~running
      BY <1>1, <2>6, CallsFinished DEF RestoreInv, CallsInv, DoneMeans
    <2>9. next = "runtime-start-succeeded" => running
      BY <1>1, <2>6, CallsFinished DEF RestoreInv, CallsInv, DoneMeans
    <2>10. next \in {"verify-started", "verify-succeeded"} => running
      BY <2>2, <2>6 DEF PowerKnown, ServedPhase, StartedPhase
    <2>11. /\ next \in QuietPhase => ~running
           /\ next \in ServedPhase => running
      BY <2>1, <2>8, <2>9, <2>10
         DEF QuietPhase, CopyPhase, ServedPhase, StartedPhase, RequiresVerify
    <2>12. VolumesKept(r)
      <3> SUFFICES ASSUME NEW v \in Vol PROVE VolumeKept(r, v)
        BY DEF VolumesKept
      <3>1. VolumeKept(jrn, v)
        BY <2>2 DEF VolumesKept
      <3>2. /\ r.prepared = jrn.prepared /\ r.activated = jrn.activated
            /\ r.phase = next
        BY <2>4 DEF Follows
      <3>3. /\ next \in SavedPhase => jrn.phase \in SavedPhase
            /\ jrn.phase \notin RollbackPhase \cup {"commit-succeeded"}
            /\ next \notin RollbackPhase \cup {"commit-succeeded"}
            /\ jrn.phase # "activation-copy-started"
            /\ next # "activation-copy-started"
        BY <2>1, <2>6 DEF SavedPhase, CopyPhase, StartedPhase, RollbackPhase
      <3> QED BY <3>1, <3>2, <3>3 DEF VolumeKept, Changed
    <2>13. VolumesInv(r)
      <3>1. /\ r \in Record /\ r.status = jrn.status /\ r.unresolved = jrn.unresolved
            /\ r.phase = next /\ r.activated = jrn.activated
            /\ r.prepared = jrn.prepared
        BY <2>4 DEF Follows
      <3>2. running => r.activated = 0 \/ (r.activated = N /\ AllStaged)
        BY <2>2, <3>1 DEF PowerKnown
      <3> QED BY <1>1, <2>2, <2>3, <2>5, <2>7, <2>11, <2>12, <3>1, <3>2, ForwardVolumes
    <2> QED BY <1>1, <2>3, <2>4, <2>5, <2>13, SignForward DEF Follows
  <1> QED BY <1>2, <1>3 DEF activateLocked

\* The commit.
LEMMA CommitKeeps ==
    ASSUME RestoreInv, Commit
    PROVE  RestoreInv'
  <1>0. /\ jrn \in Record /\ Progress(jrn) /\ VolumesKept(jrn) /\ PowerKnown(jrn)
        /\ VolumesInv(jrn) /\ jrn.status = Active /\ jrn.unresolved = "none"
        /\ pc = "commit" /\ waiting = {} /\ result = NoResult
    BY DEF RestoreInv, TypeOK, VolumesInv, CallsInv, DriverAt, WaitsFor, Settled,
           Commit, ResultInv
  <1>1. PICK next \in {"commit-started", "commit-succeeded"} :
            /\ next = "commit-started" => jrn.phase = "verify-succeeded"
            /\ next = "commit-succeeded" => jrn.phase = "commit-started"
            /\ Transition(To(next), IF next = "commit-started" THEN "commit" ELSE "persist")
    BY <1>0 DEF Commit
  <1>2. next \in Phase /\ next \in RestorePhase
    BY PhasesKnown DEF RestorePhase
  <1>3. PICK r : /\ r = To(next)
                 /\ Follows(r, next, jrn.prepared, jrn.activated, jrn.inFlight)
    BY <1>0, <1>2, ToRecord
  <1>4. /\ PhaseProgress(r)
        /\ Sign(r, IF next = "commit-started" THEN "commit" ELSE "persist")
    BY <1>1, <1>3 DEF Transition
  <1>5. /\ r \in Record /\ r.status = Active /\ r.unresolved = "none"
        /\ r.phase = next /\ r.activated = jrn.activated
        /\ r.prepared = jrn.prepared
    BY <1>0, <1>3 DEF Follows
  <1>6. Copying = {} /\ running
    BY <1>0, <1>1, NoCopies DEF PowerKnown, ServedPhase, StartedPhase
  <1>7. VolumesKept(r)
    <2> SUFFICES ASSUME NEW v \in Vol PROVE VolumeKept(r, v)
      BY DEF VolumesKept
    <2>1. VolumeKept(jrn, v)
      BY <1>0 DEF VolumesKept
    <2>2. /\ next \in SavedPhase => jrn.phase \in SavedPhase
          /\ jrn.phase \notin RollbackPhase \cup {"commit-succeeded"}
          /\ next \notin RollbackPhase
          /\ jrn.phase # "activation-copy-started"
          /\ next # "activation-copy-started"
      BY <1>1 DEF SavedPhase, CopyPhase, StartedPhase, RollbackPhase
    <2> QED BY <1>5, <2>1, <2>2 DEF VolumeKept, Changed
  <1>8. PowerKnown(r)
    BY <1>0, <1>1, <1>5, <1>6 DEF PowerKnown, QuietPhase, CopyPhase
  <1>9. VolumesInv(r)
    BY <1>0, <1>1, <1>2, <1>4, <1>5, <1>6, <1>7, <1>8 DEF VolumesInv, HelpersKnown, Progress
  <1>10. TerminalFits(r)
    BY <1>5 DEF TerminalFits
  <1> QED BY <1>0, <1>1, <1>4, <1>5, <1>9, <1>10, SignKeeps

\* A rollback begins from whatever phase the activation left: the volume whose
\* copy was in flight is counted as activated.
LEMMA RollbackStartsKeeps ==
    ASSUME RestoreInv, pc = "rollback", waiting = {}, RollbackStarts
    PROVE  RestoreInv'
  <1> DEFINE a == IF jrn.phase = "activation-copy-started"
                  THEN jrn.activated + 1 ELSE jrn.activated
  <1>0. /\ jrn \in Record /\ jrn.activated \in 0..N /\ jrn.prepared \in 0..N
        /\ jrn.inFlight \in 0..N /\ N \in Nat
        /\ Progress(jrn) /\ HelpersKnown(jrn) /\ VolumesKept(jrn) /\ PowerKnown(jrn)
        /\ jrn.phase \notin RollbackPhase \cup {"commit-succeeded"} /\ done = {}
        /\ jrn.phase # "none"
    BY RecordFields, RestoreAssumption
       DEF RestoreInv, TypeOK, VolumesInv, CallsInv, DriverAt, RollbackStarts
  <1>1. jrn.phase = "activation-copy-started" =>
           /\ jrn.prepared = N /\ jrn.activated < N
           /\ jrn.inFlight = jrn.activated + 1
    BY <1>0 DEF Progress, PhaseProgress
  <1>2. a \in 0..N
    BY <1>0, <1>1
  <1>3. "rollback-started" \in Phase
    BY PhasesKnown DEF RestorePhase, RollbackPhase
  <1>4. PICK r : /\ r = [To("rollback-started") EXCEPT !.activated = a, !.inFlight = 0]
                 /\ Follows(r, "rollback-started", jrn.prepared, a, 0)
    BY <1>0, <1>2, <1>3, ActivatedRecord
  <1>5. To("rollback-started").activated = jrn.activated
    BY <1>0, <1>3, ToRecord DEF Follows
  <1>6. PhaseProgress(r) /\ Sign(r, pc)
    BY <1>4, <1>5 DEF RollbackStarts, Transition
  <1>7. /\ r \in Record /\ r.status = jrn.status /\ r.unresolved = jrn.unresolved
        /\ r.phase = "rollback-started" /\ r.prepared = jrn.prepared
        /\ r.activated = a /\ r.inFlight = 0
    BY <1>4 DEF Follows
  <1>8. Progress(r)
    BY <1>0, <1>1, <1>6, <1>7 DEF Progress, RestorePhase, RollbackPhase
  <1>9. HelpersKnown(r)
    <2> SUFFICES ASSUME NEW h \in Copying
                 PROVE  ~running /\ r.unresolved # "start" /\ HelperKnown(r, h)
      BY DEF HelpersKnown
    <2>1. ~running /\ jrn.unresolved # "start" /\ HelperKnown(jrn, h)
      BY <1>0 DEF HelpersKnown
    <2>2. HelperKnown(r, h)
      BY <1>0, <1>1, <1>7, <2>1 DEF HelperKnown, RollbackPhase
    <2> QED BY <1>7, <2>1, <2>2
  <1>10. VolumesKept(r)
    <2> SUFFICES ASSUME NEW v \in Vol PROVE VolumeKept(r, v)
      BY DEF VolumesKept
    <2>1. VolumeKept(jrn, v) /\ v \in 1..N
      BY <1>0 DEF VolumesKept, Vol
    <2>2. Changed(r, v) <=> Changed(jrn, v)
      BY <1>0, <1>1, <1>7, <2>1 DEF Changed
    <2> QED BY <1>0, <1>7, <2>1, <2>2
            DEF VolumeKept, SavedPhase, CopyPhase, StartedPhase, RollbackPhase
  <1>11. PowerKnown(r)
    <2>1. running \/ jrn.unresolved = "start" => a = jrn.activated
      BY <1>0 DEF PowerKnown, QuietPhase, CopyPhase
    <2>2. running \/ r.unresolved = "start" =>
             r.activated = 0 \/ (r.activated = N /\ AllStaged)
      BY <1>0, <1>7, <2>1 DEF PowerKnown
    <2> HIDE DEF a
    <2> QED BY <1>7, <2>2
            DEF PowerKnown, QuietPhase, CopyPhase, ServedPhase, StartedPhase,
                RequiresVerify, RequiresQuiesce
  <1>12. VolumesInv(r)
    BY <1>8, <1>9, <1>10, <1>11 DEF VolumesInv
  <1> QED BY <1>0, <1>6, <1>7, <1>12, SignBack DEF RollbackPhase

\* The volume loop of rollbackLocked.
LEMMA RollbackVolumesKeeps ==
    ASSUME RestoreInv, pc = "rollback", waiting = {},
           jrn.phase \in RequiresQuiesce => "stop" \in done, RollbackVolumes
    PROVE  RestoreInv'
  <1>0. /\ jrn \in Record /\ jrn.activated \in 0..N /\ jrn.prepared \in 0..N
        /\ jrn.inFlight \in 0..N /\ N \in Nat
        /\ Progress(jrn) /\ VolumesKept(jrn)
        /\ jrn.activated > 0 => jrn.prepared = N
    BY RecordFields, RestoreAssumption DEF RestoreInv, TypeOK, VolumesInv, Progress
  <1>1. jrn.phase \in RequiresQuiesce
    BY DEF RollbackVolumes, RequiresQuiesce
  <1>2. ~running /\ Copying = {} /\ jrn.unresolved = "none"
    BY <1>1 DEF RestoreInv, CallsInv, DoneMeans, DriverAt
  <1>P. {"rollback-volume-started", "rollback-volume-succeeded"}
           \subseteq Phase \cap RestorePhase \cap RollbackPhase
    BY PhasesKnown DEF RestorePhase, RollbackPhase
  <1>3. ASSUME NEW r \in Record, r.unresolved = "none", PhaseProgress(r), VolumesKept(r),
               r.phase \in {"rollback-volume-started", "rollback-volume-succeeded"},
               r.activated > 0 => r.prepared = N
        PROVE  VolumesInv(r)
    <2>1. HelpersKnown(r)
      BY <1>2 DEF HelpersKnown
    <2>2. PowerKnown(r)
      BY <1>2, <1>3 DEF PowerKnown, QuietPhase, ServedPhase, StartedPhase, RequiresVerify
    <2>3. Progress(r)
      BY <1>3, <1>P DEF Progress
    <2> QED BY <1>3, <2>1, <2>2, <2>3 DEF VolumesInv
  <1>4. CASE /\ jrn.phase \in {"rollback-started", "rollback-volume-succeeded"}
             /\ jrn.activated > 0
             /\ Transition([To("rollback-volume-started") EXCEPT
                              !.inFlight = jrn.activated], pc)
    <2>1. PICK r : /\ r = [To("rollback-volume-started") EXCEPT !.inFlight = jrn.activated]
                   /\ Follows(r, "rollback-volume-started", jrn.prepared, jrn.activated,
                              jrn.activated)
      BY <1>0, <1>P, InFlightRecord
    <2>2. PhaseProgress(r) /\ Sign(r, pc)
      BY <1>4, <2>1 DEF Transition
    <2>3. VolumesKept(r)
      <3> SUFFICES ASSUME NEW v \in Vol PROVE VolumeKept(r, v)
        BY DEF VolumesKept
      <3>1. VolumeKept(jrn, v)
        BY <1>0 DEF VolumesKept
      <3> QED BY <1>4, <2>1, <3>1
              DEF VolumeKept, Changed, SavedPhase, CopyPhase, StartedPhase,
                  RollbackPhase, Follows
    <2>4. VolumesInv(r)
      BY <1>0, <1>2, <1>3, <2>1, <2>2, <2>3 DEF Follows
    <2> QED BY <1>1, <1>P, <2>1, <2>2, <2>4, SignBack DEF Follows
  <1>5. CASE /\ jrn.phase = "rollback-volume-started" /\ "copy" \in done
             /\ Transition([To("rollback-volume-succeeded") EXCEPT
                              !.activated = @ - 1, !.inFlight = 0], pc)
    <2>0. /\ jrn.activated - 1 \in 0..N /\ jrn.inFlight = jrn.activated
          /\ jrn.inFlight \in Vol
      BY <1>0, <1>5 DEF Progress, PhaseProgress, Vol
    <2>1. PICK r : /\ r = [To("rollback-volume-succeeded") EXCEPT
                             !.activated = jrn.activated - 1, !.inFlight = 0]
                   /\ Follows(r, "rollback-volume-succeeded", jrn.prepared,
                              jrn.activated - 1, 0)
      BY <1>0, <1>P, <2>0, ActivatedRecord
    <2>2. To("rollback-volume-succeeded").activated = jrn.activated
      BY <1>0, <1>P, ToRecord DEF Follows
    <2>3. PhaseProgress(r) /\ Sign(r, pc)
      BY <1>5, <2>1, <2>2 DEF Transition
    <2>4. live[jrn.inFlight] = Newest(jrn.inFlight)
      BY <1>5 DEF RestoreInv, CallsInv, DoneMeans
    <2>5. VolumesKept(r)
      <3> SUFFICES ASSUME NEW v \in Vol PROVE VolumeKept(r, v)
        BY DEF VolumesKept
      <3>1. VolumeKept(jrn, v) /\ v \in 1..N
        BY <1>0 DEF VolumesKept, Vol
      <3>2. v <= r.activated <=> v <= jrn.activated /\ v # jrn.inFlight
        BY <1>0, <2>0, <2>1, <3>1 DEF Follows
      <3> QED BY <1>5, <2>0, <2>1, <2>4, <3>1, <3>2
              DEF VolumeKept, Changed, SavedPhase, CopyPhase, StartedPhase,
                  RollbackPhase, Follows
    <2>6. r.activated > 0 => r.prepared = N
      BY <1>0, <2>1 DEF Follows
    <2>7. VolumesInv(r)
      BY <1>2, <1>3, <2>1, <2>3, <2>5, <2>6 DEF Follows
    <2> QED BY <1>1, <1>P, <2>1, <2>3, <2>7, SignBack DEF Follows
  <1> QED BY <1>4, <1>5 DEF RollbackVolumes

\* The runtime phases of rollbackLocked, and the whole of it.
LEMMA RollbackKeeps ==
    ASSUME RestoreInv, rollbackLocked
    PROVE  RestoreInv'
  <1>1. /\ pc = "rollback" /\ waiting = {}
        /\ jrn.phase \in RequiresQuiesce => "stop" \in done
    BY DEF rollbackLocked
  <1>2. CASE RollbackStarts
    BY <1>1, <1>2, RollbackStartsKeeps
  <1>3. CASE RollbackVolumes
    BY <1>1, <1>3, RollbackVolumesKeeps
  <1>4. CASE RollbackRuntime
    <2>1. PICK next \in {"rollback-runtime-started", "rollback-runtime-succeeded",
                         "rollback-verify-started", "rollback-verify-succeeded",
                         "rollback-succeeded"} :
              /\ next = "rollback-runtime-started" =>
                    /\ jrn.phase \in {"rollback-started", "rollback-volume-succeeded"}
                    /\ jrn.activated = 0
              /\ next = "rollback-runtime-succeeded" =>
                    jrn.phase = "rollback-runtime-started" /\ "start" \in done
              /\ next = "rollback-verify-started" => jrn.phase = "rollback-runtime-succeeded"
              /\ next = "rollback-verify-succeeded" => jrn.phase = "rollback-verify-started"
              /\ next = "rollback-succeeded" => jrn.phase = "rollback-verify-succeeded"
              /\ Transition(To(next), pc)
      BY <1>4 DEF RollbackRuntime
    <2>2. /\ jrn \in Record /\ Progress(jrn) /\ VolumesKept(jrn) /\ PowerKnown(jrn)
          /\ VolumesInv(jrn)
      BY DEF RestoreInv, TypeOK, VolumesInv
    <2>3. next \in Phase /\ next \in RestorePhase /\ next \in RollbackPhase
      BY PhasesKnown DEF RestorePhase, RollbackPhase
    <2>4. PICK r : /\ r = To(next)
                   /\ Follows(r, next, jrn.prepared, jrn.activated, jrn.inFlight)
      BY <2>2, <2>3, ToRecord
    <2>5. PhaseProgress(r) /\ Sign(r, pc)
      BY <2>1, <2>4 DEF Transition
    <2>6. /\ r \in Record /\ r.status = jrn.status /\ r.unresolved = jrn.unresolved
          /\ r.phase = next /\ r.activated = jrn.activated
          /\ r.prepared = jrn.prepared /\ r.inFlight = jrn.inFlight
      BY <2>4 DEF Follows
    <2>7. jrn.activated = 0
      BY <2>1, <2>5, <2>6 DEF PhaseProgress
    <2>8. Copying = {} /\ jrn.unresolved = "none"
      <3>1. CASE next = "rollback-runtime-started"
        <4>1. jrn.phase \in RequiresQuiesce /\ "stop" \in done
          BY <1>1, <2>1, <3>1 DEF RequiresQuiesce
        <4> QED BY <1>1, <4>1 DEF RestoreInv, CallsInv, DoneMeans, DriverAt
      <3>2. CASE next = "rollback-runtime-succeeded"
        BY <2>1, <2>2, <3>2, NoCopies DEF RestoreInv, CallsInv, DriverAt
      <3>3. CASE next \notin {"rollback-runtime-started", "rollback-runtime-succeeded"}
        BY <2>1, <2>2, <3>3, NoCopies DEF PowerKnown, ServedPhase, RequiresVerify
      <3> QED BY <3>1, <3>2, <3>3
    <2>9. next # "rollback-runtime-started" => running
      <3>1. CASE next = "rollback-runtime-succeeded"
        BY <1>1, <2>1, <3>1 DEF RestoreInv, CallsInv, DoneMeans
      <3>2. CASE next \notin {"rollback-runtime-started", "rollback-runtime-succeeded"}
        BY <2>1, <2>2, <3>2 DEF PowerKnown, ServedPhase, RequiresVerify
      <3> QED BY <3>1, <3>2
    <2>10. VolumesKept(r)
      <3> SUFFICES ASSUME NEW v \in Vol PROVE VolumeKept(r, v)
        BY DEF VolumesKept
      <3>1. VolumeKept(jrn, v)
        BY <2>2 DEF VolumesKept
      <3> QED BY <2>1, <2>6, <3>1
              DEF VolumeKept, Changed, SavedPhase, CopyPhase, StartedPhase, RollbackPhase
    <2>11. PowerKnown(r)
      BY <2>1, <2>6, <2>7, <2>8, <2>9 DEF PowerKnown, QuietPhase, CopyPhase, ServedPhase,
         StartedPhase, RequiresVerify
    <2>12. VolumesInv(r)
      BY <2>2, <2>3, <2>5, <2>6, <2>8, <2>10, <2>11 DEF VolumesInv, HelpersKnown, Progress
    <2>13. r.phase \notin RequiresQuiesce
      BY <2>1, <2>6 DEF RequiresQuiesce
    <2> QED BY <1>1, <2>3, <2>5, <2>6, <2>12, <2>13, SignBack
  <1> QED BY <1>2, <1>3, <1>4 DEF rollbackLocked

-----------------------------------------------------------------------------
(* Steps that change the driver only.                                      *)

\* A refused, failed or canceled call.
LEMMA RefusalKeeps ==
    ASSUME RestoreInv, StopRefused \/ StartRefused \/ Cancel \/ \E h \in helpers : HelperFails(h)
    PROVE  RestoreInv'
  <1>1. CASE StopRefused \/ StartRefused
    <2>1. pc # "idle"
      BY <1>1, DueCalls DEF StopRefused, StartRefused
    <2>2. helpers' \subseteq helpers
      BY <1>1 DEF StopRefused, StartRefused
    <2> QED BY <1>1, <2>1, <2>2, FailedCall DEF StopRefused, StartRefused
  <1>2. CASE Cancel \/ \E h \in helpers : HelperFails(h)
    <2>1. pc # "idle"
      BY <1>2 DEF Cancel, HelperFails, RestoreInv, CallsInv, WaitsFor
    <2>2. Fail /\ helpers' \subseteq helpers /\ UNCHANGED <<jrn, data, evidence>>
      BY <1>2 DEF Cancel, HelperFails
    <2>3. \E k \in {"journal", "call", "cancel", "crash"} : Fault(k)
      BY <1>2 DEF Cancel, HelperFails
    <2> QED BY <2>1, <2>2, <2>3, FailedCall
  <1> QED BY <1>1, <1>2

\* The driver goes on from one part of the call to the next, without a result.
LEMMA DriverGoes ==
    ASSUME RestoreInv, NEW next, UNCHANGED <<jrn, data, helpers, evidence, faults>>,
           waiting = {}, waiting' = {}, pc' = next, done' \subseteq done,
           entry' \in {entry, "recover", "none"},
           \/ pc = "activate" /\ next = "commit" /\ jrn.phase = "verify-succeeded"
           \/ pc = "reconcile" /\ next = "rollback" /\ entry' = entry
           \/ /\ pc \in {"rollback", "committed"} /\ next = "persist" /\ entry' = entry
              /\ jrn.phase \in {"commit-succeeded", "rollback-succeeded"}
           \/ /\ pc = "idle" /\ next \in {"close", "committed", "rollback"}
              /\ entry' = "recover" /\ jrn.phase # "none"
              /\ next = "close" <=> Settled
              /\ next = "committed" => jrn.phase = "commit-succeeded"
              /\ next = "rollback" => jrn.phase # "commit-succeeded"
           \/ pc = "close" /\ next = "idle" /\ done' = {}
    PROVE  RestoreInv'
  <1>0. UNCHANGED <<live, rollback, wrote, staged, running, result, finalized>>
    BY DEF data, evidence
  <1>1. TypeOK
    BY DEF RestoreInv
  <1>2. Copying' = Copying
    BY DEF Copying
  <1>3. /\ jrn.phase \in {"commit-succeeded", "rollback-succeeded"} => jrn.unresolved = "none"
        /\ Settled => jrn.phase \in {"commit-succeeded", "rollback-succeeded"}
    <2>1. PowerKnown(jrn) /\ CleanInv /\ jrn.status \in Status
      BY <1>1, RecordFields DEF RestoreInv, VolumesInv, TypeOK
    <2>2. Settled => jrn.status = Succeeded \/ jrn.status = Recovered
      BY <2>1 DEF Settled, Status
    <2> QED BY <2>1, <2>2 DEF PowerKnown, ServedPhase, RequiresVerify, CleanInv
  <1>4. DriverAt'
    BY <1>0, <1>3 DEF RestoreInv, CallsInv, DriverAt, Settled, ActivatePhase, CopyPhase,
       StartedPhase
  <1>5. WaitsFor'
    BY DEF WaitsFor
  <1>6. DoneMeans'
    <2>1. pc' = "rollback" => done' = {}
      BY DEF RestoreInv, CallsInv, DriverAt
    <2> QED BY <2>1 DEF DoneMeans
  <1>7. ResultInv'
    BY <1>0 DEF RestoreInv, ResultInv, Settled
  <1>8. CleanInv'
    BY <1>0 DEF RestoreInv, CleanInv, Settled, SettledOutcome
  <1> QED BY <1>0, <1>1, <1>2, <1>4, <1>5, <1>6, <1>7, <1>8, DriverMoves DEF TypeOK, CallsInv

\* Activate's signature, the end of a rollback, reconciliation, the branches of
\* Recover, and the return.
LEMMA DriverKeeps ==
    ASSUME RestoreInv,
           \/ SignActivated \/ RolledBack \/ ReconcileForRecovery \/ Recover
           \/ CommittedVerified \/ Return
    PROVE  RestoreInv'
  <1>0. TypeOK /\ CallsInv
    BY DEF RestoreInv
  <1>1. CASE SignActivated
    <2>1. pc = "activate" /\ jrn.phase = "verify-succeeded" /\ waiting = {}
      BY <1>0, <1>1 DEF SignActivated, CallsInv, WaitsFor
    <2>2. CASE Goto("commit") /\ UNCHANGED faults
      BY <1>1, <2>1, <2>2, DriverGoes DEF SignActivated, Goto
    <2>3. CASE Fault("call") /\ Fail
      BY <1>1, <2>1, <2>3, FailedCall DEF SignActivated
    <2> QED BY <1>1, <2>2, <2>3 DEF SignActivated
  <1>2. CASE RolledBack
    <2>1. pc = "rollback" /\ jrn.phase = "rollback-succeeded" /\ waiting = {}
      BY <1>0, <1>2 DEF RolledBack, CallsInv, WaitsFor
    <2> QED BY <1>2, <2>1, DriverGoes DEF RolledBack, Goto
  <1>3. CASE ReconcileForRecovery
    <2>1. pc = "reconcile" /\ waiting = {}
      BY <1>0, <1>3 DEF ReconcileForRecovery, CallsInv, DriverAt
    <2>2. CASE Goto("rollback") /\ UNCHANGED faults
      BY <1>3, <2>1, <2>2, DriverGoes DEF ReconcileForRecovery, Goto
    <2>3. CASE Fault("journal") /\ Fail
      BY <1>3, <2>1, <2>3, FailedCall DEF ReconcileForRecovery
    <2> QED BY <1>3, <2>2, <2>3 DEF ReconcileForRecovery
  <1>4. CASE Recover
    <2>1. pc = "idle" /\ waiting = {} /\ jrn.phase # "none" /\ waiting' = {} /\ done' = {}
      BY <1>0, <1>4 DEF Recover, CallsInv, DriverAt
    <2>2. PICK next \in {"close", "committed", "rollback"} :
             /\ pc' = next
             /\ next = "close" <=> Settled
             /\ next = "committed" => jrn.phase = "commit-succeeded"
             /\ next = "rollback" => jrn.phase # "commit-succeeded"
      BY <1>4 DEF Recover
    <2>3. entry' = "recover" /\ UNCHANGED <<jrn, data, helpers, evidence, faults>>
      BY <1>4 DEF Recover
    <2> QED BY <2>1, <2>2, <2>3, DriverGoes
  <1>5. CASE CommittedVerified
    <2>1. pc = "committed" /\ jrn.phase = "commit-succeeded" /\ waiting = {}
      BY <1>0, <1>5 DEF CommittedVerified, CallsInv, DriverAt, WaitsFor
    <2> QED BY <1>5, <2>1, DriverGoes DEF CommittedVerified, Goto
  <1>6. CASE Return
    <2>1. pc = "close" /\ waiting = {}
      BY <1>0, <1>6 DEF Return, CallsInv, WaitsFor
    <2> QED BY <1>6, <2>1, DriverGoes DEF Return
  <1> QED BY <1>1, <1>2, <1>3, <1>4, <1>5, <1>6

\* The services are verified: only the call is remembered.
LEMMA VerifyKeeps ==
    ASSUME RestoreInv, VerifyLive
    PROVE  RestoreInv'
  <1>0. TypeOK /\ CallsInv /\ waiting = {} /\ pc # "idle"
    BY DueCalls DEF RestoreInv, VerifyLive
  <1>1. CASE running /\ Ran("verify") /\ UNCHANGED <<waiting, faults>>
    <2>0. /\ UNCHANGED <<live, rollback, wrote, staged, running, result, finalized>>
          /\ UNCHANGED <<jrn, data, helpers>>
      BY DEF VerifyLive, data, evidence
    <2>1. /\ done' = done \cup {"verify"} /\ UNCHANGED <<pc, entry>>
          /\ waiting' = {} /\ Copying' = Copying
      BY <1>0, <1>1, <2>0 DEF Ran, Copying
    <2>2. /\ jrn.phase \in ServedPhase /\ pc # "reconcile"
          /\ pc = "rollback" => jrn.phase \in RollbackPhase
      BY <1>0, DueCalls DEF VerifyLive, ServedPhase, StartedPhase, RequiresVerify,
         RollbackPhase, CallsInv, DriverAt
    <2>3. jrn.unresolved = "none"
      BY <2>2 DEF RestoreInv, VolumesInv, PowerKnown
    <2>4. DriverAt'
      BY <1>0, <2>0, <2>1, <2>2, <2>3 DEF CallsInv, DriverAt, Settled
    <2>5. WaitsFor'
      BY <2>1 DEF WaitsFor
    <2>6. DoneMeans'
      BY <1>0, <2>0, <2>1 DEF CallsInv, DoneMeans, Newest
    <2>7. ResultInv'
      BY <2>0, <2>1 DEF RestoreInv, ResultInv, Settled
    <2>8. CleanInv'
      BY <2>0, <2>1 DEF RestoreInv, CleanInv, Settled, SettledOutcome
    <2> QED BY <1>0, <1>1, <2>0, <2>1, <2>4, <2>5, <2>6, <2>7, <2>8, DriverMoves
            DEF TypeOK, CallsInv
  <1>2. CASE (Fault("call") \/ Fault("cancel")) /\ Fail
    <2>1. helpers' \subseteq helpers /\ UNCHANGED <<jrn, data, evidence>>
      BY DEF VerifyLive
    <2> QED BY <1>0, <1>2, <2>1, FailedCall
  <1> QED BY <1>1, <1>2 DEF VerifyLive

\* Digest helpers come and go without touching a volume.
LEMMA DigestKeeps ==
    ASSUME RestoreInv,
           \/ \E k \in {"digest-staged", "digest-live"} : DigestStarts(k)
           \/ \E h \in helpers : DigestEnds(h)
    PROVE  RestoreInv'
  <1>0. TypeOK /\ CallsInv
    BY DEF RestoreInv
  <1>1. CASE \E k \in {"digest-staged", "digest-live"} : DigestStarts(k)
    <2>1. PICK k \in {"digest-staged", "digest-live"} : DigestStarts(k)
      BY <1>1
    <2>2. PICK h : h = [call |-> k, vol |-> jrn.inFlight]
      OBVIOUS
    <2>3. /\ helpers' = helpers \cup {h} /\ waiting' = {h} /\ waiting = {}
          /\ UNCHANGED <<jrn, data, pc, entry, done, evidence, faults>>
          /\ pc = "activate" /\ jrn.phase = "activation-copy-started" /\ "copy" \in done
      BY <2>1, <2>2, DueCalls DEF DigestStarts
    <2>4. /\ UNCHANGED <<live, rollback, wrote, staged, running, result, finalized>>
          /\ jrn.unresolved = "none"
      BY <1>0, <2>3 DEF data, evidence, CallsInv, DriverAt
    <2>5. jrn.inFlight \in Vol
      <3>1. PhaseProgress(jrn) /\ jrn \in Record
        BY <1>0, <2>3 DEF RestoreInv, VolumesInv, Progress, TypeOK
      <3> QED BY <2>3, <3>1, RecordFields, RestoreAssumption DEF PhaseProgress, Vol
    <2>6. h \in Helper /\ IsDigest(h) /\ h.vol = jrn.inFlight
      BY <2>2, <2>5 DEF Helper, IsDigest
    <2>7. Copying' = Copying
      BY <2>3, <2>6 DEF Copying
    <2>8. DriverAt'
      BY <1>0, <2>3, <2>4 DEF CallsInv, DriverAt, Settled
    <2>9. WaitsFor'
      BY <2>3, <2>6 DEF WaitsFor
    <2>10. DoneMeans'
      BY <1>0, <2>3, <2>4, <2>7 DEF CallsInv, DoneMeans, Newest
    <2>11. ResultInv'
      BY <2>3, <2>4 DEF RestoreInv, ResultInv, Settled
    <2>12. CleanInv'
      BY <2>3, <2>4 DEF RestoreInv, CleanInv, Settled, SettledOutcome
    <2> QED BY <1>0, <2>3, <2>4, <2>6, <2>7, <2>8, <2>9, <2>10, <2>11, <2>12, DriverMoves
            DEF TypeOK, CallsInv
  <1>2. CASE \E h \in helpers : DigestEnds(h)
    <2>1. PICK h \in helpers : DigestEnds(h)
      BY <1>2
    <2>2. /\ IsDigest(h) /\ helpers' = helpers \ {h}
          /\ UNCHANGED <<jrn, data, evidence, faults>>
          /\ UNCHANGED <<live, rollback, wrote, staged, running, result, finalized>>
          /\ Copying' = Copying
      BY <2>1 DEF DigestEnds, Copying, data, evidence
    <2>3. CASE Fail /\ h \in waiting
      <3>1. pc # "idle"
        BY <1>0, <2>3 DEF CallsInv, WaitsFor
      <3> QED BY <2>2, <2>3, <3>1, FailedCall
    <2>4. CASE h \in waiting /\ waiting' = {} /\ Ran(h.call)
      <3>1. /\ pc = "activate" /\ jrn.phase = "activation-copy-started"
            /\ jrn.unresolved = "none"
        BY <1>0, <2>2, <2>4 DEF CallsInv, WaitsFor, DriverAt, IsDigest
      <3>2. /\ done' = done \cup {h.call} /\ UNCHANGED <<pc, entry>>
            /\ h.call \in {"digest-staged", "digest-live"}
        BY <2>2, <2>4 DEF Ran, IsDigest
      <3>3. DriverAt'
        BY <1>0, <2>2, <2>4, <3>1, <3>2 DEF CallsInv, DriverAt, Settled
      <3>4. WaitsFor'
        BY <2>4 DEF WaitsFor
      <3>5. DoneMeans'
        BY <1>0, <2>2, <3>1, <3>2 DEF CallsInv, DoneMeans, Newest
      <3>6. ResultInv'
        BY <2>2, <3>2 DEF RestoreInv, ResultInv, Settled
      <3>7. CleanInv'
        BY <2>2, <3>2 DEF RestoreInv, CleanInv, Settled, SettledOutcome
      <3> QED BY <1>0, <2>2, <2>4, <3>2, <3>3, <3>4, <3>5, <3>6, <3>7, DriverMoves
              DEF TypeOK, CallsInv
    <2>5. CASE h \notin waiting /\ UNCHANGED driver
      <3>1. UNCHANGED <<pc, entry, waiting, done>>
        BY <2>5 DEF driver
      <3>2. waiting' \subseteq helpers'
        BY <1>0, <2>2, <2>5, <3>1 DEF TypeOK
      <3>3. DriverAt' /\ WaitsFor'
        BY <1>0, <2>2, <3>1 DEF CallsInv, DriverAt, WaitsFor, Settled
      <3>4. DoneMeans'
        BY <1>0, <2>2, <3>1 DEF CallsInv, DoneMeans, Newest
      <3>5. ResultInv'
        BY <2>2, <3>1 DEF RestoreInv, ResultInv, Settled
      <3>6. CleanInv'
        BY <2>2, <3>1 DEF RestoreInv, CleanInv, Settled, SettledOutcome
      <3> QED BY <1>0, <2>2, <3>1, <3>2, <3>3, <3>4, <3>5, <3>6, DriverMoves
              DEF TypeOK, CallsInv
    <2> QED BY <2>1, <2>3, <2>4, <2>5 DEF DigestEnds, Resume
  <1> QED BY <1>1, <1>2

-----------------------------------------------------------------------------
(* The result, the cleanup and the terminal record.                        *)

\* The result that is persisted is the one an earlier attempt finalized, if there
\* is one.
LEMMA PersistKeeps ==
    ASSUME RestoreInv, persistResult
    PROVE  RestoreInv'
  <1>0. /\ TypeOK /\ CallsInv /\ ResultInv /\ pc = "persist" /\ waiting = {}
        /\ jrn.phase \in {"commit-succeeded", "rollback-succeeded"}
        /\ ~Settled /\ jrn.unresolved = "none"
    BY DEF RestoreInv, persistResult, CallsInv, DriverAt, WaitsFor
  <1>1. /\ UNCHANGED <<jrn, data, helpers, finalized>>
        /\ UNCHANGED <<live, rollback, wrote, staged, running>>
        /\ Copying' = Copying
    BY DEF persistResult, data, Copying
  <1>2. result = NoResult => finalized = {}
    BY <1>0 DEF ResultInv, TypeOK, NoResult
  <1>3. /\ entry # "recover" => result = NoResult
        /\ result.status = "none" => result = NoResult
        /\ finalized \subseteq {result}
    BY <1>0 DEF ResultInv
  <1>4. /\ signResult \in [status : {"none", "activated", "recovered"}, evidence : Nat]
        /\ signResult.status = Outcome(jrn.phase) /\ signResult.status # "none"
    BY <1>0 DEF TypeOK, signResult, Outcome
  <1>5. /\ resultForFinalization \in [status : {"none", "activated", "recovered"}, evidence : Nat]
        /\ resultForFinalization.status = Outcome(jrn.phase)
        /\ resultForFinalization.status # "none"
        /\ finalized \subseteq {resultForFinalization}
    <2>1. CASE entry = "recover" /\ result # NoResult
      <3>1. resultForFinalization = result
        BY <2>1 DEF resultForFinalization
      <3>2. result.status \in {"none", Outcome(jrn.phase)}
        BY <2>1 DEF persistResult
      <3> QED BY <1>0, <1>3, <2>1, <3>1, <3>2 DEF TypeOK
    <2>2. CASE ~(entry = "recover" /\ result # NoResult)
      <3>1. resultForFinalization = signResult
        BY <2>2 DEF resultForFinalization
      <3> QED BY <1>2, <1>3, <1>4, <2>2, <3>1
    <2> QED BY <2>1, <2>2
  <1> HIDE DEF resultForFinalization
  <1>6. CASE result' = resultForFinalization /\ Goto("cleanup") /\ UNCHANGED faults
    <2>1. pc' = "cleanup" /\ UNCHANGED <<entry, waiting, done>>
      BY <1>6 DEF Goto
    <2>2. DriverAt' /\ WaitsFor' /\ DoneMeans'
      BY <1>0, <1>1, <2>1 DEF DriverAt, WaitsFor, DoneMeans, Settled
    <2>3. ResultInv'
      BY <1>0, <1>1, <1>5, <1>6, <2>1 DEF ResultInv, Settled, Outcome
    <2>4. CleanInv'
      BY <1>0, <1>1, <2>1 DEF RestoreInv, CleanInv, Settled, Active, Succeeded, Recovered
    <2> QED BY <1>0, <1>1, <1>5, <1>6, <2>1, <2>2, <2>3, <2>4, DriverMoves DEF TypeOK, CallsInv
  <1>7. CASE Fault("call") /\ result' \in {result, resultForFinalization} /\ Fail
    <2>1. pc' = "idle" /\ entry' = "none" /\ waiting' = {} /\ done' = {}
      BY <1>0, <1>7 DEF Fail
    <2>2. DriverAt' /\ WaitsFor' /\ DoneMeans'
      BY <1>0, <1>1, <2>1 DEF DriverAt, WaitsFor, DoneMeans, Settled
    <2>3. ResultInv'
      BY <1>0, <1>1, <1>3, <1>5, <1>7, <2>1 DEF ResultInv, Settled
    <2>4. CleanInv'
      BY <1>0, <1>1, <2>1 DEF RestoreInv, CleanInv, Settled, Active, Succeeded, Recovered
    <2>5. \E k \in {"journal", "call", "cancel", "crash"} : Fault(k)
      BY <1>7
    <2> QED BY <1>0, <1>1, <1>5, <1>7, <2>1, <2>2, <2>3, <2>4, <2>5, DriverMoves
            DEF TypeOK, CallsInv
  <1> QED BY <1>6, <1>7 DEF persistResult

\* The finalizer is handed the persisted result.
LEMMA FinalizeKeeps ==
    ASSUME RestoreInv, FinalizeResult
    PROVE  RestoreInv'
  <1>0. /\ TypeOK /\ CallsInv /\ ResultInv /\ pc = "finalize" /\ waiting = {}
        /\ jrn.phase \in {"commit-succeeded", "rollback-succeeded"}
        /\ ~Settled /\ jrn.unresolved = "none"
        /\ result.status = Outcome(jrn.phase) /\ finalized \subseteq {result}
        /\ \A v \in Vol : rollback[v] = "absent"
    BY DEF RestoreInv, FinalizeResult, CallsInv, DriverAt, WaitsFor, ResultInv, CleanInv
  <1>1. /\ UNCHANGED <<jrn, data, helpers, result>>
        /\ UNCHANGED <<live, rollback, wrote, staged, running>>
        /\ Copying' = Copying /\ finalized' = {result}
    BY <1>0 DEF FinalizeResult, data, Copying
  <1>2. result \in [status : {"activated", "recovered"}, evidence : Nat]
    BY <1>0 DEF TypeOK, Outcome
  <1>3. /\ pc' \in {"idle", "complete"} /\ waiting' = {} /\ done' \subseteq done
        /\ entry' \in {entry, "none"} /\ (pc' = "idle" => done' = {})
        /\ UNCHANGED faults \/ \E k \in {"journal", "call", "cancel", "crash"} : Fault(k)
    BY <1>0 DEF FinalizeResult, Goto, Fail
  <1>4. DriverAt' /\ WaitsFor' /\ DoneMeans'
    BY <1>0, <1>1, <1>3 DEF DriverAt, WaitsFor, DoneMeans, Settled
  <1>5. ResultInv'
    BY <1>0, <1>1, <1>3 DEF ResultInv, Settled
  <1>6. CleanInv'
    BY <1>0, <1>1, <1>3 DEF RestoreInv, CleanInv, Settled, SettledOutcome
  <1> QED BY <1>0, <1>1, <1>2, <1>3, <1>4, <1>5, <1>6, DriverMoves DEF TypeOK, CallsInv

\* The rollback volumes are removed when no record relies on them.
LEMMA CleanupKeeps ==
    ASSUME RestoreInv, Cleanup
    PROVE  RestoreInv'
  <1>0. /\ TypeOK /\ CallsInv /\ ResultInv /\ CleanInv /\ VolumesInv(jrn)
        /\ pc = "cleanup" /\ waiting = {}
        /\ jrn.phase \in {"commit-succeeded", "rollback-succeeded"}
        /\ ~Settled /\ jrn.unresolved = "none" /\ jrn.status = Active
        /\ result.status = Outcome(jrn.phase)
    BY DEF RestoreInv, Cleanup, CallsInv, DriverAt, WaitsFor, ResultInv, Settled
  <1>1. UNCHANGED <<jrn, live, wrote, running, helpers, evidence, result, finalized>>
    BY DEF Cleanup, evidence
  <1>2. jrn.phase = "rollback-succeeded" => jrn.activated = 0
    BY <1>0 DEF VolumesInv, Progress, PhaseProgress
  <1>3. VolumesInv(jrn)'
    <2>1. Progress(jrn)'
      BY <1>0, <1>1 DEF VolumesInv
    <2>2. HelpersKnown(jrn)'
      BY <1>0, <1>1 DEF VolumesInv, HelpersKnown, Copying
    <2>3. PowerKnown(jrn)'
      BY <1>0, <1>1 DEF VolumesInv, PowerKnown, AllStaged
    <2>4. VolumesKept(jrn)'
      <3> SUFFICES ASSUME NEW v \in Vol PROVE VolumeKept(jrn, v)'
        BY <1>1 DEF VolumesKept
      <3>1. VolumeKept(jrn, v) /\ v \in 1..N
        BY <1>0 DEF VolumesInv, VolumesKept, Vol
      <3>2. jrn.phase = "rollback-succeeded" => ~Changed(jrn, v)
        BY <1>2, <3>1, RestoreAssumption DEF Changed
      <3>3. jrn.phase \notin SavedPhase
        BY <1>0 DEF SavedPhase, CopyPhase, StartedPhase
      <3>4. Changed(jrn, v)' <=> Changed(jrn, v)
        BY <1>1 DEF Changed
      <3>5. Newest(v)' = Newest(v)
        BY <1>1 DEF Newest
      <3>6. UNCHANGED <<jrn, live>>
        BY <1>1
      <3> QED BY <1>0, <3>1, <3>2, <3>3, <3>4, <3>5, <3>6 DEF VolumeKept
    <2> QED BY <2>1, <2>2, <2>3, <2>4 DEF VolumesInv
  <1>4. CASE /\ rollback' = [v \in Vol |-> "absent"]
             /\ staged' \in (IF jrn.phase = "commit-succeeded"
                             THEN {staged, FALSE} ELSE {staged})
             /\ Goto("finalize") /\ UNCHANGED faults
    <2>1. pc' = "finalize" /\ UNCHANGED <<entry, waiting, done, faults>>
      BY <1>4 DEF Goto
    <2>2. staged' = staged \/ (staged' = FALSE /\ jrn.phase = "commit-succeeded")
      BY <1>4
    <2>3. rollback' \in [Vol -> Content] /\ \A v \in Vol : rollback'[v] = "absent"
      BY <1>4 DEF Content
    <2>4. TypeOK'
      BY <1>0, <1>1, <2>1, <2>2, <2>3 DEF TypeOK
    <2>5. CallsInv'
      BY <1>0, <1>1, <2>1 DEF CallsInv, DriverAt, WaitsFor, DoneMeans, Settled
    <2>6. ResultInv'
      BY <1>0, <1>1, <2>1 DEF ResultInv, Settled
    <2>7. CleanInv'
      <3>1. CASE staged' = staged
        BY <1>0, <1>1, <2>1, <2>3, <3>1 DEF CleanInv, Settled, SettledOutcome
      <3>2. CASE staged' = FALSE /\ jrn.phase = "commit-succeeded"
        BY <1>0, <1>1, <2>1, <2>3, <3>2 DEF CleanInv, Settled, SettledOutcome
      <3> QED BY <2>2, <3>1, <3>2
    <2> QED BY <1>3, <2>4, <2>5, <2>6, <2>7 DEF RestoreInv
  <1>5. CASE /\ Fault("call") \/ Fault("cancel")
             /\ \E kept \in SUBSET Vol :
                   rollback' = [v \in Vol |-> IF v \in kept THEN rollback[v]
                                              ELSE "absent"]
             /\ Fail /\ UNCHANGED staged
    <2>1. rollback' \in [Vol -> Content]
      BY <1>0, <1>5 DEF TypeOK, Content
    <2>2. TerminalFits(jrn)'
      BY <1>0, <1>1 DEF TerminalFits
    <2>3. \E k \in {"journal", "call", "cancel", "crash"} : Fault(k)
      BY <1>5
    <2> QED BY <1>0, <1>1, <1>3, <1>5, <2>1, <2>2, <2>3, FailedStep DEF TypeOK
  <1> QED BY <1>4, <1>5 DEF Cleanup

\* VolumesInv does not read a record's other fields.
LEMMA SameCounters ==
    ASSUME VolumesInv(jrn), NEW r, r.phase = jrn.phase, r.prepared = jrn.prepared,
           r.activated = jrn.activated, r.inFlight = jrn.inFlight,
           r.unresolved = jrn.unresolved
    PROVE  VolumesInv(r)
  <1>1. PhaseProgress(r) <=> PhaseProgress(jrn)
    BY DEF PhaseProgress
  <1>2. Progress(r)
    BY <1>1 DEF VolumesInv, Progress
  <1>3. HelpersKnown(r)
    BY DEF VolumesInv, HelpersKnown, HelperKnown
  <1>4. VolumesKept(r)
    BY DEF VolumesInv, VolumesKept, VolumeKept, Changed
  <1>5. PowerKnown(r)
    BY DEF VolumesInv, PowerKnown
  <1> QED BY <1>2, <1>3, <1>4, <1>5 DEF VolumesInv

\* The power custody, the terminal record and the acknowledged close.
LEMMA FieldsKeep ==
    ASSUME RestoreInv, CaptureCustody \/ Complete \/ CloseAppGroupHolds
    PROVE  RestoreInv'
  <1>0. TypeOK /\ CallsInv /\ ResultInv /\ CleanInv /\ VolumesInv(jrn) /\ jrn \in Record
    BY DEF RestoreInv, TypeOK
  <1>1. CASE CaptureCustody
    <2>1. PICK r : r = [jrn EXCEPT !.custody = TRUE]
      OBVIOUS
    <2>2. /\ r \in Record /\ r.phase = jrn.phase /\ r.prepared = jrn.prepared
          /\ r.activated = jrn.activated /\ r.inFlight = jrn.inFlight
          /\ r.unresolved = jrn.unresolved /\ r.status = jrn.status
      BY <1>0, <2>1 DEF Record
    <2>3. pc = "activate" /\ jrn.phase \in ActivatePhase /\ waiting = {}
      BY <1>1, DueCalls DEF CaptureCustody, RequiresQuiesce, ActivatePhase
    <2>4. Sign(r, pc)
      BY <1>1, <2>1 DEF CaptureCustody
    <2>5. VolumesInv(r)
      BY <1>0, <2>2, SameCounters
    <2> QED BY <2>2, <2>3, <2>4, <2>5, SignForward
  <1>2. CASE Complete
    <2>1. PICK r : r = [jrn EXCEPT !.status = IF jrn.phase = "commit-succeeded"
                                              THEN Succeeded ELSE Recovered]
      OBVIOUS
    <2>2. /\ r \in Record /\ r.phase = jrn.phase /\ r.prepared = jrn.prepared
          /\ r.activated = jrn.activated /\ r.inFlight = jrn.inFlight
          /\ r.unresolved = jrn.unresolved
          /\ r.status = IF jrn.phase = "commit-succeeded" THEN Succeeded ELSE Recovered
      BY <1>0, <2>1 DEF Record, Status
    <2>3. /\ pc = "complete" /\ waiting = {} /\ jrn.unresolved = "none"
          /\ jrn.phase \in {"commit-succeeded", "rollback-succeeded"}
          /\ result.status = Outcome(jrn.phase) /\ result \in finalized
          /\ \A v \in Vol : rollback[v] = "absent"
      BY <1>0, <1>2 DEF Complete, CallsInv, DriverAt, WaitsFor, ResultInv, CleanInv
    <2>4. Sign(r, "close")
      BY <1>2, <2>1 DEF Complete
    <2>5. VolumesInv(r)
      BY <1>0, <2>2, SameCounters
    <2>6. TerminalFits(r) /\ r.status # Active
      BY <2>2, <2>3 DEF TerminalFits, Outcome, Active, Succeeded, Recovered
    <2> QED BY <2>2, <2>3, <2>4, <2>5, <2>6, SignKeeps
  <1>3. CASE CloseAppGroupHolds
    <2>1. PICK r : r = [jrn EXCEPT !.closed = TRUE]
      OBVIOUS
    <2>2. /\ r \in Record /\ r.phase = jrn.phase /\ r.prepared = jrn.prepared
          /\ r.activated = jrn.activated /\ r.inFlight = jrn.inFlight
          /\ r.unresolved = jrn.unresolved /\ r.status = jrn.status
      BY <1>0, <2>1 DEF Record
    <2>3. /\ pc = "close" /\ waiting = {} /\ jrn.unresolved = "none"
          /\ jrn.status # Active /\ jrn.phase # "none"
      BY <1>0, <1>3 DEF CloseAppGroupHolds, CallsInv, DriverAt, WaitsFor, Settled
    <2>4. Sign(r, "close")
      BY <1>3, <2>1 DEF CloseAppGroupHolds
    <2>5. VolumesInv(r)
      BY <1>0, <2>2, SameCounters
    <2>6. TerminalFits(r)
      BY <2>2, TerminalNow DEF TerminalFits
    <2> QED BY <2>2, <2>3, <2>4, <2>5, <2>6, SignKeeps
  <1> QED BY <1>1, <1>2, <1>3

-----------------------------------------------------------------------------
(* The power of the services.                                              *)

\* A step that leaves the driver's position, the record and the result alone.
LEMMA ResultStays ==
    ASSUME RestoreInv, UNCHANGED <<jrn, pc, entry, staged, result, finalized>>,
           rollback' = rollback \/ jrn.phase \notin {"commit-succeeded", "rollback-succeeded"}
    PROVE  ResultInv' /\ CleanInv'
  <1>0. /\ DriverAt /\ ResultInv /\ CleanInv
        /\ jrn.status \in Status
    BY RecordFields DEF RestoreInv, CallsInv, TypeOK
  <1>1. ResultInv'
    BY <1>0 DEF ResultInv, Settled
  <1>2. pc \in {"finalize", "complete"} \/ Settled =>
           jrn.phase \in {"commit-succeeded", "rollback-succeeded"}
    BY <1>0 DEF DriverAt, CleanInv, Settled, Status
  <1>3. CleanInv'
    BY <1>0, <1>2 DEF CleanInv, Settled, SettledOutcome
  <1> QED BY <1>1, <1>3

\* Where the services may be stopped.
LEMMA StopDue ==
    ASSUME RestoreInv, Due("stop")
    PROVE  /\ waiting = {} /\ pc \in {"activate", "rollback"}
           /\ jrn.phase \in {"quiesce-started"} \cup RequiresQuiesce
           /\ jrn.phase \notin ServedPhase
           /\ pc = "rollback" => jrn.phase \in RollbackPhase
           /\ pc = "activate" => jrn.phase = "quiesce-started"
  BY DueCalls DEF RequiresQuiesce, RollbackPhase, ServedPhase, StartedPhase, RequiresVerify

\* Where the services may be started: no copy is left, and the volumes are all
\* restored or all their own.
LEMMA StartDue ==
    ASSUME RestoreInv, Due("start")
    PROVE  /\ waiting = {} /\ pc \in {"activate", "rollback"} /\ Copying = {}
           /\ jrn.phase \in {"runtime-start-started", "rollback-runtime-started"}
           /\ pc = "activate" => jrn.phase = "runtime-start-started"
           /\ pc = "rollback" => jrn.phase = "rollback-runtime-started"
           /\ jrn.phase \notin QuietPhase \cup ServedPhase
           /\ jrn.activated = 0 \/ (jrn.activated = N /\ AllStaged)
  <1>1. /\ waiting = {} /\ pc \in {"activate", "rollback"}
        /\ jrn.phase \in {"runtime-start-started", "rollback-runtime-started"}
        /\ pc = "activate" => jrn.phase = "runtime-start-started"
        /\ pc = "rollback" => jrn.phase = "rollback-runtime-started"
    BY DueCalls
  <1>2. Copying = {}
    BY <1>1, NoCopies DEF RestoreInv
  <1>3. jrn.phase \notin QuietPhase \cup ServedPhase
    BY <1>1 DEF QuietPhase, CopyPhase, ServedPhase, StartedPhase, RequiresVerify
  <1>4. PhaseProgress(jrn) /\ VolumesKept(jrn)
    BY <1>1 DEF RestoreInv, VolumesInv, Progress
  <1>5. CASE jrn.phase = "runtime-start-started"
    <2>1. jrn.activated = N
      BY <1>4, <1>5 DEF PhaseProgress
    <2>2. AllStaged
      BY <1>4, <1>5, <2>1, RestoreAssumption
         DEF VolumesKept, VolumeKept, AllStaged, Vol, RollbackPhase
    <2> QED BY <1>1, <1>2, <1>3, <2>1, <2>2
  <1>6. CASE jrn.phase = "rollback-runtime-started"
    <2>1. jrn.activated = 0
      BY <1>4, <1>6 DEF PhaseProgress
    <2> QED BY <1>1, <1>2, <1>3, <2>1
  <1> QED BY <1>1, <1>5, <1>6

\* A manager's control that is left unresolved is one the phase called for.
LEMMA InterruptedRecord ==
    ASSUME RestoreInv, NEW k \in {"stop", "start"}, Interrupted(k)
    PROVE  /\ jrn' \in Record /\ VolumesInv(jrn') /\ jrn'.phase = jrn.phase
           /\ jrn'.status = jrn.status /\ jrn'.activated = jrn.activated
           /\ jrn' = jrn \/ (jrn'.unresolved = k /\ Due(k))
  <1>0. jrn \in Record /\ VolumesInv(jrn)
    BY DEF RestoreInv, TypeOK
  <1>1. CASE jrn' = jrn
    BY <1>0, <1>1
  <1>2. CASE jrn' = [jrn EXCEPT !.unresolved = k] /\ Due(k)
    <2>1. PICK r : r = [jrn EXCEPT !.unresolved = k]
      OBVIOUS
    <2>2. /\ r \in Record /\ r.phase = jrn.phase /\ r.prepared = jrn.prepared
          /\ r.activated = jrn.activated /\ r.inFlight = jrn.inFlight
          /\ r.unresolved = k /\ r.status = jrn.status
      BY <1>0, <2>1 DEF Record
    <2>3. PhaseProgress(r) <=> PhaseProgress(jrn)
      BY <2>2 DEF PhaseProgress
    <2>4. Progress(r)
      BY <1>0, <2>2, <2>3 DEF VolumesInv, Progress
    <2>5. HelpersKnown(r)
      <3>1. CASE k = "start"
        BY <1>2, <3>1, StartDue DEF HelpersKnown
      <3>2. CASE k = "stop"
        BY <1>0, <2>2, <3>2 DEF VolumesInv, HelpersKnown, HelperKnown
      <3> QED BY <3>1, <3>2
    <2>6. VolumesKept(r)
      BY <1>0, <2>2 DEF VolumesInv, VolumesKept, VolumeKept, Changed
    <2>7. PowerKnown(r)
      <3>1. CASE k = "start"
        BY <1>0, <1>2, <2>2, <3>1, StartDue DEF VolumesInv, PowerKnown
      <3>2. CASE k = "stop"
        BY <1>0, <1>2, <2>2, <3>2, StopDue DEF VolumesInv, PowerKnown
      <3> QED BY <3>1, <3>2
    <2> QED BY <1>2, <2>1, <2>2, <2>4, <2>5, <2>6, <2>7 DEF VolumesInv
  <1>3. jrn' = jrn \/ (jrn' = [jrn EXCEPT !.unresolved = k] /\ Due(k))
    BY DEF Interrupted
  <1> QED BY <1>1, <1>2, <1>3

\* Stop and Start as a whole.
LEMMA PowerCallKeeps ==
    ASSUME RestoreInv, Stop \/ Start
    PROVE  RestoreInv'
  <1>0. TypeOK /\ CallsInv /\ VolumesInv(jrn)
    BY DEF RestoreInv
  <1>1. CASE Stop
    <2>1. /\ helpers' = {} /\ running' = FALSE /\ Copying' = {}
          /\ UNCHANGED <<jrn, live, rollback, wrote, staged, waiting, evidence, faults>>
          /\ UNCHANGED <<pc, entry, result, finalized>>
          /\ done' = done \cup {"stop"} /\ Due("stop") /\ jrn.unresolved = "none"
      BY <1>1 DEF Stop, Ran, Copying, evidence
    <2>2. VolumesInv(jrn)'
      <3>1. Progress(jrn)'
        BY <1>0, <2>1 DEF VolumesInv
      <3>2. HelpersKnown(jrn)'
        BY <2>1 DEF HelpersKnown
      <3>3. VolumesKept(jrn)'
        BY <1>0, <2>1 DEF VolumesInv, VolumesKept, VolumeKept, Newest
      <3>4. PowerKnown(jrn)'
        BY <2>1, StopDue DEF PowerKnown
      <3> QED BY <3>1, <3>2, <3>3, <3>4 DEF VolumesInv
    <2>3. TypeOK'
      BY <1>0, <2>1, StopDue DEF TypeOK
    <2>4. DriverAt'
      BY <1>0, <2>1, StopDue DEF CallsInv, DriverAt, Settled
    <2>5. WaitsFor'
      BY <2>1, StopDue DEF WaitsFor
    <2>6. DoneMeans'
      BY <1>0, <2>1, StopDue DEF CallsInv, DoneMeans, Newest, RequiresQuiesce
    <2> QED BY <2>1, <2>2, <2>3, <2>4, <2>5, <2>6, ResultStays DEF RestoreInv, CallsInv
  <1>2. CASE Start
    <2>1. /\ running' = TRUE /\ Copying' = Copying
          /\ UNCHANGED <<jrn, live, rollback, wrote, staged, helpers, waiting, evidence, faults>>
          /\ UNCHANGED <<pc, entry, result, finalized>>
          /\ done' = done \cup {"start"} /\ Due("start") /\ jrn.unresolved = "none"
      BY <1>2 DEF Start, Ran, Copying, evidence
    <2>2. VolumesInv(jrn)'
      <3>1. Progress(jrn)'
        BY <1>0, <2>1 DEF VolumesInv
      <3>2. HelpersKnown(jrn)'
        BY <2>1, StartDue DEF HelpersKnown
      <3>3. VolumesKept(jrn)'
        BY <1>0, <2>1 DEF VolumesInv, VolumesKept, VolumeKept, Newest
      <3>4. PowerKnown(jrn)'
        BY <2>1, StartDue DEF PowerKnown, AllStaged
      <3> QED BY <3>1, <3>2, <3>3, <3>4 DEF VolumesInv
    <2>3. TypeOK'
      BY <1>0, <2>1 DEF TypeOK
    <2>4. DriverAt'
      BY <1>0, <2>1, StartDue DEF CallsInv, DriverAt, Settled, RollbackPhase
    <2>5. WaitsFor'
      BY <2>1, StartDue DEF WaitsFor
    <2>6. DoneMeans'
      BY <1>0, <2>1, StartDue DEF CallsInv, DoneMeans, Newest, RequiresQuiesce
    <2> QED BY <2>1, <2>2, <2>3, <2>4, <2>5, <2>6, ResultStays DEF RestoreInv, CallsInv
  <1> QED BY <1>1, <1>2

\* Stop or Start fails half way, or the process ends anywhere.
LEMMA PowerFailureKeeps ==
    ASSUME RestoreInv, StopFails \/ StartFails \/ Crash
    PROVE  RestoreInv'
  <1>0. TypeOK /\ VolumesInv(jrn) /\ TerminalFits(jrn)
    BY TerminalNow DEF RestoreInv
  <1>1. /\ pc # "idle" /\ UNCHANGED <<live, rollback, wrote, staged, result, finalized>>
        /\ UNCHANGED evidence /\ helpers' \subseteq helpers
        /\ Fail \/ (pc' = "idle" /\ entry' = "none" /\ waiting' = {} /\ done' = {})
        /\ \E k \in {"journal", "call", "cancel", "crash"} : Fault(k)
    BY DueCalls DEF StopFails, StartFails, Crash, data, evidence
  <1>2. PICK k \in {"stop", "start"} : Interrupted(k)
    BY DEF StopFails, StartFails, Crash
  <1>3. /\ jrn' \in Record /\ VolumesInv(jrn') /\ jrn'.phase = jrn.phase
        /\ jrn'.status = jrn.status /\ jrn'.activated = jrn.activated
    BY <1>2, InterruptedRecord
  <1>4. \/ running' = running
        \/ running' = FALSE /\ Due("stop")
        \/ running' \in BOOLEAN /\ Due("start") /\ UNCHANGED helpers
    BY DEF StopFails, StartFails, Crash, data
  <1>5. running' \in BOOLEAN
    BY <1>0, <1>4 DEF TypeOK
  <1>6. Copying' \subseteq Copying
    BY <1>1 DEF Copying
  <1>7. HelpersKnown(jrn)'
    <2>1. CASE Due("start")
      BY <1>6, <2>1, StartDue DEF HelpersKnown
    <2>2. CASE running' = running \/ running' = FALSE
      BY <1>3, <1>6, <2>2 DEF VolumesInv, HelpersKnown
    <2> QED BY <1>4, <2>1, <2>2
  <1>8. VolumesKept(jrn)'
    BY <1>1, <1>3 DEF VolumesInv, VolumesKept, VolumeKept, Newest
  <1>9. PowerKnown(jrn)'
    <2>1. PowerKnown(jrn')
      BY <1>3 DEF VolumesInv
    <2>2. AllStaged' <=> AllStaged
      BY <1>1 DEF AllStaged
    <2>3. CASE running' = running
      BY <2>1, <2>2, <2>3 DEF PowerKnown
    <2>4. CASE running' = FALSE /\ Due("stop")
      BY <1>3, <2>1, <2>2, <2>4, StopDue DEF PowerKnown
    <2>5. CASE running' \in BOOLEAN /\ Due("start")
      BY <1>3, <2>1, <2>2, <2>5, StartDue DEF PowerKnown
    <2> QED BY <1>4, <2>3, <2>4, <2>5
  <1>10. VolumesInv(jrn)'
    BY <1>3, <1>7, <1>8, <1>9 DEF VolumesInv
  <1>11. TerminalFits(jrn)'
    BY <1>0, <1>1, <1>3 DEF TerminalFits
  <1>12. /\ jrn.phase # "none"
         /\ pc = "activate" => jrn.phase \in ActivatePhase /\ jrn.status = Active
    BY <1>1 DEF RestoreInv, CallsInv, DriverAt, Settled
  <1> QED BY <1>0, <1>1, <1>3, <1>5, <1>10, <1>11, <1>12, FailedStep DEF TypeOK

\* The manager carries out an unresolved command while no driver relies on it.
LEMMA LateCommandKeeps ==
    ASSUME RestoreInv, ManagerActsLate
    PROVE  RestoreInv'
  <1>0. /\ TypeOK /\ CallsInv /\ VolumesInv(jrn) /\ jrn.unresolved # "none"
        /\ waiting = {} /\ done = {} /\ jrn.unresolved \in {"stop", "start"}
    BY RecordFields DEF RestoreInv, CallsInv, DriverAt, ManagerActsLate, TypeOK
  <1>1. /\ UNCHANGED <<jrn, live, rollback, wrote, staged, helpers, evidence, faults>>
        /\ UNCHANGED <<pc, entry, waiting, done, result, finalized>> /\ Copying' = Copying
    BY DEF ManagerActsLate, driver, evidence, Copying
  <1>2. \/ running' = TRUE /\ jrn.unresolved = "start"
        \/ running' = FALSE /\ jrn.unresolved = "stop"
    BY <1>0 DEF ManagerActsLate
  <1>3. HelpersKnown(jrn)'
    BY <1>0, <1>1, <1>2 DEF VolumesInv, HelpersKnown
  <1>4. VolumesKept(jrn)'
    BY <1>0, <1>1 DEF VolumesInv, VolumesKept, VolumeKept, Newest
  <1>5. PowerKnown(jrn)'
    <2>1. PowerKnown(jrn) /\ jrn.phase \notin ServedPhase
      BY <1>0 DEF VolumesInv, PowerKnown
    <2>2. jrn.unresolved = "start" => jrn.phase \notin QuietPhase
      BY <2>1 DEF PowerKnown, QuietPhase, CopyPhase
    <2>3. AllStaged' <=> AllStaged
      BY <1>1 DEF AllStaged
    <2> QED BY <1>1, <1>2, <2>1, <2>2, <2>3 DEF PowerKnown
  <1>6. VolumesInv(jrn)'
    BY <1>0, <1>1, <1>3, <1>4, <1>5 DEF VolumesInv
  <1>7. TypeOK'
    BY <1>0, <1>1, <1>2 DEF TypeOK
  <1>8. CallsInv'
    BY <1>0, <1>1 DEF CallsInv, DriverAt, WaitsFor, DoneMeans, Settled
  <1> QED BY <1>1, <1>6, <1>7, <1>8, ResultStays DEF RestoreInv

-----------------------------------------------------------------------------
(* The first record, the volumes and their copies.                         *)

\* Nothing is changed before the first record.
LEMMA BeginKeeps ==
    ASSUME RestoreInv, Begin
    PROVE  RestoreInv'
  <1>0. /\ TypeOK /\ CallsInv /\ VolumesInv(jrn) /\ ResultInv /\ CleanInv
        /\ jrn \in Record /\ jrn.phase = "none" /\ pc = "idle"
        /\ waiting = {} /\ done = {} /\ result = NoResult
    BY DEF RestoreInv, TypeOK, Begin, CallsInv, DriverAt, ResultInv
  <1>1. jrn.status = Active /\ jrn.unresolved = "none"
    <2>1. jrn.status \in Status /\ jrn.unresolved \in {"none", "stop", "start"}
      BY <1>0, RecordFields
    <2>2. PowerKnown(jrn)
      BY <1>0 DEF VolumesInv
    <2> QED BY <1>0, <2>1, <2>2 DEF CleanInv, Status, PowerKnown, RequiresQuiesce
  <1>2. /\ UNCHANGED <<data, helpers, waiting, done, evidence>>
        /\ UNCHANGED <<live, rollback, wrote, staged, running, result, finalized>>
        /\ Copying' = Copying /\ Copying = {}
    BY <1>0, NoCopies DEF Begin, data, evidence, Copying
  <1>3. "prepared" \in Phase
    BY PhasesKnown DEF RestorePhase, ActivatePhase
  <1>4. PICK r : /\ r = To("prepared")
                 /\ Follows(r, "prepared", jrn.prepared, jrn.activated, jrn.inFlight)
    BY <1>0, <1>3, ToRecord
  <1>5. /\ r \in Record /\ r.status = Active /\ r.unresolved = "none" /\ r.phase = "prepared"
        /\ r.prepared = 0 /\ r.activated = 0 /\ r.inFlight = 0
        /\ jrn.prepared = 0 /\ jrn.activated = 0 /\ jrn.inFlight = 0
    BY <1>0, <1>1, <1>4 DEF Follows, VolumesInv, Progress
  <1>6. VolumesInv(r)
    <2>1. Progress(r)
      BY <1>5 DEF Progress, PhaseProgress, RestorePhase, ActivatePhase
    <2>2. HelpersKnown(r)
      BY <1>2 DEF HelpersKnown
    <2>3. VolumesKept(r)
      <3> SUFFICES ASSUME NEW v \in Vol PROVE VolumeKept(r, v)
        BY DEF VolumesKept
      <3>1. VolumeKept(jrn, v) /\ v \in 1..N
        BY <1>0 DEF VolumesInv, VolumesKept, Vol
      <3>2. ~(v <= 0)
        BY <3>1, RestoreAssumption
      <3>3. ~Changed(jrn, v) /\ ~Changed(r, v)
        BY <1>0, <1>5, <3>2 DEF Changed
      <3>4. live[v] = Newest(v)
        BY <3>1, <3>3 DEF VolumeKept
      <3> QED BY <1>5, <3>2, <3>3, <3>4 DEF VolumeKept
    <2>4. PowerKnown(r)
      BY <1>5 DEF PowerKnown, QuietPhase, CopyPhase, ServedPhase, StartedPhase, RequiresVerify
    <2> QED BY <2>1, <2>2, <2>3, <2>4 DEF VolumesInv
  <1>7. jrn' \in {jrn, r} /\ jrn' \in Record /\ VolumesInv(jrn')
    BY <1>0, <1>4, <1>5, <1>6 DEF Begin
  <1>8. VolumesInv(jrn)'
    BY <1>2, <1>7, SameData
  <1>9. /\ \/ pc' = "activate" /\ entry' = "activate" /\ jrn' = r
           \/ UNCHANGED <<pc, entry>>
        /\ UNCHANGED faults \/ \E k \in {"journal", "call", "cancel", "crash"} : Fault(k)
    BY <1>4 DEF Begin
  <1>10. faults' \in 0..MaxFaults
    BY <1>9, FaultCounted
  <1>11. TypeOK'
    BY <1>0, <1>2, <1>7, <1>9, <1>10 DEF TypeOK
  <1>12. jrn'.status = Active /\ jrn'.unresolved = "none"
    BY <1>1, <1>5, <1>7
  <1>13. CallsInv'
    BY <1>0, <1>2, <1>5, <1>7, <1>9, <1>12
       DEF CallsInv, DriverAt, WaitsFor, DoneMeans, Settled, ActivatePhase
  <1>14. ResultInv'
    BY <1>0, <1>2, <1>9, <1>12 DEF ResultInv, Settled
  <1>15. CleanInv'
    BY <1>0, <1>2, <1>9, <1>12 DEF CleanInv, Settled, Active, Succeeded, Recovered
  <1> QED BY <1>8, <1>11, <1>13, <1>14, <1>15 DEF RestoreInv

\* A copy helper empties its target: the volume in flight, whose own data the
\* other copy holds.
LEMMA CopyStartsKeeps ==
    ASSUME RestoreInv, CopyStarts
    PROVE  RestoreInv'
  <1>0. /\ TypeOK /\ CallsInv /\ VolumesInv(jrn) /\ jrn \in Record /\ N \in Nat
        /\ Progress(jrn) /\ HelpersKnown(jrn) /\ VolumesKept(jrn) /\ PowerKnown(jrn)
        /\ jrn.activated \in 0..N /\ jrn.prepared \in 0..N /\ jrn.inFlight \in 0..N
    BY RecordFields, RestoreAssumption DEF RestoreInv, TypeOK, VolumesInv
  <1>1. PICK h : h = [call |-> CopyCall, vol |-> jrn.inFlight]
    OBVIOUS
  <1>2. /\ helpers' = helpers \cup {h} /\ waiting' = {h} /\ Due("copy")
        /\ UNCHANGED <<jrn, wrote, staged, running, pc, entry, done, evidence, faults>>
        /\ UNCHANGED <<result, finalized>>
        /\ \A g \in helpers : g.vol = jrn.inFlight => IsDigest(g)
    BY <1>1 DEF CopyStarts, evidence
  <1>3. /\ waiting = {} /\ "copy" \notin done
        /\ \/ /\ pc = "activate"
              /\ jrn.phase \in {"rollback-copy-started", "activation-copy-started"}
           \/ /\ pc = "rollback" /\ jrn.phase = "rollback-volume-started"
              /\ "stop" \in done
    BY <1>2, DueCalls
  <1>4. /\ jrn.unresolved = "none" /\ ~running
        /\ jrn.phase \notin ServedPhase /\ PhaseProgress(jrn)
    BY <1>0, <1>3 DEF CallsInv, DriverAt, PowerKnown, QuietPhase, CopyPhase, ServedPhase,
       StartedPhase, RequiresVerify, Progress
  <1>5. /\ jrn.phase = "rollback-copy-started" =>
              jrn.activated = 0 /\ jrn.prepared < N /\ jrn.inFlight = jrn.prepared + 1
        /\ jrn.phase = "activation-copy-started" =>
              /\ jrn.prepared = N /\ jrn.activated < N
              /\ jrn.inFlight = jrn.activated + 1
        /\ jrn.phase = "rollback-volume-started" =>
              jrn.activated > 0 /\ jrn.inFlight = jrn.activated
    BY <1>4 DEF PhaseProgress
  <1>6. jrn.inFlight \in Vol
    BY <1>0, <1>3, <1>5 DEF Vol
  <1>7. Copying = {}
    <2> SUFFICES ASSUME NEW g \in Copying PROVE FALSE
      OBVIOUS
    <2>1. HelperKnown(jrn, g) /\ g \in helpers /\ ~IsDigest(g)
      BY <1>0 DEF HelpersKnown, Copying
    <2>2. g.vol = jrn.inFlight
      BY <1>3, <1>5, <2>1 DEF HelperKnown
    <2> QED BY <1>2, <2>1, <2>2
  <1>8. /\ h \in Helper /\ ~IsDigest(h) /\ h.vol = jrn.inFlight
        /\ jrn.phase = "rollback-copy-started" => h.call = "save"
        /\ jrn.phase = "activation-copy-started" => h.call = "activate"
        /\ jrn.phase = "rollback-volume-started" => h.call = "restore"
    BY <1>1, <1>3, <1>6 DEF Helper, IsDigest, CopyCall
  <1>9. Copying' = {h}
    BY <1>2, <1>7, <1>8 DEF Copying
  <1>10. /\ jrn.phase = "rollback-copy-started" =>
               /\ rollback' = [rollback EXCEPT ![jrn.inFlight] = "partial"]
               /\ UNCHANGED live
         /\ jrn.phase # "rollback-copy-started" =>
               /\ live' = [live EXCEPT ![jrn.inFlight] = "partial"]
               /\ UNCHANGED rollback
    BY <1>1, <1>3, <1>8 DEF CopyStarts
  <1>11. live' \in [Vol -> Content] /\ rollback' \in [Vol -> Content]
    BY <1>0, <1>6, <1>10 DEF TypeOK, Content
  <1>12. TypeOK'
    BY <1>0, <1>2, <1>8, <1>11 DEF TypeOK
  <1>13. VolumesInv(jrn)'
    <2>1. Progress(jrn)'
      BY <1>0, <1>2
    <2>2. HelpersKnown(jrn)'
      <3>1. HelperKnown(jrn, h)'
        BY <1>2, <1>3, <1>5, <1>8 DEF HelperKnown
      <3> QED BY <1>2, <1>4, <1>9, <3>1 DEF HelpersKnown
    <2>3. VolumesKept(jrn)'
      <3> SUFFICES ASSUME NEW v \in Vol PROVE VolumeKept(jrn, v)'
        BY <1>2 DEF VolumesKept
      <3>1. VolumeKept(jrn, v) /\ v \in 1..N
        BY <1>0 DEF VolumesKept, Vol
      <3>2. Newest(v)' = Newest(v) /\ (Changed(jrn, v)' <=> Changed(jrn, v)) /\ jrn' = jrn
        BY <1>2 DEF Newest, Changed
      <3>3. CASE v # jrn.inFlight
        <4>1. live'[v] = live[v] /\ rollback'[v] = rollback[v]
          BY <1>0, <1>6, <1>10, <3>3 DEF TypeOK
        <4> QED BY <3>1, <3>2, <4>1 DEF VolumeKept
      <3>4. CASE v = jrn.inFlight /\ jrn.phase = "rollback-copy-started"
        <4>1. live'[v] = live[v] /\ ~Changed(jrn, v) /\ ~(v <= jrn.prepared)
              /\ ~(v <= jrn.activated)
          BY <1>0, <1>5, <1>10, <3>1, <3>4 DEF Changed
        <4> QED BY <3>1, <3>2, <4>1 DEF VolumeKept
      <3>5. CASE v = jrn.inFlight /\ jrn.phase # "rollback-copy-started"
        <4>1. /\ rollback' = rollback /\ Changed(jrn, v) /\ jrn.phase # "commit-succeeded"
              /\ jrn.phase \in RollbackPhase \/ ~(v <= jrn.activated)
          BY <1>0, <1>3, <1>5, <1>10, <3>1, <3>5 DEF Changed, RollbackPhase
        <4>2. rollback[v] = Newest(v)
          BY <3>1, <4>1 DEF VolumeKept
        <4> QED BY <3>2, <4>1, <4>2 DEF VolumeKept
      <3> QED BY <3>3, <3>4, <3>5
    <2>4. PowerKnown(jrn)'
      BY <1>2, <1>4 DEF PowerKnown
    <2> QED BY <2>1, <2>2, <2>3, <2>4 DEF VolumesInv
  <1>14. DriverAt'
    BY <1>0, <1>2, <1>3, <1>4 DEF CallsInv, DriverAt, Settled, RollbackPhase
  <1>15. WaitsFor'
    BY <1>2, <1>3, <1>8 DEF WaitsFor
  <1>16. DoneMeans'
    BY <1>2, <1>3, <1>4, <1>9 DEF DoneMeans, RequiresQuiesce
  <1>17. ResultInv' /\ CleanInv'
    BY <1>2, <1>3, ResultStays
  <1> QED BY <1>12, <1>13, <1>14, <1>15, <1>16, <1>17 DEF RestoreInv, CallsInv

\* A copy helper, waited for or orphaned, ends.
LEMMA CopyEndsKeeps ==
    ASSUME RestoreInv, NEW h \in helpers, CopyEnds(h)
    PROVE  RestoreInv'
  <1>0. /\ TypeOK /\ CallsInv /\ VolumesInv(jrn) /\ jrn \in Record /\ N \in Nat
        /\ Progress(jrn) /\ HelpersKnown(jrn) /\ VolumesKept(jrn) /\ PowerKnown(jrn)
        /\ jrn.activated \in 0..N /\ jrn.prepared \in 0..N /\ jrn.inFlight \in 0..N
    BY RecordFields, RestoreAssumption DEF RestoreInv, TypeOK, VolumesInv
  <1>1. /\ ~IsDigest(h) /\ helpers' = helpers \ {h} /\ Resume(h, "copy")
        /\ UNCHANGED <<jrn, wrote, staged, running, evidence, faults>>
        /\ UNCHANGED <<result, finalized>>
    BY DEF CopyEnds, evidence
  <1>2. h \in Copying /\ h \in Helper /\ h.vol \in Vol
    BY <1>0, <1>1 DEF Copying, TypeOK, Helper
  <1>3. ~running /\ jrn.unresolved # "start" /\ HelperKnown(jrn, h)
    BY <1>0, <1>2 DEF HelpersKnown
  <1>4. /\ jrn.phase \in {"rollback-copy-started", "activation-copy-started",
                          "rollback-started", "rollback-volume-started"}
        /\ PhaseProgress(jrn)
    BY <1>0, <1>3 DEF HelperKnown, Progress
  <1>5. /\ jrn.phase = "rollback-copy-started" =>
              jrn.activated = 0 /\ jrn.prepared < N /\ jrn.inFlight = jrn.prepared + 1
        /\ jrn.phase = "activation-copy-started" =>
              /\ jrn.prepared = N /\ jrn.activated < N
              /\ jrn.inFlight = jrn.activated + 1
        /\ jrn.phase = "rollback-volume-started" =>
              jrn.activated > 0 /\ jrn.inFlight = jrn.activated
    BY <1>4 DEF PhaseProgress
  <1>6. Copying' \subseteq Copying \ {h}
    BY <1>1 DEF Copying
  <1>7. /\ h.call = "save" =>
              rollback' = [rollback EXCEPT ![h.vol] = live[h.vol]] /\ live' = live
        /\ h.call = "activate" =>
              rollback' = rollback /\ live' = [live EXCEPT ![h.vol] = "staged"]
        /\ h.call = "restore" =>
              rollback' = rollback /\ live' = [live EXCEPT ![h.vol] = rollback[h.vol]]
        /\ h.call \in {"save", "activate", "restore"}
    BY <1>3 DEF CopyEnds, HelperKnown
  <1>8. live' \in [Vol -> Content] /\ rollback' \in [Vol -> Content]
    BY <1>0, <1>2, <1>7 DEF TypeOK, Content
  <1>9. VolumesInv(jrn)'
    <2>1. Progress(jrn)'
      BY <1>0, <1>1
    <2>2. HelpersKnown(jrn)'
      BY <1>0, <1>1, <1>6 DEF HelpersKnown, HelperKnown
    <2>3. VolumesKept(jrn)'
      <3> SUFFICES ASSUME NEW v \in Vol PROVE VolumeKept(jrn, v)'
        BY <1>1 DEF VolumesKept
      <3>1. VolumeKept(jrn, v) /\ v \in 1..N
        BY <1>0 DEF VolumesKept, Vol
      <3>2. Newest(v)' = Newest(v) /\ (Changed(jrn, v)' <=> Changed(jrn, v)) /\ jrn' = jrn
        BY <1>1 DEF Newest, Changed
      <3>3. CASE v # h.vol
        <4>1. live'[v] = live[v] /\ rollback'[v] = rollback[v]
          BY <1>0, <1>2, <1>7, <3>3 DEF TypeOK
        <4> QED BY <3>1, <3>2, <4>1 DEF VolumeKept
      <3>4. CASE v = h.vol /\ h.call = "save"
        <4>1. /\ live'[v] = live[v] /\ ~Changed(jrn, v)
              /\ ~(v <= jrn.activated) /\ ~(v <= jrn.prepared)
          BY <1>0, <1>3, <1>7, <3>1, <3>4 DEF HelperKnown, Changed
        <4> QED BY <3>1, <3>2, <4>1 DEF VolumeKept
      <3>5. CASE v = h.vol /\ h.call = "activate"
        <4>1. /\ rollback' = rollback /\ Changed(jrn, v) /\ live'[v] = "staged"
              /\ jrn.phase # "commit-succeeded"
          BY <1>0, <1>2, <1>3, <1>4, <1>7, <3>1, <3>5 DEF HelperKnown, Changed, TypeOK
        <4> QED BY <3>1, <3>2, <4>1 DEF VolumeKept
      <3>6. CASE v = h.vol /\ h.call = "restore"
        <4>1. /\ rollback' = rollback /\ live'[v] = rollback[v]
              /\ jrn.phase = "rollback-volume-started" /\ Changed(jrn, v)
          BY <1>0, <1>2, <1>3, <1>5, <1>7, <3>1, <3>6 DEF HelperKnown, Changed, TypeOK
        <4>2. rollback[v] = Newest(v) /\ jrn.phase \in RollbackPhase
          BY <3>1, <4>1 DEF VolumeKept, RollbackPhase
        <4> QED BY <3>1, <3>2, <4>1, <4>2 DEF VolumeKept
      <3> QED BY <1>7, <3>3, <3>4, <3>5, <3>6
    <2>4. PowerKnown(jrn)'
      BY <1>0, <1>1, <1>3, <1>4
         DEF PowerKnown, ServedPhase, StartedPhase, RequiresVerify
    <2> QED BY <2>1, <2>2, <2>3, <2>4 DEF VolumesInv
  <1>10. CASE h \in waiting /\ waiting' = {} /\ Ran("copy")
    <2>1. done' = done \cup {"copy"} /\ UNCHANGED <<pc, entry>> /\ waiting' = {}
      BY <1>10 DEF Ran
    <2>2. /\ h.vol = jrn.inFlight /\ jrn.unresolved = "none"
          /\ waiting \subseteq {h}
          /\ \/ /\ pc = "activate" /\ jrn.phase = "rollback-copy-started"
                /\ h.call = "save"
             \/ /\ pc = "activate" /\ jrn.phase = "activation-copy-started"
                /\ h.call = "activate"
             \/ /\ pc = "rollback" /\ jrn.phase = "rollback-volume-started"
                /\ h.call = "restore" /\ "stop" \in done
      BY <1>0, <1>1, <1>10 DEF CallsInv, WaitsFor, DriverAt
    <2>3. Copying' = {}
      <3> SUFFICES ASSUME NEW g \in Copying, g # h PROVE FALSE
        BY <1>6
      <3>1. HelperKnown(jrn, g) /\ g \in Helper
        BY <1>0 DEF HelpersKnown, Copying, TypeOK
      <3>2. g.vol = jrn.inFlight /\ g.call = h.call
        BY <1>5, <2>2, <3>1 DEF HelperKnown
      <3>3. g.vol = h.vol /\ g.call = h.call
        BY <2>2, <3>2
      <3> QED BY <1>2, <3>1, <3>3 DEF Helper
    <2>4. TypeOK'
      BY <1>0, <1>1, <1>8, <2>1 DEF TypeOK
    <2>5. DriverAt'
      BY <1>0, <1>1, <2>1, <2>2 DEF CallsInv, DriverAt, Settled, RollbackPhase
    <2>6. WaitsFor'
      BY <2>1 DEF WaitsFor
    <2>7. DoneMeans'
      <3>1. CASE h.call = "save"
        <4>1. rollback'[jrn.inFlight] = live[jrn.inFlight]
          BY <1>0, <1>2, <1>7, <2>2, <3>1 DEF TypeOK
        <4>2. ~Changed(jrn, jrn.inFlight)
          BY <1>0, <1>5, <2>2, <3>1 DEF Changed
        <4>3. live[jrn.inFlight] = Newest(jrn.inFlight)
          BY <1>0, <1>2, <2>2, <4>2 DEF VolumesKept, VolumeKept
        <4>4. Newest(jrn.inFlight)' = Newest(jrn.inFlight)
          BY <1>1 DEF Newest
        <4> QED BY <1>1, <2>1, <2>2, <2>3, <3>1, <4>1, <4>3, <4>4 DEF DoneMeans
      <3>2. CASE h.call = "activate"
        <4>1. live'[jrn.inFlight] = "staged"
          BY <1>0, <1>2, <1>7, <2>2, <3>2 DEF TypeOK
        <4> QED BY <1>1, <2>1, <2>2, <2>3, <3>2, <4>1 DEF DoneMeans
      <3>3. CASE h.call = "restore"
        <4>1. live'[jrn.inFlight] = rollback[jrn.inFlight]
          BY <1>0, <1>2, <1>7, <2>2, <3>3 DEF TypeOK
        <4>2. Changed(jrn, jrn.inFlight) /\ jrn.phase # "commit-succeeded"
          BY <1>0, <1>5, <2>2, <3>3 DEF Changed
        <4>3. rollback[jrn.inFlight] = Newest(jrn.inFlight)
          BY <1>0, <1>2, <2>2, <4>2 DEF VolumesKept, VolumeKept
        <4>4. Newest(jrn.inFlight)' = Newest(jrn.inFlight)
          BY <1>1 DEF Newest
        <4> QED BY <1>1, <1>3, <2>1, <2>2, <2>3, <3>3, <4>1, <4>3, <4>4 DEF DoneMeans
      <3> QED BY <1>7, <3>1, <3>2, <3>3
    <2>8. ResultInv' /\ CleanInv'
      BY <1>1, <1>4, <2>1, ResultStays
    <2> QED BY <1>9, <2>4, <2>5, <2>6, <2>7, <2>8 DEF RestoreInv, CallsInv
  <1>11. CASE h \notin waiting /\ UNCHANGED driver
    <2>1. UNCHANGED <<pc, entry, waiting, done>>
      BY <1>11 DEF driver
    <2>2. TypeOK'
      BY <1>0, <1>1, <1>8, <1>11, <2>1 DEF TypeOK
    <2>3. DriverAt' /\ WaitsFor'
      BY <1>0, <1>1, <2>1 DEF CallsInv, DriverAt, WaitsFor, Settled
    <2>4. /\ pc = "activate" => "copy" \notin done
          /\ pc = "rollback" => ~("stop" \in done /\ jrn.phase \in RequiresQuiesce)
          /\ pc = "rollback" => ~("copy" \in done /\ jrn.phase = "rollback-volume-started")
      <3>1. DoneMeans /\ DriverAt
        BY <1>0 DEF CallsInv
      <3>2. pc = "activate" => jrn.phase \in {"rollback-copy-started", "activation-copy-started"}
        BY <1>4, <3>1 DEF DriverAt, ActivatePhase, CopyPhase, StartedPhase
      <3> QED BY <1>2, <1>11, <3>1, <3>2 DEF DoneMeans
    <2>5. DoneMeans'
      BY <1>0, <1>1, <1>4, <2>1, <2>4 DEF CallsInv, DoneMeans
    <2>6. ResultInv' /\ CleanInv'
      BY <1>1, <1>4, <2>1, ResultStays
    <2> QED BY <1>9, <2>2, <2>3, <2>5, <2>6 DEF RestoreInv, CallsInv
  <1> QED BY <1>1, <1>10, <1>11 DEF Resume

\* A service changes its own data only while every volume is its own.
LEMMA ServiceWritesKeeps ==
    ASSUME RestoreInv, NEW w \in Vol, ServiceWrites(w)
    PROVE  RestoreInv'
  <1>0. /\ TypeOK /\ CallsInv /\ VolumesInv(jrn) /\ jrn \in Record /\ N \in Nat /\ N > 0
        /\ Progress(jrn) /\ HelpersKnown(jrn) /\ VolumesKept(jrn) /\ PowerKnown(jrn)
    BY RestoreAssumption DEF RestoreInv, TypeOK, VolumesInv
  <1>1. /\ running /\ live[w] = "original" /\ w \notin wrote
        /\ live' = [live EXCEPT ![w] = "newer"] /\ wrote' = wrote \cup {w}
        /\ UNCHANGED <<jrn, rollback, staged, running, helpers, evidence, faults>>
        /\ UNCHANGED <<pc, entry, waiting, done, result, finalized>>
        /\ Copying' = Copying
    BY DEF ServiceWrites, driver, evidence, Copying
  <1>2. jrn.activated = 0 /\ jrn.phase \notin QuietPhase
    BY <1>0, <1>1 DEF PowerKnown, AllStaged
  <1>3. jrn.phase \notin SavedPhase /\ jrn.phase # "activation-copy-started"
    BY <1>0, <1>2 DEF Progress, PhaseProgress, SavedPhase, QuietPhase, CopyPhase, StartedPhase
  <1>4. VolumesKept(jrn)'
    <2> SUFFICES ASSUME NEW v \in Vol PROVE VolumeKept(jrn, v)'
      BY <1>1 DEF VolumesKept
    <2>1. VolumeKept(jrn, v) /\ v \in 1..N
      BY <1>0 DEF VolumesKept, Vol
    <2>2. ~Changed(jrn, v) /\ ~Changed(jrn, v)' /\ ~(v <= jrn.activated)
      BY <1>0, <1>1, <1>2, <1>3, <2>1 DEF Changed
    <2>3. live'[v] = Newest(v)'
      <3>1. CASE v = w
        BY <1>0, <1>1, <3>1 DEF TypeOK, Newest
      <3>2. CASE v # w
        BY <1>0, <1>1, <2>1, <2>2, <3>2 DEF TypeOK, Newest, VolumeKept
      <3> QED BY <3>1, <3>2
    <2> QED BY <1>1, <1>3, <2>2, <2>3 DEF VolumeKept
  <1>5. Progress(jrn)' /\ HelpersKnown(jrn)'
    BY <1>0, <1>1 DEF HelpersKnown, HelperKnown
  <1>6. PowerKnown(jrn)'
    BY <1>0, <1>1, <1>2 DEF PowerKnown
  <1>7. TypeOK'
    BY <1>0, <1>1 DEF TypeOK, Content
  <1>8. DriverAt' /\ WaitsFor'
    BY <1>0, <1>1 DEF CallsInv, DriverAt, WaitsFor, Settled
  <1>9. DoneMeans'
    BY <1>0, <1>1, <1>2 DEF CallsInv, DoneMeans, QuietPhase, CopyPhase
  <1> QED BY <1>1, <1>4, <1>5, <1>6, <1>7, <1>8, <1>9, ResultStays
          DEF RestoreInv, VolumesInv, CallsInv

-----------------------------------------------------------------------------
(* The invariant and the theorems.                                         *)

\* Before the operation begins nothing is changed.
LEMMA RestoreInvInit ==
    ASSUME Init
    PROVE  RestoreInv
  <1>1. /\ jrn.phase = "none" /\ jrn.status = Active /\ jrn.unresolved = "none"
        /\ jrn.prepared = 0 /\ jrn.activated = 0 /\ jrn.inFlight = 0
        /\ jrn \in Record
    <2>0. jrn \in NotBegun /\ N \in Nat
      BY RestoreAssumption DEF Init
    <2>1. /\ jrn.phase = "none" /\ jrn.status = Active /\ jrn.unresolved = "none"
          /\ jrn.prepared = 0 /\ jrn.activated = 0 /\ jrn.inFlight = 0
      BY <2>0 DEF NotBegun
    <2>2. 0 \in 0..N /\ Active \in Status
      BY <2>0 DEF Status
    <2>3. jrn \in Record
      BY <2>0, <2>2 DEF NotBegun, Record
    <2> QED BY <2>1, <2>3
  <1>2. TypeOK
    BY <1>1, RestoreAssumption DEF Init, TypeOK, Content, NoResult
  <1>3. Progress(jrn)
    BY <1>1 DEF Progress, RestorePhase
  <1>4. HelpersKnown(jrn)
    BY DEF Init, HelpersKnown, Copying
  <1>5. VolumesKept(jrn)
    <2> SUFFICES ASSUME NEW v \in Vol PROVE VolumeKept(jrn, v)
      BY DEF VolumesKept
    <2>1. ~(v <= 0)
      BY RestoreAssumption DEF Vol
    <2>2. live[v] = Newest(v)
      BY DEF Init, Newest
    <2> QED BY <1>1, <2>1, <2>2 DEF VolumeKept, Changed
  <1>6. PowerKnown(jrn)
    BY <1>1 DEF PowerKnown, QuietPhase, CopyPhase, ServedPhase, StartedPhase, RequiresVerify
  <1>7. CallsInv
    BY <1>1 DEF Init, CallsInv, DriverAt, WaitsFor, DoneMeans, Settled
  <1>8. ResultInv
    BY <1>1 DEF Init, ResultInv, Settled, NoResult
  <1>9. CleanInv
    BY <1>1 DEF Init, CleanInv, Settled, Active, Succeeded, Recovered
  <1> QED BY <1>2, <1>3, <1>4, <1>5, <1>6, <1>7, <1>8, <1>9 DEF RestoreInv, VolumesInv

\* Every step of the driver, of a helper, of a manager, of a service and of the
\* environment keeps RestoreInv.
LEMMA RestoreInvStep ==
    ASSUME RestoreInv, [Next]_vars
    PROVE  RestoreInv'
  <1>1. CASE RuntimeCall
    BY <1>1, FieldsKeep, PowerCallKeeps, RefusalKeeps, PowerFailureKeeps, VerifyKeeps,
       CopyStartsKeeps, DigestKeeps DEF RuntimeCall
  <1>2. CASE Driver
    BY <1>2, BeginKeeps, ActivateKeeps, DriverKeeps, CommitKeeps, RollbackKeeps,
       PersistKeeps, CleanupKeeps, FinalizeKeeps, FieldsKeep DEF Driver
  <1>3. CASE Recover
    BY <1>3, DriverKeeps
  <1>4. CASE HelperEnds
    BY <1>4, CopyEndsKeeps, DigestKeeps DEF HelperEnds
  <1>5. CASE Cancel \/ \E h \in helpers : HelperFails(h)
    BY <1>5, RefusalKeeps
  <1>6. CASE Crash
    BY <1>6, PowerFailureKeeps
  <1>7. CASE ManagerActsLate
    BY <1>7, LateCommandKeeps
  <1>8. CASE \E v \in Vol : ServiceWrites(v)
    BY <1>8, ServiceWritesKeeps
  <1>9. CASE UNCHANGED vars
    <2>1. /\ UNCHANGED <<jrn, live, rollback, wrote, staged, running, helpers>>
          /\ UNCHANGED <<pc, entry, waiting, done, result, finalized, faults>>
          /\ UNCHANGED <<data, evidence>> /\ Copying' = Copying
      BY <1>9 DEF vars, data, driver, evidence, Copying
    <2>2. VolumesInv(jrn)'
      BY <2>1, SameData DEF RestoreInv
    <2>3. TypeOK'
      BY <2>1 DEF RestoreInv, TypeOK
    <2>4. DriverAt' /\ WaitsFor'
      BY <2>1 DEF RestoreInv, CallsInv, DriverAt, WaitsFor, Settled
    <2>5. DoneMeans'
      BY <2>1 DEF RestoreInv, CallsInv, DoneMeans, Newest
    <2> QED BY <2>1, <2>2, <2>3, <2>4, <2>5, ResultStays DEF RestoreInv, CallsInv
  <1> QED BY <1>1, <1>2, <1>3, <1>4, <1>5, <1>6, <1>7, <1>8, <1>9 DEF Next

\* RestoreInv holds of every restore activation, whatever fails, is canceled,
\* orphaned, carried out late or killed.
THEOREM RestoreInvariant == Spec => []RestoreInv
  <1>1. Init => RestoreInv
    BY RestoreInvInit
  <1>2. RestoreInv /\ [Next]_vars => RestoreInv'
    BY RestoreInvStep
  <1> QED BY <1>1, <1>2, PTL DEF Spec

\* Type correctness; the driver waits only for a helper the daemon still runs.
THEOREM RestoreTypeCorrect == Spec => []TypeOK
  <1>1. RestoreInv => TypeOK
    BY DEF RestoreInv
  <1> QED BY <1>1, RestoreInvariant, PTL

\* The signed record names every volume that a rollback has to restore.
THEOREM JournalKnowsChanges == Spec => []JournalCoversChanges
  <1>1. RestoreInv => JournalCoversChanges
    BY DEF RestoreInv, VolumesInv, VolumesKept, VolumeKept, Changed, JournalCoversChanges
  <1> QED BY <1>1, RestoreInvariant, PTL

\* Until the commit is signed the own data of every volume exists, live or in its
\* rollback volume.
THEOREM OwnDataKept == Spec => []OriginalDataKept
  <1>1. RestoreInv => OriginalDataKept
    BY DEF RestoreInv, VolumesInv, VolumesKept, VolumeKept, OriginalDataKept
  <1> QED BY <1>1, RestoreInvariant, PTL

\* Services run on their own volumes or on restored ones, never on a mixture, and
\* never beside a copy helper.
THEOREM ServicesNeverMixed == Spec => []NoMixedServing
  <1>1. ASSUME RestoreInv PROVE NoMixedServing
    <2> SUFFICES ASSUME running
                 PROVE  /\ \/ \A v \in Vol : live[v] = Newest(v)
                           \/ \A v \in Vol : live[v] = "staged"
                        /\ \A h \in helpers : IsDigest(h)
      BY DEF NoMixedServing
    <2>0. HelpersKnown(jrn) /\ VolumesKept(jrn) /\ PowerKnown(jrn)
      BY <1>1 DEF RestoreInv, VolumesInv
    <2>1. \A h \in helpers : IsDigest(h)
      BY <2>0 DEF HelpersKnown, Copying
    <2>2. CASE jrn.activated = 0
      <3>1. jrn.phase # "activation-copy-started"
        BY <2>0 DEF PowerKnown, QuietPhase, CopyPhase
      <3>2. ASSUME NEW v \in Vol PROVE live[v] = Newest(v)
        <4>1. ~Changed(jrn, v)
          BY <2>2, <3>1, RestoreAssumption DEF Changed, Vol
        <4> QED BY <2>0, <4>1 DEF VolumesKept, VolumeKept
      <3> QED BY <2>1, <3>2
    <2>3. CASE AllStaged
      BY <2>1, <2>3 DEF AllStaged
    <2> QED BY <2>0, <2>2, <2>3 DEF PowerKnown
  <1> QED BY <1>1, RestoreInvariant, PTL

\* A settled operation restored every volume or rolled every one back, and the
\* services run.
THEOREM SettledRecordTrue == Spec => []SettledIsTrue
  <1>1. ASSUME RestoreInv PROVE SettledIsTrue
    <2> SUFFICES ASSUME Settled
                 PROVE  /\ running
                        /\ \A v \in Vol : rollback[v] = "absent"
                        /\ jrn.status = Succeeded => \A v \in Vol : live[v] = "staged"
                        /\ jrn.status = Recovered =>
                              staged /\ \A v \in Vol : live[v] = Newest(v)
      BY DEF SettledIsTrue
    <2>0. /\ Progress(jrn) /\ VolumesKept(jrn) /\ PowerKnown(jrn) /\ CleanInv
          /\ jrn.status \in Status
      BY <1>1, RecordFields DEF RestoreInv, VolumesInv, TypeOK
    <2>1. jrn.status = Succeeded \/ jrn.status = Recovered
      BY <2>0 DEF Settled, Status
    <2>2. jrn.phase \in {"commit-succeeded", "rollback-succeeded"}
      BY <2>0, <2>1 DEF CleanInv
    <2>3. running
      BY <2>0, <2>2 DEF PowerKnown, ServedPhase, RequiresVerify
    <2>4. \A v \in Vol : rollback[v] = "absent"
      BY <2>0 DEF CleanInv
    <2>5. ASSUME jrn.status = Succeeded, NEW v \in Vol PROVE live[v] = "staged"
      <3>1. jrn.phase = "commit-succeeded" /\ jrn.activated = N
        BY <2>0, <2>5 DEF CleanInv, Progress, PhaseProgress
      <3>2. v <= jrn.activated /\ jrn.phase \notin RollbackPhase
        BY <3>1, RestoreAssumption DEF Vol, RollbackPhase
      <3> QED BY <2>0, <3>2 DEF VolumesKept, VolumeKept
    <2>6. ASSUME jrn.status = Recovered
          PROVE  staged /\ \A v \in Vol : live[v] = Newest(v)
      <3>1. jrn.phase = "rollback-succeeded" /\ jrn.activated = 0
        BY <2>0, <2>6 DEF CleanInv, Progress, PhaseProgress
      <3>2. staged
        BY <2>0, <3>1 DEF CleanInv
      <3>3. ASSUME NEW v \in Vol PROVE live[v] = Newest(v)
        <4>1. ~Changed(jrn, v)
          BY <3>1, RestoreAssumption DEF Changed, Vol
        <4> QED BY <2>0, <4>1 DEF VolumesKept, VolumeKept
      <3> QED BY <3>2, <3>3
    <2> QED BY <2>3, <2>4, <2>5, <2>6
  <1> QED BY <1>1, RestoreInvariant, PTL

\* The finalizer sees one result of one operation, the one the journal settles.
THEOREM ResultFinalizedOnce == Spec => []OneFinalizedResult
  <1>1. RestoreInv => OneFinalizedResult
    BY DEF RestoreInv, ResultInv, CleanInv, OneFinalizedResult
  <1> QED BY <1>1, RestoreInvariant, PTL

-----------------------------------------------------------------------------
(* The driver implements SignedOperations.                                 *)

\* The abstract specification's statuses and graph are the driver's.
LEMMA SameGraph ==
    /\ Signed!Upgrade # RestoreActivation /\ Signed!Active = Active
    /\ Signed!Succeeded = Succeeded /\ Signed!Recovered = Recovered
    /\ \A x, y : Signed!AllowedTransition(RestoreActivation, x, y)
                   <=> <<x, y>> \in RestoreTransition
  <1>1. Signed!RestoreTransition = RestoreTransition
    BY DEF Signed!RestoreTransition, RestoreTransition, Signed!RestoreForward,
       RestoreForward, Signed!RestoreRollback, RestoreRollback
  <1>2. \A x, y : Signed!AllowedTransition(RestoreActivation, x, y)
                   <=> <<x, y>> \in RestoreTransition
    BY <1>1 DEF Signed!AllowedTransition, Signed!RestoreActivation, RestoreActivation
  <1> QED
    BY <1>2 DEF Signed!Upgrade, RestoreActivation, Signed!Active, Active,
       Signed!Succeeded, Succeeded, Signed!Recovered, Recovered

\* A restore activation never starts a prior Generate again.
LEMMA NoPriorGenerate ==
    ASSUME NEW x, NEW y, <<x, y>> \in RestoreTransition
    PROVE  /\ x \notin {"none", "rollback-generate-started", "rollback-generate-succeeded"}
           /\ y # "none"
  BY DEF RestoreTransition, RestoreForward, RestoreRollback

\* Whether the bound groups still owe their native close.
Closes(j) == IF j.power = "group" /\ j.custody /\ ~j.closed THEN "owed" ELSE "none"

\* What the abstract specification sees of a record.
Seen(j) == [phase |-> j.phase, status |-> j.status, recorded |-> {}, closes |-> Closes(j)]

\* What the abstract specification asks of the record r that follows j.
AgreedAfter(j, r) ==
    \/ /\ j.phase = "none" /\ j.status = Active /\ Closes(j) = "none"
       /\ r.phase = "prepared" /\ r.status = Active /\ Closes(r) = "none"
    \/ /\ j.status = Active /\ r.status = Active
       /\ <<j.phase, r.phase>> \in RestoreTransition /\ Closes(r) = Closes(j)
    \/ /\ j.status = Active /\ r.status = Active
       /\ j.phase = "quiesce-started" /\ r.phase = j.phase
       /\ Closes(j) = "none" /\ Closes(r) = "owed"
    \/ /\ j.status = Active /\ r.phase = j.phase /\ Closes(r) = Closes(j)
       /\ \/ r.status = Succeeded /\ j.phase = "commit-succeeded"
          \/ r.status = Recovered /\ j.phase = "rollback-succeeded"
    \/ /\ j.status # Active /\ r.status = j.status
       /\ r.phase = j.phase /\ Closes(j) = "owed" /\ Closes(r) = "none"

\* Nothing is bound before the first record.
UnboundFirst == jrn.phase = "none" => Closes(jrn) = "none"

\* A record that follows the newest one is a step of the abstract specification.
LEMMA AgreedIsSigned ==
    ASSUME AgreedAfter(jrn, jrn') \/ Seen(jrn') = Seen(jrn)
    PROVE  [Signed!SignedNext]_(Signed!signedVars)
  <1> DEFINE j == Seen(jrn)
             r == Seen(jrn')
             h == [o \in {RestoreActivation} |-> j]
             g == [o \in {RestoreActivation} |-> r]
  <1>0. /\ j = [phase |-> jrn.phase, status |-> jrn.status, recorded |-> {},
                closes |-> IF ClosePending THEN "owed" ELSE "none"]
        /\ r = [phase |-> jrn'.phase, status |-> jrn'.status, recorded |-> {},
                closes |-> IF ClosePending' THEN "owed" ELSE "none"]
    BY DEF Seen, Closes, ClosePending
  <1>1. CASE r = j
    BY <1>0, <1>1 DEF Signed!signedVars
  <1>2. /\ h[RestoreActivation] = j /\ g[RestoreActivation] = r
        /\ \A t : t = r => [h EXCEPT ![RestoreActivation] = t] = g
        /\ [o \in {RestoreActivation} |-> RestoreActivation][RestoreActivation]
             = RestoreActivation
    OBVIOUS
  <1>3. ASSUME \/ Signed!Begin(RestoreActivation)
               \/ Signed!Advance(RestoreActivation, r.phase)
               \/ Signed!Bind(RestoreActivation)
               \/ Signed!Settle(RestoreActivation, r.status)
               \/ Signed!Acknowledge(RestoreActivation),
               r # j
        PROVE  Signed!SignedNext
    BY <1>0, <1>2, <1>3 DEF Signed!SignedNext
  <1>4. ~Signed!IsUpgrade(RestoreActivation)
    BY <1>2, SameGraph DEF Signed!IsUpgrade
  <1>5. CASE /\ jrn.phase = "none" /\ jrn.status = Active /\ Closes(jrn) = "none"
             /\ jrn'.phase = "prepared" /\ jrn'.status = Active /\ Closes(jrn') = "none"
    <2>1. Signed!Begin(RestoreActivation)
      BY <1>0, <1>2, <1>4, <1>5, SameGraph
         DEF Signed!Begin, Signed!At, Signed!Signs, Signed!Unsigned, Seen
    <2> QED BY <1>1, <1>3, <2>1
  <1>6. CASE /\ jrn.status = Active /\ jrn'.status = Active
             /\ <<jrn.phase, jrn'.phase>> \in RestoreTransition
             /\ Closes(jrn') = Closes(jrn)
    <2>1. Signed!IsActive(RestoreActivation)
      BY <1>0, <1>2, <1>6, SameGraph, NoPriorGenerate DEF Signed!IsActive
    <2>2. Signed!Signs(RestoreActivation, Signed!At(RestoreActivation, r.phase))
      BY <1>0, <1>2, <1>4, <1>6 DEF Signed!At, Signed!Signs, Seen
    <2>3. Signed!Advance(RestoreActivation, r.phase)
      BY <1>0, <1>2, <1>6, <2>1, <2>2, SameGraph, NoPriorGenerate DEF Signed!Advance
    <2> QED BY <1>1, <1>3, <2>3
  <1>7. CASE /\ jrn.status = Active /\ jrn'.status = Active
             /\ jrn.phase = "quiesce-started" /\ jrn'.phase = jrn.phase
             /\ Closes(jrn) = "none" /\ Closes(jrn') = "owed"
    <2>1. Signed!Bind(RestoreActivation)
      BY <1>0, <1>2, <1>4, <1>7, SameGraph
         DEF Signed!Bind, Signed!IsActive, Signed!Signs, Seen
    <2> QED BY <1>1, <1>3, <2>1
  <1>8. CASE /\ jrn.status = Active /\ jrn'.phase = jrn.phase
             /\ Closes(jrn') = Closes(jrn)
             /\ \/ jrn'.status = Succeeded /\ jrn.phase = "commit-succeeded"
                \/ jrn'.status = Recovered /\ jrn.phase = "rollback-succeeded"
    <2>1. Signed!Settle(RestoreActivation, r.status)
      BY <1>0, <1>2, <1>8, SameGraph
         DEF Signed!Settle, Signed!IsActive, Signed!Signs, Seen
    <2> QED BY <1>1, <1>3, <2>1
  <1>9. CASE /\ jrn.status # Active /\ jrn'.status = jrn.status
             /\ jrn'.phase = jrn.phase /\ Closes(jrn) = "owed" /\ Closes(jrn') = "none"
    <2>1. Signed!Acknowledge(RestoreActivation)
      BY <1>0, <1>2, <1>9, SameGraph DEF Signed!Acknowledge, Signed!Signs, Seen
    <2> QED BY <1>1, <1>3, <2>1
  <1> QED
    BY <1>1, <1>5, <1>6, <1>7, <1>8, <1>9 DEF AgreedAfter

\* The record a phase or a terminal outcome is written to is one the driver holds.
LEMMA DriverHolds ==
    ASSUME RestoreInv, pc # "idle"
    PROVE  /\ jrn.phase # "none" /\ jrn \in Record
           /\ pc # "close" => jrn.status = Active
           /\ pc = "close" => jrn.status # Active
           /\ pc = "complete" => jrn.phase \in {"commit-succeeded", "rollback-succeeded"}
  BY DEF RestoreInv, TypeOK, CallsInv, DriverAt, Settled

\* A transition keeps everything of a record but its phase and its counters.
LEMMA TransitionFollows ==
    ASSUME RestoreInv, pc # "idle", pc # "close", NEW r, NEW next, Transition(r, next),
           r.status = jrn.status, r.power = jrn.power, r.custody = jrn.custody,
           r.closed = jrn.closed
    PROVE  AgreedAfter(jrn, jrn') \/ jrn' = jrn
  <1>1. jrn' \in {jrn, r} /\ <<jrn.phase, r.phase>> \in RestoreTransition
    BY DEF Transition, Sign, AllowedTransition
  <1>2. jrn.status = Active
    BY DriverHolds
  <1>3. Closes(r) = Closes(jrn)
    BY DEF Closes
  <1> QED BY <1>1, <1>2, <1>3 DEF AgreedAfter

\* The phases of the activation and of its rollback.
LEMMA PhasesFollow ==
    ASSUME RestoreInv, activateLocked \/ Commit \/ rollbackLocked
    PROVE  AgreedAfter(jrn, jrn') \/ jrn' = jrn
  <1>1. pc # "idle" /\ pc # "close" /\ jrn \in Record
    BY DEF activateLocked, Commit, rollbackLocked, RestoreInv, TypeOK
  <1>2. ASSUME NEW ph, NEW n, NEW m, NEW i, NEW r, NEW next, Transition(r, next),
               r \in {To(ph), [To(ph) EXCEPT !.inFlight = i],
                      [To(ph) EXCEPT !.prepared = n, !.inFlight = i],
                      [To(ph) EXCEPT !.activated = m, !.inFlight = i]}
        PROVE  AgreedAfter(jrn, jrn') \/ jrn' = jrn
    <2>1. /\ r.status = jrn.status /\ r.power = jrn.power
          /\ r.custody = jrn.custody /\ r.closed = jrn.closed
      BY <1>1, <1>2 DEF To, Record
    <2> QED BY <1>1, <1>2, <2>1, TransitionFollows
  <1>3. CASE activateLocked
    <2>1. CASE ActivateRuntime
      BY <1>2, <2>1 DEF ActivateRuntime
    <2>2. CASE ActivateVolumes
      BY <1>2, <2>2 DEF ActivateVolumes
    <2> QED BY <1>3, <2>1, <2>2 DEF activateLocked
  <1>4. CASE Commit
    BY <1>2, <1>4 DEF Commit
  <1>5. CASE rollbackLocked
    <2>1. CASE RollbackStarts
      BY <1>2, <2>1 DEF RollbackStarts
    <2>2. CASE RollbackVolumes
      BY <1>2, <2>2 DEF RollbackVolumes
    <2>3. CASE RollbackRuntime
      BY <1>2, <2>3 DEF RollbackRuntime
    <2> QED BY <1>5, <2>1, <2>2, <2>3 DEF rollbackLocked
  <1> QED BY <1>3, <1>4, <1>5

\* The writes outside the phase graph: the first record, the bound groups, the
\* outcome and the acknowledged close.
LEMMA FieldsFollow ==
    ASSUME RestoreInv, UnboundFirst, Begin \/ CaptureCustody \/ Complete \/ CloseAppGroupHolds
    PROVE  AgreedAfter(jrn, jrn') \/ Seen(jrn') = Seen(jrn)
  <1>0. jrn \in Record
    BY DEF RestoreInv, TypeOK
  <1>1. CASE Begin
    <2>1. /\ jrn.phase = "none" /\ Closes(jrn) = "none" /\ jrn' \in {jrn, To("prepared")}
      BY <1>1 DEF Begin, UnboundFirst
    <2>2. jrn.status = Active
      BY <1>0, <2>1, RecordFields DEF RestoreInv, CleanInv, Status
    <2>3. CASE jrn' = To("prepared")
      <3>1. jrn'.phase = "prepared" /\ jrn'.status = Active /\ Closes(jrn') = "none"
        BY <1>0, <2>1, <2>2, <2>3 DEF To, Record, Closes
      <3> QED BY <2>1, <2>2, <3>1 DEF AgreedAfter
    <2> QED BY <2>1, <2>3
  <1>2. CASE CaptureCustody
    <2>1. /\ jrn' \in {jrn, [jrn EXCEPT !.custody = TRUE]} /\ ~jrn.custody
          /\ jrn.phase = "quiesce-started" /\ pc # "idle" /\ pc # "close"
      BY <1>2 DEF CaptureCustody, Sign, HasCustody, Due, ActivateDue, RollbackDue, CommitDue
    <2>2. jrn.status = Active
      BY <2>1, DriverHolds
    <2>3. CASE jrn' # jrn /\ Closes(jrn') = "owed"
      BY <1>0, <2>1, <2>2, <2>3 DEF AgreedAfter, Closes, Record
    <2>4. CASE jrn' # jrn /\ Closes(jrn') = "none"
      BY <1>0, <2>1, <2>2, <2>4 DEF Seen, Closes, Record
    <2>5. Closes(jrn') \in {"owed", "none"}
      BY DEF Closes
    <2> QED BY <2>3, <2>4, <2>5
  <1>3. CASE Complete
    <2>1. /\ pc = "complete"
          /\ jrn' \in {jrn, [jrn EXCEPT !.status = IF jrn.phase = "commit-succeeded"
                                                  THEN Succeeded ELSE Recovered]}
      BY <1>3 DEF Complete, Sign
    <2>2. jrn.status = Active /\ jrn.phase \in {"commit-succeeded", "rollback-succeeded"}
      BY <2>1, DriverHolds
    <2> QED BY <1>0, <2>1, <2>2 DEF AgreedAfter, Closes, Record
  <1>4. CASE CloseAppGroupHolds
    <2>1. /\ pc = "close" /\ Closes(jrn) = "owed"
          /\ jrn' \in {jrn, [jrn EXCEPT !.closed = TRUE]}
      BY <1>4 DEF CloseAppGroupHolds, Sign, ClosePending, Closes
    <2>2. jrn.status # Active
      BY <2>1, DriverHolds
    <2> QED BY <1>0, <2>1, <2>2 DEF AgreedAfter, Closes, Record
  <1> QED BY <1>1, <1>2, <1>3, <1>4

\* Every step follows the newest record, or shows the same of it.
LEMMA DriverFollows ==
    ASSUME RestoreInv, UnboundFirst, [Next]_vars
    PROVE  AgreedAfter(jrn, jrn') \/ Seen(jrn') = Seen(jrn)
  <1>1. CASE \E k : Interrupted(k)
    <2>1. jrn \in Record
      BY DEF RestoreInv, TypeOK
    <2>2. PICK k : Interrupted(k)
      BY <1>1
    <2> QED BY <2>1, <2>2 DEF Interrupted, Seen, Closes, Record
  <1>2. CASE Crash \/ StopFails \/ StartFails
    BY <1>1, <1>2 DEF Crash, StopFails, StartFails
  <1>3. CASE Begin \/ CaptureCustody \/ Complete \/ CloseAppGroupHolds
    BY <1>3, FieldsFollow
  <1>4. CASE activateLocked \/ Commit \/ rollbackLocked
    BY <1>4, PhasesFollow
  <1>5. CASE jrn' = jrn
    BY <1>5
  <1>6. CASE RuntimeCall
    BY <1>2, <1>3, <1>5, <1>6
       DEF RuntimeCall, Stop, StopRefused, Start, StartRefused, VerifyLive, CopyStarts,
           DigestStarts
  <1>7. CASE Driver
    BY <1>3, <1>4, <1>5, <1>7
       DEF Driver, SignActivated, ReconcileForRecovery, RolledBack, CommittedVerified,
           persistResult, Cleanup, FinalizeResult, Return
  <1>8. CASE \/ Recover \/ HelperEnds \/ Cancel \/ ManagerActsLate
             \/ (\E h \in helpers : HelperFails(h)) \/ \E v \in Vol : ServiceWrites(v)
    BY <1>5, <1>8 DEF Recover, HelperEnds, CopyEnds, DigestEnds, Cancel, ManagerActsLate,
       HelperFails, ServiceWrites
  <1>9. CASE UNCHANGED vars
    BY <1>5, <1>9 DEF vars
  <1> QED BY <1>2, <1>6, <1>7, <1>8, <1>9 DEF Next

\* The driver of a restore activation implements the abstract specification the
\* journal implements, for any number of volumes and faults: over failed writes,
\* automatic and explicit recovery it signs the next phase of the graph, binds its
\* groups once, while quiescing, settles once, with the outcome its phase
\* allows, and then acknowledges the close and nothing else.
THEOREM RestoreSignsAsAgreed == Spec => SignsAsAgreed
  <1>1. ASSUME Init PROVE Signed!SignedInit /\ UnboundFirst
    <2>1. jrn.phase = "none" /\ jrn.status = Active /\ ~jrn.custody
      BY <1>1 DEF Init, NotBegun
    <2> QED
      BY <2>1, SameGraph
         DEF Signed!SignedInit, Signed!Unsigned, UnboundFirst, ClosePending, Closes
  <1>2. ASSUME RestoreInv, UnboundFirst, [Next]_vars
        PROVE  UnboundFirst' /\ [Signed!SignedNext]_(Signed!signedVars)
    <2>1. AgreedAfter(jrn, jrn') \/ Seen(jrn') = Seen(jrn)
      BY <1>2, DriverFollows
    <2>2. ASSUME Seen(jrn') = Seen(jrn) PROVE UnboundFirst'
      <3>1. jrn'.phase = jrn.phase /\ Closes(jrn') = Closes(jrn)
        BY <2>2 DEF Seen
      <3> QED BY <1>2, <3>1 DEF UnboundFirst, Closes
    <2>3. ASSUME AgreedAfter(jrn, jrn') PROVE UnboundFirst'
      <3>1. jrn'.phase # "none" \/ Closes(jrn') = "none"
        BY <2>3, NoPriorGenerate DEF AgreedAfter
      <3> QED BY <3>1 DEF UnboundFirst, Closes
    <2> QED BY <2>1, <2>2, <2>3, AgreedIsSigned
  <1> QED
    BY RestoreInvariant, <1>1, <1>2, PTL DEF Spec, SignsAsAgreed, Signed!SignedSpec

=============================================================================
