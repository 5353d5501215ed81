----------------------- MODULE VmSupervisor_suspension -----------------------
(***************************************************************************)
(* VmSupervisor implements Suspension, for every set of configurations and *)
(* every bound.  The invariant of VmSupervisor_proof says which files are  *)
(* of which instant; the mapping also needs the order of the instants and  *)
(* that nothing was restored before the microVM is started.                *)
(***************************************************************************)
EXTENDS VmSupervisor_proof, VmSupervisor_refines

\* What is acknowledged was captured before, strictly so while a newer
\* instant is on its way to the cache.
OrderInv ==
    /\ durable <= clock
    /\ pc \in {"record", "copy", "retract"} => durable < clock

\* Nothing is restored while no microVM runs.
GuestInv == ~Listening => guest = Nothing

\* Every step keeps the order of the instants.
LEMMA OrderStep == StateOK /\ OrderInv /\ [Next]_vars => OrderInv'
<1> SUFFICES ASSUME durable \in Nat \cup {NoInstant}, clock \in Nat, OrderInv,
                    [Next]_vars
             PROVE OrderInv'
  BY DEF StateOK
<1> USE DEF OrderInv, NoInstant, process, history
<1>1. CASE \/ CreatePod \/ DeletePod \/ KillPod \/ Crash \/ LoseCache
           \/ Start \/ GuestStops \/ \E kind \in Kind : Request(kind)
  BY <1>1 DEF CreatePod, DeletePod, KillPod, Crash, LoseCache, Start,
              GuestStops, Request, Dead
<1>2. CASE \/ FetchBegin \/ FetchEnd \/ FetchFail \/ Discard \/ Boot
           \/ BootFail \/ Take \/ Poll \/ Halt
  BY <1>2 DEF FetchBegin, FetchEnd, FetchFail, Discard, Boot, BootFail,
              Take, Poll, Halt, Dead
<1>3. CASE Pause
  BY <1>3 DEF Pause, Fail
<1>4. CASE RecordBegin \/ RecordEnd \/ CopyBegin \/ CopyEnd
  BY <1>4 DEF RecordBegin, RecordEnd, CopyBegin, CopyEnd, Fail
<1>5. CASE Retract \/ Publish \/ Withdraw \/ Offload \/ Digest \/ Refuse
  BY <1>5 DEF Retract, Publish, Withdraw, Offload, Digest, Refuse, Fail
<1>6. CASE UNCHANGED vars
  BY <1>6 DEF vars
<1>7. QED
  BY <1>1, <1>2, <1>3, <1>4, <1>5, <1>6 DEF Next, Supervise, Environment

\* Every step keeps the microVM empty until it is started.
LEMMA GuestStep == GuestInv /\ [Next]_vars => GuestInv'
<1> SUFFICES ASSUME GuestInv, [Next]_vars PROVE GuestInv'
  OBVIOUS
<1> USE DEF GuestInv, Listening, process
<1>1. CASE \/ CreatePod \/ DeletePod \/ KillPod \/ Crash \/ LoseCache
           \/ Start \/ GuestStops \/ \E kind \in Kind : Request(kind)
  BY <1>1 DEF CreatePod, DeletePod, KillPod, Crash, LoseCache, Start,
              GuestStops, Request, Dead
<1>2. CASE \/ FetchBegin \/ FetchEnd \/ FetchFail \/ Discard \/ Boot
           \/ BootFail \/ Take \/ Poll \/ Halt
  BY <1>2 DEF FetchBegin, FetchEnd, FetchFail, Discard, Boot, BootFail,
              Take, Poll, Halt, Dead
<1>3. CASE Pause \/ RecordBegin \/ RecordEnd \/ CopyBegin \/ CopyEnd
  BY <1>3 DEF Pause, RecordBegin, RecordEnd, CopyBegin, CopyEnd, Fail
<1>4. CASE Retract \/ Publish \/ Withdraw \/ Offload \/ Digest \/ Refuse
  BY <1>4 DEF Retract, Publish, Withdraw, Offload, Digest, Refuse, Fail
<1>5. CASE UNCHANGED vars
  BY <1>5 DEF vars
<1>6. QED
  BY <1>1, <1>2, <1>3, <1>4, <1>5 DEF Next, Supervise, Environment

\* The order of the instants and the empty microVM, in every reachable state.
LEMMA OrderAlways == Spec => [](OrderInv /\ GuestInv)
<1>1. Init => OrderInv /\ GuestInv
  BY DEF Init, OrderInv, GuestInv, NoInstant, OldInstant
<1>2. QED
  BY <1>1, OrderStep, GuestStep, TypeCorrect, PTL DEF Spec, TypeOK

-----------------------------------------------------------------------------
\* What three files amount to.
LEMMA SnapshotFacts ==
    /\ Snapshot(Nothing) = NoInstant
    /\ \A i \in Nat : Snapshot(All(i)) = i
    /\ \A files \in [File -> Copy] :
          files["state"] = Absent => Snapshot(files) = NoInstant
    /\ \A files \in [File -> Copy] : Snapshot(files) \in Nat \cup {NoInstant, -2}
<1>1. Snapshot(Nothing) = NoInstant
  BY AllFacts DEF Snapshot, Complete, File
<1>2. ASSUME NEW i \in Nat PROVE Snapshot(All(i)) = i
  <2>1. \A f \in File : All(i)[f] = Whole(i) /\ Whole(i) # Absent
    BY CopyFacts, AllFacts
  <2>2. All(i)["state"].of = i
    BY <2>1, CopyFacts DEF File
  <2>3. Complete(All(i)) /\ OneInstant(All(i))
    BY <2>1, <2>2 DEF Complete, OneInstant
  <2>4. QED
    BY <2>2, <2>3 DEF Snapshot
<1>3. ASSUME NEW files \in [File -> Copy], files["state"] = Absent
      PROVE  Snapshot(files) = NoInstant
  BY <1>3 DEF Snapshot, Complete, File
<1>4. ASSUME NEW files \in [File -> Copy]
      PROVE  Snapshot(files) \in Nat \cup {NoInstant, -2}
  <2>1. files["state"].of \in Nat \cup {NoInstant}
    BY CopyFacts DEF File
  <2>2. QED
    BY <2>1 DEF Snapshot
<1>5. QED
  BY <1>1, <1>2, <1>3, <1>4

\* A step that leaves the cache, the microVM and the instants alone is none of
\* a Suspension.
LEMMA Invisible ==
    ASSUME UNCHANGED <<conf, clock, local, durable, guest>>
    PROVE  UNCHANGED Promise!vars
  BY DEF Promise!vars

\* The end of the process, in any form, only stops the microVM.
LEMMA DeathStops ==
    ASSUME Dead, UNCHANGED <<conf, clock, local, durable>>
    PROVE  Promise!Stop
  BY SnapshotFacts DEF Promise!Stop, Promise!None, Dead, NoInstant

\* Every step of the supervisor is a step of a Suspension, or none.
LEMMA StepIsStep ==
    StateOK /\ StateOK' /\ Inv /\ OrderInv /\ GuestInv /\ [Next]_vars
        => [Promise!Next]_(Promise!vars)
<1> SUFFICES ASSUME StateOK, StateOK', Inv, OrderInv, GuestInv, [Next]_vars
             PROVE  Promise!Next \/ UNCHANGED Promise!vars
  OBVIOUS
<1>1. CASE \/ CreatePod \/ DeletePod \/ Start \/ GuestStops
           \/ \E kind \in Kind : Request(kind)
  BY <1>1, Invisible DEF CreatePod, DeletePod, Start, GuestStops, Request,
     storage, podVars, process, history
<1>2. CASE KillPod \/ Crash \/ BootFail \/ Halt
  BY <1>2, DeathStops DEF KillPod, Crash, BootFail, Halt, storage, history,
     Promise!Next
<1>3. CASE LoseCache
  <2>1. guest = Nothing
    BY <1>3 DEF LoseCache, Inv, PodInv, GuestInv, Listening
  <2>2. Promise!Lose
    BY <1>3, <2>1, SnapshotFacts
       DEF LoseCache, Promise!Lose, Promise!None, NoInstant, podVars, process
  <2>3. QED
    BY <2>2 DEF Promise!Next
<1>4. CASE FetchBegin \/ FetchEnd \/ Discard
  <2>0. pc \in {"fetch", "discard"}
    BY <1>4, Zenon DEF FetchBegin, FetchEnd, Discard
  <2>1. conf.s3 /\ durable = NoInstant /\ guest = Nothing
    BY <2>0 DEF Inv, FallbackInv, GuestInv, Listening
  <2>2. UNCHANGED <<conf, clock, durable, guest>>
    BY <1>4 DEF FetchBegin, FetchEnd, Discard, history
  <2>3. Snapshot(local') \in Nat \cup {Promise!None, Promise!Torn}
    BY SnapshotFacts DEF StateOK, Promise!None, Promise!Torn, NoInstant
  <2>4. durable = Promise!None /\ Snapshot(guest) = Promise!None
    BY <2>1, SnapshotFacts DEF Promise!None, NoInstant
  <2>5. Promise!Recover
    BY <2>1, <2>2, <2>3, <2>4, Zenon DEF Promise!Recover
  <2>6. QED
    BY <2>5 DEF Promise!Next
<1>5. CASE \/ FetchFail \/ Take \/ Poll \/ RecordBegin \/ RecordEnd
           \/ CopyBegin \/ CopyEnd \/ Withdraw \/ Offload \/ Refuse
  <2>1. CASE FetchFail \/ Take \/ Poll \/ Refuse
    BY <2>1, Invisible, Zenon
       DEF FetchFail, Take, Poll, Refuse, storage, history
  <2>2. CASE RecordBegin \/ RecordEnd \/ CopyBegin \/ CopyEnd
    BY <2>2, Invisible, Zenon
       DEF RecordBegin, RecordEnd, CopyBegin, CopyEnd, history
  <2>3. CASE Withdraw \/ Offload
    BY <2>3, Invisible, Zenon DEF Withdraw, Offload, history
  <2>4. QED
    BY <1>5, <2>1, <2>2, <2>3
<1>6. CASE Boot
  <2>1. guest = Nothing
    BY <1>6 DEF Boot, GuestInv, Listening
  <2>2. Snapshot(guest') = Snapshot(local)
    BY <1>6, SnapshotFacts DEF Boot, Snapshot
  <2>3. Promise!Resume
    BY <1>6, <2>1, <2>2, SnapshotFacts
       DEF Boot, Promise!Resume, Promise!None, NoInstant, storage, history
  <2>4. QED
    BY <2>3 DEF Promise!Next
<1>7. CASE Pause
  <2>1. CASE clock' = clock + 1
    <3>1. Promise!Capture
      BY <1>7, <2>1 DEF Pause, Promise!Capture, storage
    <3>2. QED
      BY <3>1 DEF Promise!Next
  <2>2. CASE clock' = clock
    BY <1>7, <2>2, Invisible DEF Pause, storage
  <2>3. QED
    BY <1>7, <2>1, <2>2 DEF Pause
<1>8. CASE Retract
  <2>1. CASE pc' = "publish"
    <3>1. local'["state"] = Absent /\ durable' = NoInstant
      BY <1>8, <2>1 DEF Retract, Fail, StateOK, File
    <3>2. Snapshot(local') = NoInstant
      BY <3>1, SnapshotFacts DEF StateOK
    <3>3. Promise!Replace
      BY <1>8, <3>1, <3>2
         DEF Retract, OrderInv, Promise!Replace, Promise!None, NoInstant
    <3>4. QED
      BY <3>3 DEF Promise!Next
  <2>2. CASE UNCHANGED <<local, durable>>
    BY <1>8, <2>2, Invisible DEF Retract
  <2>3. QED
    BY <1>8, <2>1, <2>2 DEF Retract
<1>9. CASE Publish
  <2>1. CASE UNCHANGED local
    BY <1>9, <2>1, Invisible DEF Publish, history
  <2>2. CASE local' = [local EXCEPT ![PublishOrder[step]] = tmp[PublishOrder[step]]]
    <3>1. local["state"] = Absent /\ durable = NoInstant
      BY <1>9 DEF Publish, Inv, PublishInv
    <3>2. Snapshot(local) = NoInstant
      BY <3>1, SnapshotFacts DEF StateOK
    <3>3. UNCHANGED <<conf, clock, durable, guest>>
      BY <1>9 DEF Publish, history
    <3>4. CASE step = 3
      <4>1. local' = All(clock)
        BY <1>9, <2>2, <3>4, AllFacts
           DEF Publish, Inv, PublishInv, PublishOrder, StateOK, File
      <4>2. Snapshot(local') = clock
        BY <4>1, SnapshotFacts DEF StateOK
      <4>3. Promise!Store
        BY <3>1, <3>2, <3>3, <4>2 DEF Promise!Store, Promise!None, NoInstant
      <4>4. QED
        BY <4>3 DEF Promise!Next
    <3>5. CASE step # 3
      <4>1. local'["state"] = Absent
        BY <2>2, <3>1, <3>5 DEF PublishOrder, StateOK, Step, File
      <4>2. Snapshot(local') = NoInstant
        BY <4>1, SnapshotFacts DEF StateOK
      <4>3. QED
        BY <3>2, <3>3, <4>2 DEF Promise!vars
    <3>6. QED
      BY <3>4, <3>5
  <2>3. QED
    BY <1>9, <2>1, <2>2 DEF Publish
<1>10. CASE Digest
  <2>1. CASE durable' = clock
    <3>1. Snapshot(local) = clock
      BY <1>10, SnapshotFacts DEF Digest, Inv, PublishedInv, StateOK
    <3>2. Promise!Acknowledge
      BY <1>10, <2>1, <3>1 DEF Digest, Promise!Acknowledge, storage
    <3>3. QED
      BY <3>2 DEF Promise!Next
  <2>2. CASE UNCHANGED durable
    BY <1>10, <2>2, Invisible DEF Digest, storage
  <2>3. QED
    BY <1>10, <2>1, <2>2 DEF Digest
<1>11. CASE UNCHANGED vars
  BY <1>11, Invisible DEF vars, storage, process, history
<1>12. QED
  BY <1>1, <1>2, <1>3, <1>4, <1>5, <1>6, <1>7, <1>8, <1>9, <1>10, <1>11
     DEF Next, Supervise, Environment

\* snapshot_and_publish, main: for every configuration, the supervisor keeps
\* the promise of Suspension, across crashes, errors and ends of pods.
THEOREM Implements == Spec => ImplementsSuspension
<1>1. Init => Promise!Init
  <2> SUFFICES ASSUME Init PROVE Promise!Init
    OBVIOUS
  <2>1. conf.s3 \in BOOLEAN
    BY ConstantsAssumption DEF Init, Configuration
  <2>2. Snapshot(guest) = NoInstant
    BY SnapshotFacts DEF Init
  <2>3. Snapshot(local) \in {NoInstant, 0}
    <3>1. CASE local = Nothing \/ local = All(OldInstant)
      BY <3>1, SnapshotFacts DEF OldInstant
    <3>2. CASE local["disk"] = Absent
      BY <3>2 DEF Snapshot, Complete, File
    <3>3. QED
      BY <3>1, <3>2, AllFacts DEF Init, Nothing, File
  <2>4. QED
    BY <2>1, <2>2, <2>3
       DEF Init, Promise!Init, Promise!None, NoInstant, OldInstant
<1>2. QED
  BY <1>1, StepIsStep, Inductive, TypeCorrect, OrderAlways, PTL
     DEF Spec, ImplementsSuspension, Promise!Spec, TypeOK
=============================================================================
