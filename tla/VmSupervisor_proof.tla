------------------------- MODULE VmSupervisor_proof -------------------------
(***************************************************************************)
(* Proofs about VmSupervisor, for every set of configurations and every    *)
(* bound: the facts about copies of files and type correctness, then the   *)
(* safety invariants.                                                      *)
(*                                                                         *)
(* The files published by a suspension are written one after the other, so *)
(* the safety invariants are not inductive: the strengthening below says,  *)
(* at each control point of snapshot_and_publish and of offload_snapshot,  *)
(* which files already are of the instant being published.                 *)
(***************************************************************************)
EXTENDS VmSupervisor, TLAPS

\* Copies: what is written is a copy of an instant, and is not missing.
LEMMA CopyFacts ==
    /\ Absent \in Copy
    /\ \A c \in Copy : c.of \in Nat \cup {NoInstant}
    /\ \A i \in Nat \cup {NoInstant} : Whole(i) \in Copy /\ Partial(i) \in Copy
    /\ \A i \in Nat \cup {NoInstant} : Whole(i) # Absent /\ Whole(i).of = i
    /\ \A i \in Nat \cup {NoInstant} : Partial(i).of = i
    /\ \A i, j \in Nat \cup {NoInstant} : Whole(i) = Whole(j) => i = j
  BY DEF Copy, Absent, Whole, Partial, NoInstant

\* An empty and a full set of files are sets of copies.
LEMMA FilesFacts ==
    /\ Nothing \in [File -> Copy]
    /\ \A i \in Nat \cup {NoInstant} : All(i) \in [File -> Copy]
  BY CopyFacts DEF Nothing, All

\* Every position of an order the code walks designates a file.
LEMMA OrderFacts ==
    \A s \in Step : /\ Named[s] \in File /\ PublishOrder[s] \in File
                    /\ OffloadOrder[s] \in File
  BY DEF Step, Named, PublishOrder, OffloadOrder, File

\* Every step keeps the flags Boolean.
LEMMA FlagsStep == TypeOK /\ [Next]_vars => FlagsOK'
<1> SUFFICES ASSUME FlagsOK, [Next]_vars PROVE FlagsOK'
  BY DEF TypeOK
<1> USE DEF podVars, process
<1>1. CASE CreatePod
  BY <1>1 DEF FlagsOK, CreatePod
<1>2. CASE DeletePod
  BY <1>2 DEF FlagsOK, DeletePod
<1>3. CASE KillPod
  BY <1>3, Zenon DEF FlagsOK, KillPod, Dead
<1>4. CASE Crash
  BY <1>4, Zenon DEF FlagsOK, Crash, Dead
<1>5. CASE LoseCache
  BY <1>5 DEF FlagsOK, LoseCache
<1>6. CASE Start
  BY <1>6 DEF FlagsOK, Start
<1>7. CASE GuestStops
  BY <1>7 DEF FlagsOK, GuestStops
<1>8. ASSUME NEW kind \in Kind, Request(kind) PROVE FlagsOK'
  BY <1>8 DEF FlagsOK, Request
<1>9. CASE FetchBegin
  BY <1>9 DEF FlagsOK, FetchBegin, Named
<1>10. CASE FetchEnd
  BY <1>10, Zenon DEF FlagsOK, FetchEnd, Named
<1>11. CASE FetchFail
  BY <1>11, Zenon DEF FlagsOK, FetchFail
<1>12. CASE Discard
  BY <1>12 DEF FlagsOK, Discard, Named
<1>13. CASE Boot
  BY <1>13 DEF FlagsOK, Boot
<1>14. CASE BootFail
  BY <1>14, Zenon DEF FlagsOK, BootFail, Dead
<1>15. CASE Take
  BY <1>15, Zenon DEF FlagsOK, Take
<1>16. CASE Poll
  BY <1>16 DEF FlagsOK, Poll
<1>17. CASE Halt
  BY <1>17, Zenon DEF FlagsOK, Halt, Teardown, Dead
<1>18. CASE Pause
  BY <1>18, Zenon DEF FlagsOK, Pause, Fail
<1>19. CASE RecordBegin
  BY <1>19 DEF FlagsOK, RecordBegin
<1>20. CASE RecordEnd
  BY <1>20, Zenon DEF FlagsOK, RecordEnd, Fail
<1>21. CASE CopyBegin
  BY <1>21 DEF FlagsOK, CopyBegin, CopyOrder
<1>22. CASE CopyEnd
  BY <1>22, Zenon DEF FlagsOK, CopyEnd, Fail, CopyOrder
<1>23. CASE Retract
  BY <1>23, Zenon DEF FlagsOK, Retract, Fail
<1>24. CASE Publish
  BY <1>24, Zenon DEF FlagsOK, Publish, Fail, PublishOrder
<1>25. CASE Withdraw
  BY <1>25 DEF FlagsOK, Withdraw
<1>26. CASE Offload
  BY <1>26 DEF FlagsOK, Offload, OffloadOrder
<1>27. CASE Digest
  BY <1>27, Zenon DEF FlagsOK, Digest, Fail
<1>28. CASE Refuse
  BY <1>28 DEF FlagsOK, Refuse
<1>29. CASE UNCHANGED vars
  BY <1>29 DEF FlagsOK, vars
<1>30. QED
  BY <1>1, <1>2, <1>3, <1>4, <1>5, <1>6, <1>7, <1>8, <1>9, <1>10,
     <1>11, <1>12, <1>13, <1>14, <1>15, <1>16, <1>17, <1>18, <1>19, <1>20,
     <1>21, <1>22, <1>23, <1>24, <1>25, <1>26, <1>27, <1>28, <1>29
     DEF Next, Supervise, Environment

\* Every step keeps the other variables in their types.
LEMMA StateStep == TypeOK /\ [Next]_vars => StateOK'
<1> SUFFICES ASSUME StateOK, [Next]_vars PROVE StateOK'
  BY DEF TypeOK
<1> USE FilesFacts, CopyFacts
<1> USE DEF File, Kind, NoInstant, Step, Pc,
            storage, podVars, process, history
<1>1. CASE CreatePod
  BY <1>1 DEF StateOK, CreatePod
<1>2. CASE DeletePod
  BY <1>2 DEF StateOK, DeletePod
<1>3. CASE KillPod
  BY <1>3 DEF StateOK, KillPod, Dead
<1>4. CASE Crash
  BY <1>4 DEF StateOK, Crash, Dead
<1>5. CASE LoseCache
  BY <1>5 DEF StateOK, LoseCache
<1>6. CASE Start
  BY <1>6 DEF StateOK, Start
<1>7. CASE GuestStops
  BY <1>7 DEF StateOK, GuestStops
<1>8. ASSUME NEW kind \in Kind, Request(kind) PROVE StateOK'
  BY <1>8 DEF StateOK, Request
<1>9. CASE FetchBegin
  <2>0. zst[Named[step]] \in Copy /\ raw[Named[step]] \in Copy
    BY OrderFacts DEF StateOK
  <2>1. PICK object \in Copy :
            local' = [local EXCEPT ![Named[step]] = Partial(object.of)]
    BY <1>9, <2>0, Zenon DEF FetchBegin
  <2>2. Partial(object.of) \in Copy
    OBVIOUS
  <2>3. local' \in [File -> Copy]
    BY <2>1, <2>2, Zenon DEF StateOK
  <2>4. QED
    BY <1>9, <2>3 DEF StateOK, FetchBegin
<1>10. CASE FetchEnd
  <2>1. local[Named[step]] \in Copy
    BY OrderFacts DEF StateOK
  <2>2. Whole(local[Named[step]].of) \in Copy
    BY <2>1
  <2>3. local' \in [File -> Copy]
    BY <1>10, <2>2, Zenon DEF StateOK, FetchEnd
  <2>4. QED
    BY <1>10, <2>3 DEF StateOK, FetchEnd
<1>11. CASE FetchFail
  BY <1>11 DEF StateOK, FetchFail
<1>12. CASE Discard
  <2>1. local' \in [File -> Copy]
    BY <1>12 DEF StateOK, Discard
  <2>2. QED
    BY <1>12, <2>1 DEF StateOK, Discard
<1>13. CASE Boot
  BY <1>13 DEF StateOK, Boot
<1>14. CASE BootFail
  BY <1>14 DEF StateOK, BootFail, Dead
<1>15. CASE Take
  BY <1>15 DEF StateOK, Take
<1>16. CASE Poll
  BY <1>16 DEF StateOK, Poll
<1>17. CASE Halt
  BY <1>17 DEF StateOK, Halt, Teardown, Dead
<1>18. CASE Pause
  BY <1>18 DEF StateOK, Pause, Fail
<1>19. CASE RecordBegin
  BY <1>19 DEF StateOK, RecordBegin
<1>20. CASE RecordEnd
  BY <1>20 DEF StateOK, RecordEnd, Fail
<1>21. CASE CopyBegin
  BY <1>21 DEF StateOK, CopyBegin, CopyOrder
<1>22. CASE CopyEnd
  <2>1. tmp' \in [File -> Copy]
    BY <1>22 DEF StateOK, CopyEnd
  <2>2. pc' \in Pc /\ step' \in Step /\ (pc' = "copy" => step' # 3)
    BY <1>22 DEF StateOK, CopyEnd, Fail
  <2>3. QED
    BY <1>22, <2>1, <2>2 DEF StateOK, CopyEnd
<1>23. CASE Retract
  BY <1>23 DEF StateOK, Retract, Fail
<1>24. CASE Publish
  <2>1. tmp[PublishOrder[step]] \in Copy
    BY OrderFacts DEF StateOK
  <2>2. local' \in [File -> Copy] /\ tmp' \in [File -> Copy]
    BY <1>24, <2>1 DEF StateOK, Publish
  <2>3. QED
    BY <1>24, <2>2 DEF StateOK, Publish, Fail
<1>25. CASE Withdraw
  BY <1>25 DEF StateOK, Withdraw
<1>26. CASE Offload
  <2>1. local[OffloadOrder[step]] \in Copy
    BY OrderFacts DEF StateOK
  <2>2. zst' \in [File -> Copy]
    BY <1>26, <2>1 DEF StateOK, Offload
  <2>3. QED
    BY <1>26, <2>2 DEF StateOK, Offload
<1>27. CASE Digest
  BY <1>27 DEF StateOK, Digest, Fail
<1>28. CASE Refuse
  BY <1>28 DEF StateOK, Refuse
<1>29. CASE UNCHANGED vars
  BY <1>29 DEF StateOK, vars
<1>30. QED
  BY <1>1, <1>2, <1>3, <1>4, <1>5, <1>6, <1>7, <1>8, <1>9, <1>10,
     <1>11, <1>12, <1>13, <1>14, <1>15, <1>16, <1>17, <1>18, <1>19, <1>20,
     <1>21, <1>22, <1>23, <1>24, <1>25, <1>26, <1>27, <1>28, <1>29
     DEF Next, Supervise, Environment

\* The variables have their types in every reachable state of the supervisor.
THEOREM TypeCorrect == Spec => []TypeOK
<1>1. Init => FlagsOK
  BY Zenon DEF Init, FlagsOK
<1>2. Init => StateOK
  BY FilesFacts, CopyFacts, ConstantsAssumption
     DEF Init, StateOK, File, Kind, NoInstant, OldInstant, Step, Pc
<1>3. TypeOK /\ [Next]_vars => TypeOK'
  BY FlagsStep, StateStep DEF TypeOK
<1>4. QED
  BY <1>1, <1>2, <1>3, PTL DEF Spec, TypeOK

-----------------------------------------------------------------------------

\* The temporary files hold the instant just captured, as far as the copy went.
TmpInv ==
    /\ pc = "copy" => /\ tmp["disk"] = Whole(clock)
                      /\ step = 2 => tmp["state"] = Whole(clock)
    /\ pc = "retract" => step = 1 /\ tmp = All(clock)

\* While renaming, no state is published, what was renamed is of the new
\* instant and what was not is still in its temporary file.
PublishInv ==
    pc = "publish" =>
        /\ local["state"] = Absent /\ durable = NoInstant
        /\ tmp["state"] = Whole(clock)
        /\ step = 1 => tmp["disk"] = Whole(clock)
        /\ step # 1 => local["disk"] = Whole(clock)
        /\ step # 3 => tmp["mem"] = Whole(clock)
        /\ step = 3 => local["mem"] = Whole(clock)

\* Once renamed, the three files are the new instant until the answer.
PublishedInv == pc \in {"withdraw", "offload", "digest"} => local = All(clock)

\* S3 while it is being rewritten.
OffloadInv ==
    /\ pc = "withdraw" => step \in 1..2
    /\ pc = "withdraw" /\ step = 2 => raw["state"] = Absent
    /\ pc = "offload" =>
          /\ raw["state"] = Absent /\ zst["state"] = Absent
          /\ step # 1 => zst["mem"] = Whole(clock)
          /\ step = 3 => zst["disk"] = Whole(clock)

\* The two forms of the objects, apart.
ObjectsInv ==
    /\ zst["state"] # Absent => OneInstant(zst)
    /\ raw["state"] # Absent => OneInstant(raw) /\ zst = Nothing

\* The fall-back runs only when nothing acknowledged is in place, and only
\* where S3 is configured.
FallbackInv ==
    /\ pc \in {"fetch", "discard"} => durable = NoInstant
    /\ ~conf.s3 => pc \notin {"fetch", "discard", "withdraw", "offload"}

\* The process lives in a pod and opens a file only after its start.
PodInv ==
    /\ pod = "gone" => pc = "down"
    /\ pc = "down" => ~writing

\* What the fall-back already fetched is what S3 holds, where no object of the
\* old form can be read instead.
FetchInv ==
    ~conf.legacy =>
        /\ raw = Nothing
        /\ pc = "fetch" =>
              /\ step # 1 => /\ local["state"] = zst["state"]
                             /\ zst["state"] # Absent
              /\ step = 3 => local["mem"] = zst["mem"]
              /\ writing => /\ local[Named[step]] = Partial(zst[Named[step]].of)
                            /\ zst[Named[step]] # Absent

Inv == /\ TmpInv /\ PublishInv /\ PublishedInv
       /\ OffloadInv /\ ObjectsInv /\ FallbackInv /\ PodInv /\ FetchInv
       /\ LocalCoherent /\ AcknowledgedIsDurable

-----------------------------------------------------------------------------
\* A snapshot is of one instant when its three files are.
LEMMA AllFacts ==
    /\ \A i : \A f \in File : All(i)[f] = Whole(i)
    /\ \A files \in [File -> Copy], i \in Nat \cup {NoInstant} :
          files = All(i) <=> /\ files["state"] = Whole(i)
                             /\ files["mem"] = Whole(i)
                             /\ files["disk"] = Whole(i)
    /\ \A f \in File : Nothing[f] = Absent
    /\ [Nothing EXCEPT !["state"] = Absent] = Nothing
  BY DEF All, Nothing, File

\* The conjuncts about the cache and the process.
CacheInv == /\ TmpInv /\ PublishInv /\ PublishedInv /\ FallbackInv /\ PodInv
            /\ LocalCoherent /\ AcknowledgedIsDurable

\* The conjuncts about the objects on S3.
S3Inv == OffloadInv /\ ObjectsInv /\ FetchInv

\* Every step keeps the invariant of the cache, whatever S3 holds.
LEMMA CacheStep == TypeOK /\ TypeOK' /\ CacheInv /\ [Next]_vars => CacheInv'
<1> SUFFICES ASSUME StateOK, StateOK', CacheInv, [Next]_vars PROVE CacheInv'
  BY DEF TypeOK
<1> USE DEF StateOK, CacheInv, TmpInv, PublishInv, PublishedInv, FallbackInv,
        PodInv, LocalCoherent, AcknowledgedIsDurable, Complete, OneInstant,
        Step, File, NoInstant, Named, storage, podVars, process, history
<1>1. CASE CreatePod
  BY <1>1 DEF CreatePod
<1>2. CASE DeletePod
  BY <1>2 DEF DeletePod
<1>3. CASE KillPod
  BY <1>3 DEF KillPod, Dead
<1>4. CASE Crash
  BY <1>4 DEF Crash, Dead
<1>5. CASE LoseCache
  BY <1>5, CopyFacts, AllFacts DEF LoseCache
<1>6. CASE Start
  BY <1>6, CopyFacts, AllFacts DEF Start
<1>7. CASE GuestStops
  BY <1>7 DEF GuestStops
<1>8. ASSUME NEW kind \in Kind, Request(kind) PROVE CacheInv'
  BY <1>8 DEF Request
<1>9. CASE FetchBegin
  BY <1>9, CopyFacts, AllFacts DEF FetchBegin
<1>10. CASE FetchEnd
  BY <1>10, CopyFacts, AllFacts DEF FetchEnd
<1>11. CASE FetchFail
  BY <1>11 DEF FetchFail
<1>12. CASE Discard
  BY <1>12, CopyFacts, AllFacts DEF Discard
<1>13. CASE Boot
  BY <1>13, CopyFacts, AllFacts DEF Boot
<1>14. CASE BootFail
  BY <1>14 DEF BootFail, Dead
<1>15. CASE Take
  BY <1>15 DEF Take
<1>16. CASE Poll
  BY <1>16 DEF Poll
<1>17. CASE Halt
  BY <1>17 DEF Halt, Teardown, Dead
<1>18. CASE Pause
  BY <1>18 DEF Pause, Fail
<1>19. CASE RecordBegin
  BY <1>19, CopyFacts, AllFacts DEF RecordBegin
<1>20. CASE RecordEnd
  BY <1>20, CopyFacts, AllFacts DEF RecordEnd, Fail
<1>21. CASE CopyBegin
  BY <1>21, CopyFacts, AllFacts DEF CopyBegin, CopyOrder
<1>22. CASE CopyEnd
  BY <1>22, CopyFacts, AllFacts DEF CopyEnd, Fail, CopyOrder
<1>23. CASE Retract
  BY <1>23, CopyFacts, AllFacts DEF Retract, Fail
<1>24. CASE Publish
  <2>1. CASE pc' = "refuse"
    BY <1>24, <2>1 DEF Publish, Fail
  <2>2. CASE pc' # "refuse" /\ step = 1
    BY <1>24, <2>2, CopyFacts DEF Publish, Fail, PublishOrder
  <2>3. CASE pc' # "refuse" /\ step = 2
    BY <1>24, <2>3, CopyFacts DEF Publish, Fail, PublishOrder
  <2>4. CASE pc' # "refuse" /\ step = 3
    <3>1. local' = All(clock)
      BY <1>24, <2>4, CopyFacts, AllFacts DEF Publish, Fail, PublishOrder
    <3>2. QED
      BY <1>24, <2>4, <3>1, CopyFacts, AllFacts DEF Publish, Fail
  <2>5. step = 1 \/ step = 2 \/ step = 3
    BY DEF StateOK, Step
  <2> HIDE DEF StateOK, CacheInv
  <2>6. QED
    BY <2>1, <2>2, <2>3, <2>4, <2>5
<1>25. CASE Withdraw
  BY <1>25 DEF Withdraw
<1>26. CASE Offload
  BY <1>26 DEF Offload, OffloadOrder
<1>27. CASE Digest
  BY <1>27, CopyFacts, AllFacts DEF Digest, Fail
<1>28. CASE Refuse
  BY <1>28 DEF Refuse
<1>29. CASE UNCHANGED vars
  BY <1>29 DEF vars
<1> HIDE DEF StateOK, CacheInv
<1>30. QED
  BY <1>1, <1>2, <1>3, <1>4, <1>5, <1>6, <1>7, <1>8, <1>9, <1>10,
     <1>11, <1>12, <1>13, <1>14, <1>15, <1>16, <1>17, <1>18, <1>19, <1>20,
     <1>21, <1>22, <1>23, <1>24, <1>25, <1>26, <1>27, <1>28, <1>29
     DEF Next, Supervise, Environment

\* offload_snapshot: uploading the files in its order, the state last.
LEMMA UploadFacts ==
    ASSUME NEW s \in Step, NEW files \in [File -> Copy], NEW i \in Nat,
           files["state"] = Absent, s # 1 => files["mem"] = Whole(i),
           s = 3 => files["disk"] = Whole(i)
    PROVE  LET uploaded == [files EXCEPT ![OffloadOrder[s]] = Whole(i)]
           IN  /\ uploaded["mem"] = Whole(i)
               /\ s # 1 => uploaded["disk"] = Whole(i)
               /\ uploaded["state"] = IF s = 3 THEN Whole(i) ELSE Absent
<1>1. CASE s = 1
  BY <1>1 DEF OffloadOrder, File
<1>2. CASE s = 2
  BY <1>2 DEF OffloadOrder, File
<1>3. CASE s = 3
  BY <1>3 DEF OffloadOrder, File
<1>4. QED
  BY <1>1, <1>2, <1>3 DEF Step

\* Every step keeps the invariant of the objects: what is uploaded is the
\* published snapshot.
LEMMA S3Step ==
    TypeOK /\ TypeOK' /\ PublishedInv /\ PodInv /\ S3Inv /\ [Next]_vars
        => S3Inv'
<1> SUFFICES ASSUME StateOK, StateOK', PublishedInv, PodInv, S3Inv, [Next]_vars
             PROVE  S3Inv'
  BY DEF TypeOK
<1> USE DEF StateOK, S3Inv, PublishedInv, PodInv, OffloadInv, ObjectsInv, FetchInv,
        Step, File, NoInstant, storage, podVars, process, history
<1>1. CASE CreatePod
  BY <1>1 DEF CreatePod
<1>2. CASE DeletePod
  BY <1>2 DEF DeletePod
<1>3. CASE KillPod
  BY <1>3 DEF KillPod, Dead
<1>4. CASE Crash
  BY <1>4 DEF Crash, Dead
<1>5. CASE LoseCache
  BY <1>5 DEF LoseCache
<1>6. CASE Start
  BY <1>6 DEF Start
<1>7. CASE GuestStops
  BY <1>7 DEF GuestStops
<1>8. ASSUME NEW kind \in Kind, Request(kind) PROVE S3Inv'
  BY <1>8 DEF Request
<1>9. CASE FetchBegin
  <2>1. OffloadInv' /\ ObjectsInv'
    BY <1>9 DEF FetchBegin
  <2>2. FetchInv'
    <3> SUFFICES ASSUME ~conf.legacy PROVE FetchInv'
      BY <1>9 DEF FetchBegin
    <3>1. raw = Nothing /\ Named[step] \in File
      BY OrderFacts
    <3>2. /\ zst[Named[step]] # Absent
          /\ local' = [local EXCEPT ![Named[step]] = Partial(zst[Named[step]].of)]
      <4> HIDE DEF S3Inv, StateOK, PublishedInv, PodInv, FetchInv
      <4>1. PICK object \in {zst[Named[step]], raw[Named[step]]} \ {Absent} :
                    local' = [local EXCEPT ![Named[step]] = Partial(object.of)]
        BY <1>9, Zenon DEF FetchBegin
      <4>2. raw[Named[step]] = Absent
        BY <3>1, AllFacts
      <4>3. object = zst[Named[step]] /\ object # Absent
        BY <4>1, <4>2
      <4>4. QED
        BY <4>1, <4>3, Zenon
    <3>3. QED
      BY <1>9, <3>1, <3>2 DEF FetchBegin, Named
  <2>3. QED
    BY <2>1, <2>2
<1>10. CASE FetchEnd
  <2>1. OffloadInv' /\ ObjectsInv'
    BY <1>10 DEF FetchEnd
  <2>2. FetchInv'
    <3> SUFFICES ASSUME ~conf.legacy, step # 3 PROVE FetchInv'
      BY <1>10 DEF FetchEnd
    <3>1. /\ zst[Named[step]] # Absent
          /\ local' = [local EXCEPT ![Named[step]] = Whole(zst[Named[step]].of)]
      <4>1. /\ zst[Named[step]] # Absent
            /\ local[Named[step]] = Partial(zst[Named[step]].of)
        BY <1>10 DEF FetchEnd
      <4>2. local' = [local EXCEPT ![Named[step]] = Whole(local[Named[step]].of)]
        BY <1>10 DEF FetchEnd
      <4> HIDE DEF S3Inv, StateOK, PublishedInv, PodInv, FetchInv
      <4>3. local[Named[step]].of = zst[Named[step]].of
        BY <4>1 DEF Partial
      <4>4. QED
        BY <4>1, <4>2, <4>3, Zenon
    <3>2. zst["state"] # Absent
      BY <1>10, <3>1 DEF FetchEnd, Named
    <3>3. \A f \in File : zst[f] = Whole(zst[f].of)
      BY <3>2, CopyFacts, AllFacts DEF OneInstant
    <3>4. local'[Named[step]] = zst[Named[step]]
      BY <3>1, <3>3, OrderFacts
    <3>5. CASE step = 1
      BY <1>10, <3>2, <3>4, <3>5 DEF FetchEnd, Named
    <3>6. CASE step = 2
      BY <1>10, <3>1, <3>2, <3>4, <3>6 DEF FetchEnd, Named
    <3>7. step = 1 \/ step = 2
      OBVIOUS
    <3> HIDE DEF FetchInv
    <3>8. QED
      BY <3>5, <3>6, <3>7
  <2>3. QED
    BY <2>1, <2>2
<1>11. CASE FetchFail
  BY <1>11 DEF FetchFail
<1>12. CASE Discard
  BY <1>12 DEF Discard
<1>13. CASE Boot
  BY <1>13 DEF Boot
<1>14. CASE BootFail
  BY <1>14 DEF BootFail, Dead
<1>15. CASE Take
  BY <1>15 DEF Take
<1>16. CASE Poll
  BY <1>16 DEF Poll
<1>17. CASE Halt
  BY <1>17 DEF Halt, Teardown, Dead
<1>18. CASE Pause
  BY <1>18 DEF Pause, Fail
<1>19. CASE RecordBegin
  BY <1>19 DEF RecordBegin
<1>20. CASE RecordEnd
  BY <1>20 DEF RecordEnd, Fail
<1>21. CASE CopyBegin
  BY <1>21 DEF CopyBegin, CopyOrder
<1>22. CASE CopyEnd
  BY <1>22 DEF CopyEnd, Fail, CopyOrder
<1>23. CASE Retract
  BY <1>23 DEF Retract, Fail
<1>24. CASE Publish
  BY <1>24 DEF Publish, Fail
<1>25. CASE Withdraw
  <2>1. CASE step = 1 /\ pc' = pc
    <3>1. raw' = [raw EXCEPT !["state"] = Absent] /\ zst' = zst
      BY <1>25, <2>1 DEF Withdraw
    <3>2. raw = Nothing => raw' = Nothing
      BY <3>1, AllFacts
    <3>3. raw'["state"] = Absent
      BY <3>1
    <3>4. OffloadInv'
      BY <1>25, <2>1, <3>3 DEF Withdraw
    <3>5. ObjectsInv'
      BY <3>1, <3>3
    <3>6. FetchInv'
      BY <1>25, <2>1, <3>2 DEF Withdraw
    <3>7. QED
      BY <3>4, <3>5, <3>6
  <2>2. CASE step = 2 /\ pc' = "offload"
    <3>1. zst' = [zst EXCEPT !["state"] = Absent] /\ raw' = raw /\ step' = 1
      BY <1>25, <2>2 DEF Withdraw
    <3>2. zst'["state"] = Absent /\ raw'["state"] = Absent
      BY <1>25, <2>2, <3>1 DEF Withdraw
    <3>3. OffloadInv' /\ ObjectsInv'
      BY <2>2, <3>1, <3>2
    <3>4. FetchInv'
      BY <1>25, <2>2, <3>1 DEF Withdraw
    <3>5. QED
      BY <3>3, <3>4
  <2>3. CASE pc' = "digest"
    BY <1>25, <2>3 DEF Withdraw
  <2> HIDE DEF S3Inv, StateOK, PublishedInv, PodInv
  <2>4. QED
    BY <1>25, <2>1, <2>2, <2>3 DEF Withdraw
<1>26. CASE Offload
  <2>1. FetchInv' /\ raw'["state"] = Absent
    BY <1>26 DEF Offload
  <2>2. \A f \in File : local[f] = Whole(clock)
    <3>1. local = All(clock)
      BY <1>26 DEF Offload
    <3>2. QED
      BY <3>1, AllFacts
  <2>3. CASE zst' = zst /\ pc' = "digest"
    BY <1>26, <2>1, <2>3 DEF Offload
  <2>4. [zst EXCEPT ![OffloadOrder[step]] = local[OffloadOrder[step]]]
            = [zst EXCEPT ![OffloadOrder[step]] = Whole(clock)]
    BY <2>2, OrderFacts
  <2>5. /\ step \in Step /\ zst \in [File -> Copy] /\ clock \in Nat
        /\ zst["state"] = Absent /\ (step # 1 => zst["mem"] = Whole(clock))
        /\ step = 3 => zst["disk"] = Whole(clock)
    BY <1>26 DEF Offload
  <2>6. CASE zst' = [zst EXCEPT ![OffloadOrder[step]] = local[OffloadOrder[step]]]
             /\ step # 3 /\ pc' = pc /\ step' = step + 1
    <3>1. /\ zst'["state"] = Absent /\ zst'["mem"] = Whole(clock)
          /\ step # 1 => zst'["disk"] = Whole(clock)
      <4> HIDE DEF StateOK, S3Inv, PublishedInv, PodInv, OffloadInv, ObjectsInv, FetchInv,
                   Step, File
      <4>1. QED
        BY <2>4, <2>5, <2>6, UploadFacts
    <3>2. OffloadInv'
      BY <1>26, <2>1, <2>6, <3>1 DEF Offload
    <3>3. QED
      BY <2>1, <3>1, <3>2
  <2>7. CASE zst' = [zst EXCEPT ![OffloadOrder[step]] = local[OffloadOrder[step]]]
             /\ step = 3 /\ pc' = "digest"
    <3>1. /\ zst'["state"] = Whole(clock) /\ zst'["mem"] = Whole(clock)
          /\ zst'["disk"] = Whole(clock)
      <4> HIDE DEF StateOK, S3Inv, PublishedInv, PodInv, OffloadInv, ObjectsInv, FetchInv,
                   Step, File
      <4>1. QED
        BY <2>4, <2>5, <2>7, UploadFacts
    <3>2. zst' = All(clock)
      BY <3>1, AllFacts
    <3>3. OneInstant(zst')
      BY <3>1, <3>2, CopyFacts DEF OneInstant
    <3>4. QED
      BY <2>1, <2>7, <3>3
  <2> HIDE DEF S3Inv, StateOK, PublishedInv, PodInv
  <2>8. QED
    BY <1>26, <2>3, <2>6, <2>7 DEF Offload
<1>27. CASE Digest
  BY <1>27 DEF Digest, Fail
<1>28. CASE Refuse
  BY <1>28 DEF Refuse
<1>29. CASE UNCHANGED vars
  BY <1>29 DEF vars
<1> HIDE DEF StateOK, S3Inv
<1>30. QED
  BY <1>1, <1>2, <1>3, <1>4, <1>5, <1>6, <1>7, <1>8, <1>9, <1>10,
     <1>11, <1>12, <1>13, <1>14, <1>15, <1>16, <1>17, <1>18, <1>19, <1>20,
     <1>21, <1>22, <1>23, <1>24, <1>25, <1>26, <1>27, <1>28, <1>29
     DEF Next, Supervise, Environment

\* Every step keeps the inductive invariant.
LEMMA InvStep == TypeOK /\ TypeOK' /\ Inv /\ [Next]_vars => Inv'
  BY CacheStep, S3Step DEF Inv, CacheInv, S3Inv

\* The inductive invariant: it holds at the start and every step keeps it.
THEOREM Inductive == Spec => []Inv
<1>1. Init => Inv
  <2> SUFFICES ASSUME Init PROVE Inv
    OBVIOUS
  <2>1. ObjectsInv
    BY CopyFacts, AllFacts
       DEF Init, ObjectsInv, OneInstant, File, NoInstant, OldInstant
  <2>2. LocalCoherent
    <3>1. CASE local = All(OldInstant)
      BY <3>1, CopyFacts, AllFacts
         DEF LocalCoherent, OneInstant, File, OldInstant
    <3>2. CASE local["disk"] = Absent
      BY <3>2 DEF LocalCoherent, Complete, File
    <3>3. QED
      BY <3>1, <3>2, AllFacts DEF Init, Nothing, File
  <2>3. TmpInv /\ PublishInv /\ PublishedInv /\ OffloadInv
    BY DEF Init, TmpInv, PublishInv, PublishedInv, OffloadInv
  <2>4. FallbackInv /\ PodInv /\ FetchInv /\ AcknowledgedIsDurable
    BY DEF Init, FallbackInv, PodInv, FetchInv, AcknowledgedIsDurable
  <2>5. QED
    BY <2>1, <2>2, <2>3, <2>4 DEF Inv
<1>2. QED
  BY <1>1, InvStep, TypeCorrect, PTL DEF Spec

-----------------------------------------------------------------------------
\* snapshot_and_publish: without the S3 fall-back, whatever interrupted the publications, a snapshot
\* taken for complete is three whole files of one suspension.
THEOREM LocalIsCoherent == Spec => []LocalCoherent
<1>1. Inv => LocalCoherent
  BY DEF Inv
<1>2. QED
  BY <1>1, Inductive, PTL

\* control_request: an acknowledged snapshot stays published, whole, until it is replaced.
THEOREM AcknowledgedStays == Spec => []AcknowledgedIsDurable
<1>1. Inv => AcknowledgedIsDurable
  BY DEF Inv
<1>2. QED
  BY <1>1, Inductive, PTL

\* offload_snapshot: what S3 lets a start read is one suspension, whatever interrupted the
\* offloads.
THEOREM S3IsCoherent == Spec => []S3Coherent
<1>1. StateOK /\ Inv => S3Coherent
  <2> SUFFICES ASSUME StateOK, ObjectsInv, Readable("state") # Absent
               PROVE OneInstant([f \in File |-> Readable(f)])
    BY DEF Inv, S3Coherent
  <2> DEFINE read == [f \in File |-> Readable(f)]
  <2>1. CASE zst["state"] # Absent
    <3>1. PICK i \in {zst["state"].of} : zst = All(i)
      BY <2>1 DEF ObjectsInv, OneInstant
    <3>2. i \in Nat \cup {NoInstant}
      BY CopyFacts DEF StateOK, File
    <3>3. \A f \in File : zst[f] = Whole(i) /\ Whole(i) # Absent
      BY <3>1, <3>2, CopyFacts, AllFacts
    <3>4. read = All(i)
      BY <3>3 DEF Readable, All
    <3>5. read["state"].of = i
      BY <3>2, <3>4, CopyFacts, AllFacts DEF File
    <3>6. QED
      BY <3>4, <3>5 DEF OneInstant
  <2>2. CASE zst["state"] = Absent
    <3>1. raw["state"] # Absent
      BY <2>2 DEF Readable
    <3>2. zst = Nothing /\ OneInstant(raw)
      BY <3>1 DEF ObjectsInv
    <3>3. read = raw
      BY <3>2, AllFacts DEF Readable, StateOK
    <3>4. QED
      BY <3>2, <3>3
  <2>3. QED
    BY <2>1, <2>2
<1>2. QED
  BY <1>1, Inductive, TypeCorrect, PTL DEF TypeOK

\* main: while an acknowledged snapshot is in place, a start restores that very one.
THEOREM ResumeIsAcknowledged == Spec => ResumesAcknowledged
<1>1. StateOK /\ Inv /\ [Next]_vars
      => [Boot /\ durable # NoInstant => guest' = All(durable)]_vars
  <2> SUFFICES ASSUME StateOK, Inv, Boot, durable # NoInstant
               PROVE guest' = All(durable)
    OBVIOUS
  <2>1. local = All(durable)
    BY DEF Inv, AcknowledgedIsDurable
  <2>2. Complete(local)
    BY <2>1, CopyFacts, AllFacts DEF Complete, StateOK
  <2>3. QED
    BY <2>1, <2>2 DEF Boot
<1>2. QED
  BY <1>1, Inductive, TypeCorrect, PTL DEF Spec, ResumesAcknowledged, TypeOK

\* main: a fall-back download that runs to its end leaves one suspension.
THEOREM FetchIsCoherent == Spec => FetchCoherent
<1>1. StateOK /\ StateOK' /\ Inv /\ [Next]_vars
      => [FetchEnd /\ pc' = "boot" /\ ~conf.legacy => OneInstant(local')]_vars
  <2> SUFFICES ASSUME StateOK, StateOK', Inv, FetchEnd, pc' = "boot", ~conf.legacy
               PROVE OneInstant(local')
    OBVIOUS
  <2>1. step = 3 /\ writing /\ pc = "fetch"
    BY DEF FetchEnd
  <2>2. /\ zst["state"] # Absent /\ local["state"] = zst["state"]
        /\ local["mem"] = zst["mem"]
        /\ local["disk"] = Partial(zst["disk"].of)
    BY <2>1 DEF Inv, FetchInv, Named
  <2>3. PICK i \in {zst["state"].of} : zst = All(i)
    BY <2>2 DEF Inv, ObjectsInv, OneInstant
  <2>4. i \in Nat \cup {NoInstant}
    BY CopyFacts DEF StateOK, File
  <2>5. \A f \in File : zst[f] = Whole(i)
    BY <2>3, AllFacts
  <2>6. local["disk"].of = i
    BY <2>2, <2>4, <2>5 DEF File, Partial, Whole
  <2>7. local' = [local EXCEPT !["disk"] = Whole(i)]
    BY <2>1, <2>6 DEF FetchEnd, Named
  <2>8. /\ local'["state"] = Whole(i) /\ local'["mem"] = Whole(i)
        /\ local'["disk"] = Whole(i)
    BY <2>2, <2>5, <2>7 DEF StateOK, File
  <2>9. local' = All(i)
    BY <2>4, <2>8, AllFacts DEF StateOK
  <2>10. QED
    BY <2>4, <2>9, CopyFacts, AllFacts DEF OneInstant, File
<1>2. QED
  BY <1>1, Inductive, TypeCorrect, PTL DEF Spec, FetchCoherent, TypeOK

\* lockdown_egress: only the teardown and the end of the pod thaw the egress.
THEOREM FrozenStays == Spec => FrozenUntilTeardown
<1>1. [Next]_vars => [frozen /\ ~frozen' => vm' = "off" /\ ~tap']_vars
  <2> SUFFICES ASSUME Next, frozen, ~frozen' PROVE vm' = "off" /\ ~tap'
    OBVIOUS
  <2>1. CASE KillPod
    BY <2>1 DEF KillPod, Dead
  <2>2. CASE Halt
    BY <2>2 DEF Halt, Teardown, Dead
  <2>3. CASE Take
    BY <2>3 DEF Take
  <2>4. CASE \/ CreatePod \/ DeletePod \/ Crash \/ LoseCache \/ Start
             \/ GuestStops \/ \E kind \in Kind : Request(kind)
    BY <2>4 DEF CreatePod, DeletePod, Crash, LoseCache, Start, GuestStops,
                Request, podVars
  <2>5. CASE \/ FetchBegin \/ FetchEnd \/ FetchFail \/ Discard \/ Boot
             \/ BootFail \/ Poll
    BY <2>5 DEF FetchBegin, FetchEnd, FetchFail, Discard, Boot, BootFail,
                Poll, podVars
  <2>6. CASE \/ Pause \/ RecordBegin \/ RecordEnd \/ CopyBegin \/ CopyEnd
             \/ Retract \/ Publish \/ Withdraw \/ Offload \/ Digest
             \/ Refuse
    BY <2>6 DEF Pause, RecordBegin, RecordEnd, CopyBegin, CopyEnd, Retract,
                Publish, Withdraw, Offload, Digest, Refuse, podVars
  <2>7. QED
    BY <2>1, <2>2, <2>3, <2>4, <2>5, <2>6 DEF Next, Supervise, Environment
<1>2. QED
  BY <1>1, PTL DEF Spec, FrozenUntilTeardown
=============================================================================
