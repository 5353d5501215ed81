----------------------------- MODULE ImageCache -----------------------------
(***************************************************************************)
(* The cache of Workshop images: the directories sha256_* of the shared     *)
(* volume, the objects images/<digest>/rootfs.ext4 of the bucket, and the   *)
(* eviction Job the controller starts every 15 minutes                      *)
(* (crates/controller/src/eviction.rs).  A digest stands for a content; a   *)
(* file or an object is absent, partial (cut short) or whole.               *)
(***************************************************************************)
EXTENDS Integers, Sequences, FiniteSets

CONSTANTS MaxImages,   \* number of images that can be packaged
          Threshold,   \* images the volume holds before the eviction starts
          MaxFaults    \* most faults, of any kind, in a behaviour

ASSUME CacheAssumption ==
    /\ MaxImages \in Nat
    /\ Threshold \in Nat
    /\ MaxFaults \in Nat

Digest == 1..MaxImages

VARIABLES
    file,       \* the entry of each digest on the volume
    object,     \* the object of each digest in the bucket
    order,      \* the entries of the volume, by date of modification
    eviction,   \* the entries an eviction Job has left to look at
    evicting,   \* whether an eviction Job is active
    faults      \* faults that may still happen

cacheVars == <<file, object, order, eviction, evicting>>

CacheInit ==
    /\ file = [d \in Digest |-> "absent"]
    /\ object = [d \in Digest |-> "absent"]
    /\ order = <<>>
    /\ eviction = <<>>
    /\ evicting = FALSE

Fault == faults > 0 /\ faults' = faults - 1
NoFault == faults' = faults

(***************************************************************************)
(* publish_to_cache creates the directory, then copies the file in place    *)
(* unless one is there already.                                             *)
(***************************************************************************)
Published(d) == file[d] # "absent"

OpenEntry(d) ==
    /\ ~Published(d)
    /\ file' = [file EXCEPT ![d] = "partial"]
    /\ order' = Append(SelectSeq(order, LAMBDA e : e # d), d)
    /\ UNCHANGED <<object, eviction, evicting>>

\* The copy goes on in a file that the eviction removed meanwhile.
CloseEntry(d) ==
    /\ file' = [file EXCEPT ![d] = IF @ = "absent" THEN @ ELSE "whole"]
    /\ UNCHANGED <<object, order, eviction, evicting>>

\* The object is the file as it is read at that moment.
upload_image_cache_file(d) ==
    /\ file[d] # "absent"
    /\ object' = [object EXCEPT ![d] = file[d]]
    /\ UNCHANGED <<file, order, eviction, evicting>>

(***************************************************************************)
(* The eviction.  total_bytes is a number of images here.                   *)
(***************************************************************************)
total_bytes == Cardinality({d \in Digest : Published(d)})

\* No second Job while one is neither complete nor failed.
has_active_job == evicting

\* The Job lists the entries once, oldest modification first.
EvictionTick ==
    /\ ~has_active_job
    /\ total_bytes > Threshold
    /\ evicting' = TRUE
    /\ eviction' = order
    /\ UNCHANGED <<file, object, order, faults>>

EvictionEnds ==
    /\ evicting
    /\ eviction = <<>> \/ total_bytes <= Threshold
    /\ evicting' = FALSE
    /\ eviction' = <<>>
    /\ UNCHANGED <<file, object, order, faults>>

EvictEntry_Unconfirmed ==
    /\ evicting
    /\ eviction # <<>>
    /\ total_bytes > Threshold
    /\ file' = [file EXCEPT ![Head(eviction)] = "absent"]
    /\ order' = SelectSeq(order, LAMBDA e : e # Head(eviction))
    /\ eviction' = Tail(eviction)
    /\ NoFault
    /\ UNCHANGED <<object, evicting>>

\* Nothing leaves the volume before `mc stat` has found it in the bucket.
EvictEntry ==
    /\ evicting
    /\ eviction # <<>>
    /\ total_bytes > Threshold
    /\ object[Head(eviction)] # "absent"
    /\ file' = [file EXCEPT ![Head(eviction)] = "absent"]
    /\ order' = SelectSeq(order, LAMBDA e : e # Head(eviction))
    /\ eviction' = Tail(eviction)
    /\ NoFault
    /\ UNCHANGED <<object, evicting>>

\* An entry `mc stat` does not find, or fails to ask for, stays.
KeepEntry ==
    /\ evicting
    /\ eviction # <<>>
    /\ total_bytes > Threshold
    /\ IF object[Head(eviction)] = "absent" THEN NoFault ELSE Fault
    /\ eviction' = Tail(eviction)
    /\ UNCHANGED <<file, object, order, evicting>>

\* The Job is stopped (deadline, node): the next tick starts another.
EvictionStopped ==
    /\ evicting
    /\ Fault
    /\ evicting' = FALSE
    /\ eviction' = <<>>
    /\ UNCHANGED <<file, object, order>>

Evict == EvictionTick \/ EvictEntry \/ KeepEntry \/ EvictionEnds
=============================================================================
