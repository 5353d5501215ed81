----------------------------- MODULE Suspension -----------------------------
(***************************************************************************)
(* What a Workshop may count on from one start of its microVM to the next, *)
(* with the three files of a snapshot seen as one: the suspension a start  *)
(* would be restored from changes in one step, an acknowledged one stays   *)
(* until a newer instant replaces it or the volume is lost, and nothing    *)
(* mixed is ever seen unless a download from S3 was involved.              *)
(***************************************************************************)
EXTENDS Integers

VARIABLES
    fallback,   \* S3 is configured, fixed
    taken,      \* instants captured so far
    saved,      \* the suspension a start would be restored from
    acked,      \* the suspension last acknowledged and not replaced
    restored    \* the suspension the running microVM was restored from

vars == <<fallback, taken, saved, acked, restored>>

None == -1      \* no suspension: a start is a cold boot
Torn == -2      \* files of several suspensions, or cut short

Init ==
    /\ fallback \in BOOLEAN
    /\ taken = 0 /\ saved \in {None, 0}
    /\ acked = None /\ restored = None

\* The microVM is paused for a suspension or a lockdown.
Capture ==
    /\ taken' = taken + 1
    /\ UNCHANGED <<fallback, saved, acked, restored>>

\* The previous suspension goes, for a more recent one only.
Replace ==
    /\ acked < taken
    /\ saved' = None /\ acked' = None
    /\ UNCHANGED <<fallback, taken, restored>>

Store ==
    /\ saved = None /\ acked = None
    /\ saved' = taken
    /\ UNCHANGED <<fallback, taken, acked, restored>>

Acknowledge ==
    /\ saved = taken
    /\ acked' = taken
    /\ UNCHANGED <<fallback, taken, saved, restored>>

\* The volume is lost while no microVM runs.
Lose ==
    /\ restored = None
    /\ saved' = None /\ acked' = None
    /\ UNCHANGED <<fallback, taken, restored>>

\* A download, which nothing makes atomic.
Recover ==
    /\ fallback /\ acked = None /\ restored = None
    /\ saved' \in Nat \cup {None, Torn}
    /\ UNCHANGED <<fallback, taken, acked, restored>>

Resume ==
    /\ restored = None
    /\ restored' = saved
    /\ UNCHANGED <<fallback, taken, saved, acked>>

Stop ==
    /\ restored' = None
    /\ UNCHANGED <<fallback, taken, saved, acked>>

Next ==
    \/ Capture \/ Replace \/ Store \/ Acknowledge
    \/ Lose \/ Recover \/ Resume \/ Stop

Spec == Init /\ [][Next]_vars
=============================================================================
