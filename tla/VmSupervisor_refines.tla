------------------------ MODULE VmSupervisor_refines ------------------------
(* VmSupervisor seen as a Suspension.                                      *)
EXTENDS VmSupervisor

\* What three files amount to: nothing when a start would not take them for
\* complete, the instant they are all of, or a mixture.
Snapshot(files) ==
    IF ~Complete(files) THEN NoInstant
    ELSE IF OneInstant(files) THEN files["state"].of
    ELSE -2

Promise == INSTANCE Suspension
           WITH fallback <- conf.s3,
                taken    <- clock,
                saved    <- Snapshot(local),
                acked    <- durable,
                restored <- Snapshot(guest)

\* snapshot_and_publish, main: seen from one start to the next, the removal of
\* the old state and the three renames are one replacement of one suspension
\* by a newer one, wherever a crash, an error or the end of the pod falls
\* between them; only an S3 download ever shows anything else.
ImplementsSuspension == Promise!Spec
=============================================================================
