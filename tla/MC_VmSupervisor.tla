--------------------------- MODULE MC_VmSupervisor ---------------------------
(* Small instances of VmSupervisor for TLC.                                *)
EXTENDS VmSupervisor_refines

\* No S3; S3 with only compressed objects; S3 after an upgrade.
MC_All == {[s3 |-> FALSE, legacy |-> FALSE],
           [s3 |-> TRUE,  legacy |-> FALSE],
           [s3 |-> TRUE,  legacy |-> TRUE]}

MC_LocalOnly == {[s3 |-> FALSE, legacy |-> FALSE]}
MC_S3 == {[s3 |-> TRUE, legacy |-> FALSE]}
=============================================================================
