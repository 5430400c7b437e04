---------------------------- MODULE MCLabBatches ----------------------------
(* Small instances of LabBatches for TLC. *)
EXTENDS LabBatches

CONSTANTS b1, b2  \* model values
=============================================================================
