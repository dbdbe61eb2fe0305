-------------------------- MODULE MCFrameTransfer --------------------------
(* Instances of FrameTransfer for TLC.                                     *)
EXTENDS FrameTransfer

MCAllFaults == FaultKinds
=============================================================================
