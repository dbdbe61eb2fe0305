----------------------------- MODULE MCRamLoader ----------------------------
(* Instances of RamLoader for TLC.                                         *)
EXTENDS RamLoader

(* Five units in three frames, the last shorter than the others, the first
   two alike.                                                              *)
MCImage == <<1, 2, 1, 2, 1>>

MCAllFaults == FaultKinds
=============================================================================
