-------------------------- MODULE MCRamLoaderTimed --------------------------
(* Instances of RamLoaderTimed for TLC.                                    *)
EXTENDS RamLoaderTimed

MCImage == <<1, 2, 1>>

MCAllFaults == FaultKinds
MCReplyFaults == {"reply"}
=============================================================================
