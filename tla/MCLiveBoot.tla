----------------------------- MODULE MCLiveBoot -----------------------------
(* Instances of LiveBoot for TLC.  Each package differs in one point from  *)
(* one of two good ones.                                                   *)
EXTENDS LiveBoot

Good == [id |-> 0, header |-> TRUE, model |-> "MS220-24P", dry |-> FALSE, manifest |-> TRUE,
         status |-> "validated", force |-> FALSE, size |-> KernelSlot - 32,
         entry |-> KernelDest, kernelCrc |-> TRUE, rootfs |-> RootfsMax,
         squashfs |-> TRUE, used |-> RootfsMax]

MCModels == {"MS22", "MS22P", "MS220-8", "MS220-8P", "MS220-24", "MS220-24P"}
MCPackages ==
  {Good,
   [Good EXCEPT !.header = FALSE], [Good EXCEPT !.model = "MS42"],
   [Good EXCEPT !.model = "MS22", !.rootfs = 96, !.used = 96, !.size = 1],
   [Good EXCEPT !.dry = TRUE], [Good EXCEPT !.manifest = FALSE],
   [Good EXCEPT !.status = "untested"],
   [Good EXCEPT !.status = "untested", !.force = TRUE],
   [Good EXCEPT !.status = "known-incompatible", !.force = TRUE],
   [Good EXCEPT !.size = 0], [Good EXCEPT !.size = KernelSlot - 31],
   [Good EXCEPT !.size = KernelSlot],
   [Good EXCEPT !.size = 33, !.entry = KernelDest + 63],
   [Good EXCEPT !.size = 33, !.entry = KernelDest + 64],
   [Good EXCEPT !.entry = KernelDest - 4], [Good EXCEPT !.kernelCrc = FALSE],
   [Good EXCEPT !.rootfs = RootfsMax + 1], [Good EXCEPT !.squashfs = FALSE],
   [Good EXCEPT !.used = 95], [Good EXCEPT !.rootfs = 4096]}
=============================================================================
