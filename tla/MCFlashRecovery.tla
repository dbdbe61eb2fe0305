--------------------------- MODULE MCFlashRecovery ---------------------------
(***************************************************************************)
(* Instances of FlashRecovery for TLC: six pages in three sectors, the     *)
(* first of them the boot loader's.                                        *)
(***************************************************************************)
EXTENDS FlashRecovery

Part(k, r) == [kind |-> k, release |-> r]

MCFactory ==
  [p \in Address |->
     IF p \in Loader THEN Part("loader", 1) ELSE IF p = KernelPage THEN Part("kernel", 1)
     ELSE IF p = RootPage THEN Part("rootfs", 1) ELSE Part("data", 1)]

(* A new release, one page of which is blank.                              *)
MCRelease ==
  [p \in Address |->
     IF p \in Loader THEN Part("loader", 2) ELSE IF p = KernelPage THEN Part("kernel", 2)
     ELSE IF p = RootPage THEN Part("rootfs", 2) ELSE Blank]

MCNoKernel == [MCRelease EXCEPT ![KernelPage] = Part("data", 2)]

MCPackage ==
  [valid |-> TRUE, dryRun |-> FALSE, force |-> FALSE, image |-> MCRelease,
   manifest |-> [image |-> MCRelease, loader |-> [p \in Loader |-> MCRelease[p]],
                 status |-> "validated", operations |-> {"flash", "dry-run"},
                 first |-> TRUE, second |-> TRUE, geometry |-> TRUE]]

MCOnePackage == {MCPackage}
MCTwoPackages == {MCPackage, [MCPackage EXCEPT !.dryRun = TRUE]}

(* The good package, and packages that differ from it in one respect.      *)
MCPackages ==
  {MCPackage, [MCPackage EXCEPT !.valid = FALSE], [MCPackage EXCEPT !.dryRun = TRUE],
   [MCPackage EXCEPT !.manifest.image = MCFactory],
   [MCPackage EXCEPT !.manifest.loader = [p \in Loader |-> MCFactory[p]]],
   [MCPackage EXCEPT !.image = MCNoKernel, !.manifest.image = MCNoKernel],
   [MCPackage EXCEPT !.manifest.first = FALSE], [MCPackage EXCEPT !.manifest.second = FALSE],
   [MCPackage EXCEPT !.manifest.geometry = FALSE]}
    \union {[MCPackage EXCEPT !.manifest.status = s, !.force = f] :
              s \in Statuses, f \in BOOLEAN}
    \union {[MCPackage EXCEPT !.manifest.operations = {o}, !.dryRun = d] :
              o \in {"flash", "dry-run"}, d \in BOOLEAN}

MCStrays == {MCFactory}
(* Every page of the chip and two beyond it, or one page that passes.       *)
MCScratches == 0..7
MCOneScratch == {2}
=============================================================================
