------------------------------ MODULE LoaderBoot -----------------------------
(***************************************************************************)
(* The way from reset to stage 1 or to a kernel: the wrapper of a flash    *)
(* region (boot_wrapper.S), the loader it holds (head.S) and the           *)
(* initialisation of the SoC (init.h), region after region.  The loader    *)
(* runs uncached in the boot window until it has mapped the flash, and in  *)
(* the mapping from then on, also in the regions it falls back to.         *)
(* Addresses are in units of 16 MiB.                                       *)
(***************************************************************************)
EXTENDS DramTraining

CONSTANTS
  Regions,      \* flash regions that hold a loader
  TlbEntries,   \* entries of the TLB
  Boards        \* the boards considered

Chips == {"jaguar1", "luton26", "other"}
LaneSet(chip) == IF chip = "jaguar1" THEN {0, 1} ELSE {0}
Eye == [from : Delay, to : 1..DlyLimit]

(* The chip, its DRAM, whether the build has stage 1, and what the kernel of
   each region is: no valid one, one that stays, one that comes back.      *)
Board ==
  UNION {[chip : {c}, eyes : [LaneSet(c) -> Eye], uart : BOOLEAN,
          kernels : [0..(Regions - 1) -> {"bad", "stays", "returns"}]] : c \in Chips}

ASSUME LoaderAssumption ==
  /\ Regions \in Nat \ {0}
  /\ TlbEntries \in Nat /\ TlbEntries >= 5
  /\ Boards \subseteq Board

VARIABLES
  board,     \* the board this is
  step,      \* what the loader is doing
  soc,       \* the family whose init_system runs
  region,    \* the region whose loader runs
  mapped,    \* it runs in the mapping, gp = 4xxxxxxx
  control,   \* the bits set in GENERAL_CTRL: boot mode, PI master
  tlb        \* the TLB

bootVars == <<board, step, soc, region, mapped, control, tlb>>
vars == <<bootVars, trainVars>>

-----------------------------------------------------------------------------
(* The TLB.                                                                *)

DdrTo == 32      \* 0x20000000
FlashTo == 64    \* 0x40000000
PiTo == 92       \* 0x5c000000
DevCpuTo == 96   \* 0x60000000
CfgTo == 112     \* 0x70000000

Unused == [size |-> 0, offset |-> 0]

(* Mutant of TlbCount: the field counts from zero.                         *)
TlbCountField == TlbEntries - 1

TlbCount == TlbEntries

Invalidated == [i \in DOMAIN tlb |-> IF i < TlbCount THEN Unused ELSE tlb[i]]

(* create_tlb: an entry maps a pair of pages, aligned to twice their size;
   the frame of the odd one has the bit of the size set.                   *)
Matches(entry, a) ==
  entry.size > 0 /\ a \div (2 * entry.size) = entry.offset \div (2 * entry.size)

FrameOf(entry, a) ==
  LET odd == (a \div entry.size) % 2 = 1
      set == (entry.offset \div entry.size) % 2 = 1
  IN IF odd /\ ~set THEN entry.offset + entry.size ELSE entry.offset

Translation(entry, a) ==
  (FrameOf(entry, a) \div entry.size) * entry.size + (a % entry.size)

IoMapping ==
  <<[offset |-> DevCpuTo, size |-> 1], [offset |-> CfgTo, size |-> 1],
    [offset |-> FlashTo, size |-> 1], [offset |-> DdrTo, size |-> 16],
    [offset |-> PiTo, size |-> 4]>>

-----------------------------------------------------------------------------
(* The loader of a region.                                                 *)

(* Every vector of the wrapper enters the active loader, which finds out
   where it runs; the fallback descriptor is for a reader of the image.    *)
Enter ==
  /\ step = "vector"
  /\ step' = "init"
  /\ soc' = "jaguar1"
  /\ UNCHANGED <<board, region, mapped, control, tlb, trainVars>>

(* Mutant of InvalidateTlb: also when the loader runs in the mapping.      *)
InvalidateTlbAlways ==
  /\ step = "init"
  /\ tlb' = Invalidated
  /\ step' = "map"
  /\ UNCHANGED <<board, soc, region, mapped, control, trainVars>>

InvalidateTlb ==
  /\ step = "init" /\ ~mapped
  /\ tlb' = Invalidated
  /\ step' = "map"
  /\ UNCHANGED <<board, soc, region, mapped, control, trainVars>>

MapIo ==
  /\ step = "map"
  /\ tlb' = [i \in DOMAIN tlb |-> IF i < 5 THEN IoMapping[i + 1] ELSE tlb[i]]
  /\ step' = "chip"
  /\ UNCHANGED <<board, soc, region, mapped, control, trainVars>>

KeepTlb ==
  /\ step = "init" /\ mapped
  /\ step' = "chip"
  /\ UNCHANGED <<board, soc, region, mapped, control, tlb, trainVars>>

(* The two families are tried in turn, each from the start.                *)
CheckChip ==
  /\ step = "chip"
  /\ IF board.chip = soc THEN step' = "memory" /\ UNCHANGED soc
     ELSE IF soc = "jaguar1" THEN step' = "init" /\ soc' = "luton26"
     ELSE step' = "fail" /\ UNCHANGED soc
  /\ UNCHANGED <<board, region, mapped, control, tlb, trainVars>>

(* The DRAM is left alone unless this is the boot mode.                    *)
InitMemory ==
  /\ step = "memory"
  /\ IF "boot" \in control THEN step' = "train" /\ StartTraining
                           ELSE step' = "caches" /\ UNCHANGED trainVars
  /\ UNCHANGED <<board, soc, region, mapped, control, tlb>>

TrainMemory ==
  /\ step = "train"
  /\ Train
  /\ UNCHANGED bootVars

MemoryTrained ==
  /\ step = "train" /\ train = "done"
  /\ step' = "caches"
  /\ UNCHANGED <<board, soc, region, mapped, control, tlb, trainVars>>

(* init_caches, which rewrites the DRAM entry with other attributes, and
   init_pi, which on Jaguar1 becomes master of the parallel interface.     *)
InitCaches ==
  /\ step = "caches"
  /\ tlb' = [tlb EXCEPT ![3] = IoMapping[4]]
  /\ control' = IF soc = "jaguar1" THEN control \union {"pi"} ELSE control
  /\ step' = "mode"
  /\ UNCHANGED <<board, soc, region, mapped, trainVars>>

(* boot_mode_trampoline, and out of boot mode.  What is tested and cleared is
   the whole register, not the bit of the boot mode.                       *)
LeaveBootMode ==
  /\ step = "mode" /\ control # {}
  /\ mapped' = TRUE
  /\ control' = {}
  /\ step' = IF board.uart THEN "stage1" ELSE "continue"
  /\ UNCHANGED <<board, soc, region, tlb, trainVars>>

NotBootMode ==
  /\ step = "mode" /\ control = {}
  /\ step' = "continue"
  /\ UNCHANGED <<board, soc, region, mapped, control, tlb, trainVars>>

(* Stage 1 is not expected to come back; it would to loader_kernel_continue. *)
StageReturns ==
  /\ step = "stage1"
  /\ step' = "continue"
  /\ UNCHANGED <<board, soc, region, mapped, control, tlb, trainVars>>

Kernel == board.kernels[region]

BootKernel ==
  /\ step = "continue"
  /\ step' = IF Kernel = "bad" THEN "fail" ELSE "kernel"
  /\ UNCHANGED <<board, soc, region, mapped, control, tlb, trainVars>>

KernelReturns ==
  /\ step = "kernel" /\ Kernel = "returns"
  /\ step' = "fail"
  /\ UNCHANGED <<board, soc, region, mapped, control, tlb, trainVars>>

(* loader_fail: the first vector of the next region.  What lies behind the
   last one is not modelled.                                               *)
NextRegion ==
  /\ step = "fail" /\ region + 1 < Regions
  /\ region' = region + 1
  /\ step' = "vector"
  /\ UNCHANGED <<board, soc, mapped, control, tlb, trainVars>>

-----------------------------------------------------------------------------
(* What the TLB holds at reset is unknown: entries that match everything.  *)
Stale == [offset |-> 0, size |-> 128]

Init ==
  /\ board \in Boards
  /\ step = "vector"
  /\ soc = "jaguar1"
  /\ region = 0
  /\ mapped = FALSE
  /\ control = {"boot"}
  /\ tlb = [i \in 0..(TlbEntries - 1) |-> Stale]
  /\ eyes = board.eyes
  /\ dly = [l \in Lanes |-> 0]
  /\ train = "idle"
  /\ glitches = 0

Loader ==
  \/ Enter \/ InvalidateTlb \/ MapIo \/ KeepTlb \/ CheckChip
  \/ InitMemory \/ TrainMemory \/ MemoryTrained \/ InitCaches
  \/ LeaveBootMode \/ NotBootMode \/ BootKernel \/ NextRegion

Next == Loader \/ StageReturns \/ KernelReturns

Spec == Init /\ [][Next]_vars

(* The loader runs; stage 1 and kernels need not come back, and only
   finitely many reads go wrong.                                           *)
FairSpec == Spec /\ WF_vars(Loader) /\ WF_vars(KernelReturns)

-----------------------------------------------------------------------------
(* Properties.                                                             *)

(* Types of the variables.  A delay is never one that adjust_dly refuses.  *)
TypeOK ==
  /\ board \in Boards /\ eyes = board.eyes
  /\ step \in {"vector", "init", "map", "chip", "memory", "train", "caches",
               "mode", "stage1", "continue", "kernel", "fail"}
  /\ soc \in Chips \ {"other"}
  /\ region \in 0..(Regions - 1)
  /\ mapped \in BOOLEAN
  /\ control \subseteq {"boot", "pi"}
  /\ \A i \in DOMAIN tlb : tlb[i].size \in Nat /\ tlb[i].offset \in Nat
  /\ dly \in [Lanes -> Delay]
  /\ train \in {"idle", "ones", "zeros", "test", "retry", "done"}
  /\ glitches \in 0..MaxGlitches

(* Mapped addresses the loader uses at a step: its own code, device
   registers, the DRAM, the second chip behind the parallel interface.     *)
Used ==
  (IF mapped THEN {FlashTo} ELSE {})
    \union (IF step \in {"chip", "memory", "train", "caches", "mode"}
            THEN {DevCpuTo, CfgTo} ELSE {})
    \union (IF step \in {"train", "caches"} THEN {DdrTo, DdrTo + 15} ELSE {})
    \union (IF step = "caches" /\ soc = "jaguar1" THEN PiTo..(PiTo + 3) ELSE {})

(* Whatever the TLB held at reset and however often the mapping is rebuilt,
   each address in use, that of the running code first, is matched by one
   entry only and stands for itself.                                       *)
AccessMapped ==
  \A a \in Used :
    \E i \in DOMAIN tlb :
      /\ \A j \in DOMAIN tlb : Matches(tlb[j], a) <=> j = i
      /\ Translation(tlb[i], a) = a

(* Nothing runs from or on a DRAM that is sampled outside the eye of one of
   its lanes, glitches during the training and later regions included.     *)
DramSampledRight ==
  step \in {"caches", "mode", "stage1", "continue", "kernel"}
    => \A l \in Lanes : InEye(l)

(* The DRAM of a board can be trained if each eye is as wide as the step
   back and ends where adjust_dly still gets.                              *)
Trainable ==
  \A l \in DOMAIN board.eyes :
    /\ board.eyes[l].to < DlyLimit
    /\ board.eyes[l].to - board.eyes[l].from >= BackOff

Bootable ==
  /\ board.chip \in {"jaguar1", "luton26"} /\ Trainable
  /\ board.uart \/ \E r \in DOMAIN board.kernels : board.kernels[r] = "stays"

(* Such a board comes up, however long training takes: stage 1 is entered or
   a kernel that stays, in whatever region it is.                          *)
LoaderEnds ==
  Bootable => <>(step = "stage1" \/ (step = "kernel" /\ Kernel = "stays"))
=============================================================================
