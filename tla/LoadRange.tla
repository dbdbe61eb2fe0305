------------------------------ MODULE LoadRange -----------------------------
(***************************************************************************)
(* Where in memory a program may be loaded: the header checks of           *)
(* boot_flash_kernel (the kernel in flash), of validate_header (an upload) *)
(* and of the sender's make_header.  Addresses and sizes are machine words *)
(* that wrap at Word; the proportions of the address space are constants.  *)
(* The sender's limits are literals and have constants of their own.       *)
(***************************************************************************)
EXTENDS Integers

CONSTANTS
  Word,          \* 2^32
  Segment,       \* 2^28: the size of an address segment
  Line,          \* 32: unit of the copy loop
  Align,         \* 4: alignment of load and entry addresses
  StackEnd,      \* STAGE_STACK_RESERVED_END
  RamStart,      \* CONFIG_UART_RAMLOADER_RAM_START
  Stage1Start,   \* CONFIG_UART_RAMLOADER_RAM_END, where stage 1 itself lives
  Stage1Size,    \* CONFIG_UART_RAMLOADER_STAGE1_MAX_SIZE
  MaxSize,       \* CONFIG_UART_RAMLOADER_MAX_SIZE
  HardLimit,     \* CONFIG_HARD_PAYLOAD_LIMIT
  LegacyLimit,   \* CONFIG_LEGACY_PAYLOAD_LIMIT
  SizePolicy,    \* CONFIG_SIZE_POLICY_*
  CrcPolicy,     \* CONFIG_CRC_POLICY_*
  SenderStart,   \* 0x81000000 in make_header
  SenderEnd,     \* 0x87F00000 in make_header
  SenderMax      \* 4 MiB in make_header

KernelBase == 8 * Segment   \* 0x80000000, the start of KSEG0
Stage1End == Stage1Start + Stage1Size

ASSUME WordAssumption ==
  /\ Segment \in Nat \ {0} /\ Line \in Nat \ {0} /\ Align \in Nat \ {0}
  /\ Word = 16 * Segment /\ Line <= Word

(* What scripts/check_config.py demands of a build with stage 1: the RAM range
   and stage 1 lie in KSEG0.  The end of the stack is not configurable.    *)
ASSUME LayoutAssumption ==
  /\ {StackEnd, RamStart, Stage1Start, Stage1Size, MaxSize} \subseteq Nat
  /\ KernelBase < StackEnd
  /\ KernelBase <= RamStart /\ RamStart < Stage1Start
  /\ Stage1Size > 0 /\ Stage1End <= KernelBase + 2 * Segment
  /\ MaxSize > 0 /\ MaxSize <= Stage1Start - RamStart

ASSUME PolicyAssumption ==
  /\ HardLimit \in Nat /\ HardLimit % Line = 0
  /\ LegacyLimit \in 1..HardLimit /\ LegacyLimit % Line = 0
  /\ SizePolicy \in {"legacy-strict", "legacy-warn", "hard-only"}
  /\ CrcPolicy \in {"strict", "warn", "off"}

ASSUME SenderAssumption ==
  {SenderStart, SenderEnd, SenderMax} \subseteq Nat /\ SenderEnd < Word

Address == 0..(Word - 1)

(* The sum of two words.                                                   *)
Add(a, b) == IF a + b >= Word THEN a + b - Word ELSE a + b

Overlap(startA, endA, startB, endB) == startA < endB /\ startB < endA

Bytes(start, size) == {Add(start, i) : i \in 0..(size - 1)}

(* Memory in use while stage 1 runs.                                       *)
Stack == KernelBase..(StackEnd - 1)
Stage1 == Stage1Start..(Stage1End - 1)

-----------------------------------------------------------------------------
(* boot_flash_kernel.  The copy moves whole lines, so a declared size that is
   no multiple of a line stands for the next multiple; the highest sizes,
   which SizeAccepted refuses, would wrap to 0.                            *)
RoundUp(n) == LET sum == Add(n, Line - 1) IN sum - (sum % Line)
EffectiveSize(h) == RoundUp(h.size)
(* Mutant of LoadEnd: the declared size, not the one that is copied.       *)
DeclaredEnd(h) == Add(h.load, h.size)

LoadEnd(h) == Add(h.load, EffectiveSize(h))

(* Mutant of SizeAccepted: the hard limit is not enforced.                 *)
SizeOverHardLimit(h) ==
  /\ h.size # 0 /\ h.size <= Word - Line
  /\ SizePolicy = "legacy-strict" =>
       h.size % Line = 0 /\ EffectiveSize(h) <= LegacyLimit

(* Mutant of SizeAccepted: every policy rounds.                            *)
SizeUnaligned(h) ==
  /\ h.size # 0 /\ h.size <= Word - Line
  /\ EffectiveSize(h) <= HardLimit
  /\ SizePolicy = "legacy-strict" => EffectiveSize(h) <= LegacyLimit

SizeAccepted(h) ==
  /\ h.size # 0 /\ h.size <= Word - Line
  /\ EffectiveSize(h) <= HardLimit
  /\ SizePolicy = "legacy-strict" =>
       h.size % Line = 0 /\ EffectiveSize(h) <= LegacyLimit

(* Mutant of EntryAccepted: the end counts as loaded.                      *)
EntryAtEnd(h) ==
  /\ h.entry % Align = 0
  /\ h.load <= h.entry /\ h.entry <= LoadEnd(h)

EntryAccepted(h) ==
  /\ h.entry % Align = 0
  /\ h.load <= h.entry /\ h.entry < LoadEnd(h)

FlashHeaderAccepted(h) ==
  /\ h.magic
  /\ SizeAccepted(h)
  /\ h.load \div Segment = 8
  /\ h.load % Align = 0
  /\ LoadEnd(h) >= h.load
  /\ EntryAccepted(h)
  /\ ~Overlap(h.load, LoadEnd(h), KernelBase, StackEnd)
  /\ ~Overlap(h.load, LoadEnd(h), Stage1Start, Stage1End)

(* The checks of loader_kernel_continue in head.S, which boots the kernel in
   builds without stage 1 (the strict and permissive profiles).            *)
LegacyHeaderAccepted(h) ==
  /\ h.magic
  /\ h.size # 0 /\ h.size % Line = 0
  /\ h.size <= HardLimit
  /\ SizePolicy = "legacy-strict" => h.size <= LegacyLimit
  /\ h.load \div Segment = 8

-----------------------------------------------------------------------------
(* validate_header of the RAM loader.  Magics, version, flags, header CRC and
   chunk size are one flag: they say nothing of where the image goes.      *)
UploadEnd(h) == Add(h.load, h.size)

(* Mutant of UploadFits: nothing keeps an upload below stage 1.           *)
UploadOverStage1(h) ==
  /\ h.load >= RamStart
  /\ h.size # 0 /\ h.size <= MaxSize
  /\ UploadEnd(h) >= h.load

(* Mutant of UploadFits: an upload may not reach up to stage 1.           *)
UploadBelowStage1(h) ==
  /\ h.load >= RamStart
  /\ h.size # 0 /\ h.size <= MaxSize
  /\ UploadEnd(h) >= h.load
  /\ UploadEnd(h) < Stage1Start

UploadFits(h) ==
  /\ h.load >= RamStart
  /\ h.size # 0 /\ h.size <= MaxSize
  /\ UploadEnd(h) >= h.load
  /\ UploadEnd(h) <= Stage1Start

UploadHeaderAccepted(h) ==
  /\ h.magic
  /\ UploadFits(h)
  /\ h.load % Align = 0
  /\ h.entry % Align = 0
  /\ h.load <= h.entry /\ h.entry < UploadEnd(h)

-----------------------------------------------------------------------------
(* make_header of uart_ramload_send.py, whose integers do not wrap.        *)
SenderMakes(h) ==
  /\ h.magic
  /\ h.size # 0 /\ h.size <= SenderMax
  /\ SenderStart <= h.load /\ h.load + h.size <= SenderEnd
  /\ h.load % Align = 0 /\ h.entry % Align = 0
  /\ h.load <= h.entry /\ h.entry < h.load + h.size
=============================================================================
