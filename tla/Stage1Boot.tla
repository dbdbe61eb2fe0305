----------------------------- MODULE Stage1Boot -----------------------------
(***************************************************************************)
(* Stage 1 from its entry (uart_stage1_main) until it hands control over:  *)
(* the menu probe and the menu, the kernel in flash, the embedded recovery *)
(* and live-boot payloads, and the persistent RAM loader, whose transfer   *)
(* protocol is RamLoader and appears here as one step.                     *)
(***************************************************************************)
EXTENDS LoadRange, Sequences

CONSTANTS
  FlashHeaders,    \* kernel headers that may be found in flash
  UploadHeaders,   \* upload headers that may arrive
  InputBytes,      \* bytes that may arrive until the menu is closed
  RxDepth,         \* bound: bytes waiting in the receiver (16 in the UART)
  ProbeTimeout,    \* CONFIG_UART_RAMLOADER_PROBE_TIMEOUT_MS
  MenuTimeout,     \* CONFIG_UART_MENU_TIMEOUT_MS
  EmbeddedStart,   \* EMBEDDED_RECOVERY_LOAD_ADDR = EMBEDDED_LIVEBOOT_LOAD_ADDR
  BlobSize         \* sizes of the embedded recovery and live-boot payloads

Header == [magic : BOOLEAN, intact : BOOLEAN,
           load : Address, size : Address, entry : Address]
NoHeader == [magic |-> FALSE, intact |-> FALSE, load |-> 0, size |-> 0, entry |-> 0]

Embedded == {"recovery", "liveboot"}

ASSUME HeadersAssumption ==
  FlashHeaders \subseteq Header /\ UploadHeaders \subseteq Header
ASSUME MenuAssumption ==
  {RxDepth, ProbeTimeout, MenuTimeout} \subseteq Nat \ {0}
(* The address of the embedded payloads is a literal; nothing in the build
   ties it to the configurable address of stage 1.                         *)
ASSUME EmbeddedAssumption ==
  /\ BlobSize \in [Embedded -> Nat]
  /\ EmbeddedStart \in StackEnd..(KernelBase + Segment - 1)

VARIABLES
  stage,      \* what stage 1 is doing, or which program it started
  age,        \* age of the probe or menu timer
  rx,         \* bytes received and not yet read
  asked,      \* history: the first option that arrived after the drain
  choice,     \* history: the byte that selected a menu option
  header,     \* the kernel header read from flash
  copied,     \* bytes of the kernel copied so far
  upload,     \* header of the upload offered last
  accepted    \* that upload was stored and started

vars == <<stage, age, rx, asked, choice, header, copied, upload, accepted>>

Options == {"1", "2", "3"}

(* A received byte, and whether it came before the receiver was drained.   *)
Received == [value : InputBytes, early : BOOLEAN]

-----------------------------------------------------------------------------
(* The menu.                                                               *)

(* Bytes arrive at any time; one that finds the receiver full is lost, and
   what arrives after the menu is not looked at any more.                  *)
Arrive ==
  /\ stage \in {"probe", "trigger", "prompt", "menu"}
  /\ Len(rx) < RxDepth
  /\ \E b \in InputBytes :
       /\ rx' = Append(rx, [value |-> b, early |-> stage \in {"probe", "trigger"}])
       /\ asked' = IF stage \in {"prompt", "menu"} /\ asked = "none" /\ b \in Options
                     THEN b ELSE asked
  /\ UNCHANGED <<stage, age, choice, header, copied, upload, accepted>>

(* The timers are polled far more often than they advance.                 *)
Limit == IF stage = "probe" THEN ProbeTimeout ELSE MenuTimeout
Expired == age >= Limit

Tick ==
  /\ stage \in {"probe", "menu"} /\ ~Expired
  /\ age' = age + 1
  /\ UNCHANGED <<stage, rx, asked, choice, header, copied, upload, accepted>>

(* Any byte during the probe opens the menu.                               *)
Trigger ==
  /\ stage = "probe" /\ rx # <<>>
  /\ stage' = "trigger"
  /\ rx' = Tail(rx)
  /\ UNCHANGED <<age, asked, choice, header, copied, upload, accepted>>

NoTrigger ==
  /\ stage = "probe" /\ rx = <<>> /\ Expired
  /\ stage' = "check"
  /\ UNCHANGED <<age, rx, asked, choice, header, copied, upload, accepted>>

(* Mutant of DrainTyped: what was typed with the trigger is kept.          *)
DrainNothing ==
  /\ stage = "trigger"
  /\ stage' = "prompt"
  /\ UNCHANGED <<age, rx, asked, choice, header, copied, upload, accepted>>

(* The trigger has been reported; what came along with it is drained.      *)
DrainTyped ==
  /\ stage = "trigger"
  /\ stage' = "prompt"
  /\ rx' = <<>>
  /\ UNCHANGED <<age, asked, choice, header, copied, upload, accepted>>

(* Mutant of OpenMenu: the receiver is drained after the menu was printed. *)
DrainThenOpenMenu ==
  /\ stage = "prompt"
  /\ stage' = "menu"
  /\ age' = 0
  /\ rx' = <<>>
  /\ UNCHANGED <<asked, choice, header, copied, upload, accepted>>

(* The menu has been printed, which takes some eight milliseconds at the rate
   of the line.  What arrives meanwhile is read like what arrives later.   *)
OpenMenu ==
  /\ stage = "prompt"
  /\ stage' = "menu"
  /\ age' = 0
  /\ UNCHANGED <<rx, asked, choice, header, copied, upload, accepted>>

(* persistent_uart_ramloader, launch_embedded_recovery and
   launch_embedded_liveboot drain what was typed ahead.  An embedded payload
   that is missing or too large leaves the persistent RAM loader.  (Their
   third way out, an unknown SoC, is dead: head.S passes one of two.)      *)
StartPersistent == stage' = "persistent" /\ rx' = <<>>

Launch(program) ==
  IF BlobSize[program] \in 1..MaxSize THEN stage' = program /\ rx' = <<>>
                                       ELSE StartPersistent

Select(option) ==
  \/ option = "1" /\ StartPersistent
  \/ option = "2" /\ Launch("recovery")
  \/ option = "3" /\ Launch("liveboot")

ChooseOption ==
  /\ stage = "menu" /\ rx # <<>>
  /\ Select(Head(rx).value)
  /\ choice' = Head(rx)
  /\ UNCHANGED <<age, asked, header, copied, upload, accepted>>

(* Mutant of NoChoice: the timer is looked at only when nothing arrived.   *)
NoChoiceWhileQuiet ==
  /\ stage = "menu"
  /\ rx # <<>> => Head(rx).value \notin Options
  /\ rx' = IF rx = <<>> THEN rx ELSE Tail(rx)
  /\ stage' = IF Expired /\ rx = <<>> THEN "check" ELSE stage
  /\ UNCHANGED <<age, asked, choice, header, copied, upload, accepted>>

(* One round of the menu loop without a choice: a byte is read if there is
   one, and the timer is looked at in any case.                            *)
NoChoice ==
  /\ stage = "menu"
  /\ rx # <<>> => Head(rx).value \notin Options
  /\ rx' = IF rx = <<>> THEN rx ELSE Tail(rx)
  /\ stage' = IF Expired THEN "check" ELSE stage
  /\ UNCHANGED <<age, asked, choice, header, copied, upload, accepted>>

-----------------------------------------------------------------------------
(* boot_flash_kernel.                                                      *)

CheckHeader ==
  /\ stage = "check"
  /\ header' \in FlashHeaders
  /\ IF FlashHeaderAccepted(header') THEN stage' = "copy" /\ UNCHANGED rx
                                     ELSE Launch("recovery")
  /\ UNCHANGED <<age, asked, choice, copied, upload, accepted>>

(* Mutant of CopyLine: one line too many.                                  *)
CopyLineTooMany ==
  /\ stage = "copy" /\ copied <= EffectiveSize(header)
  /\ copied' = copied + Line
  /\ UNCHANGED <<stage, age, rx, asked, choice, header, upload, accepted>>

CopyLine ==
  /\ stage = "copy" /\ copied < EffectiveSize(header)
  /\ copied' = copied + Line
  /\ UNCHANGED <<stage, age, rx, asked, choice, header, upload, accepted>>

(* The CRC was accumulated over the header and every line copied.          *)
FinishCopy ==
  /\ stage = "copy" /\ copied >= EffectiveSize(header)
  /\ IF CrcPolicy = "strict" /\ ~header.intact
       THEN Launch("recovery")
       ELSE stage' = "kernel" /\ UNCHANGED rx
  /\ UNCHANGED <<age, asked, choice, header, copied, upload, accepted>>

-----------------------------------------------------------------------------
(* persistent_uart_ramloader.                                              *)

Upload ==
  /\ stage = "persistent"
  /\ \E h \in UploadHeaders :
       /\ upload' = h
       /\ accepted' = UploadHeaderAccepted(h)
       /\ stage' = IF UploadHeaderAccepted(h) THEN "uploaded" ELSE stage
  /\ UNCHANGED <<age, rx, asked, choice, header, copied>>

UploadReturns ==
  /\ stage = "uploaded"
  /\ stage' = "persistent"
  /\ UNCHANGED <<age, rx, asked, choice, header, copied, upload, accepted>>

-----------------------------------------------------------------------------
Init ==
  /\ stage = "probe"
  /\ age = 0
  /\ rx = <<>>
  /\ asked = "none"
  /\ choice = [value |-> "none", early |-> FALSE]
  /\ header = NoHeader
  /\ copied = 0
  /\ upload = NoHeader
  /\ accepted = FALSE

Boot ==
  \/ Trigger \/ NoTrigger \/ DrainTyped \/ OpenMenu \/ ChooseOption \/ NoChoice
  \/ CheckHeader \/ CopyLine \/ FinishCopy

Next == Arrive \/ Tick \/ Boot \/ Upload \/ UploadReturns

Spec == Init /\ [][Next]_vars

(* Stage 1 runs and time passes; no byte and no upload has to arrive.      *)
FairSpec == Spec /\ WF_vars(Boot) /\ WF_vars(Tick)

-----------------------------------------------------------------------------
(* Properties.                                                             *)

(* Types of the variables; the copy never overruns the effective size.     *)
TypeOK ==
  /\ stage \in {"probe", "trigger", "prompt", "menu", "check", "copy", "kernel",
                "persistent", "uploaded"} \union Embedded
  /\ age \in Nat
  /\ rx \in Seq(Received)
  /\ asked \in Options \union {"none"}
  /\ choice \in [value : InputBytes \union {"none"}, early : BOOLEAN]
  /\ header \in Header
  /\ copied \in Nat /\ copied <= EffectiveSize(header)
  /\ upload \in Header
  /\ accepted \in BOOLEAN

(* Memory that stage 1 has written, by copying or by an upload.            *)
Kernel == Bytes(header.load, copied)
Uploaded == IF accepted THEN Bytes(upload.load, upload.size) ELSE {}
Blob == IF stage \in Embedded THEN Bytes(EmbeddedStart, BlobSize[stage]) ELSE {}

(* Whatever header is found in flash or uploaded, rounding and wrap-around
   included, no byte stage 1 writes lies in its own stack or code: under every
   configuration for kernels, whose header is checked against both.  An upload
   is kept off the stack, and an embedded payload off stage 1, only by two
   conditions that the shipped values satisfy and nothing checks.          *)
ReservedIntact ==
  /\ Kernel \intersect (Stack \union Stage1) = {}
  /\ Uploaded \intersect Stage1 = {}
  /\ StackEnd <= RamStart => Uploaded \intersect Stack = {}
  /\ Blob \intersect Stack = {}
  /\ EmbeddedStart + MaxSize <= Stage1Start => Blob \intersect Stage1 = {}

(* Control only ever goes to an address whose bytes have been loaded.      *)
JumpsIntoLoaded ==
  /\ stage = "kernel" => header.entry \in Kernel
  /\ stage = "uploaded" => upload.entry \in Uploaded

(* The copy never reads flash past the slot of the kernel, where the next
   fallback region begins, and a strict build stays below the stock limit. *)
CopyInsideSlot ==
  /\ copied <= HardLimit
  /\ SizePolicy = "legacy-strict" => copied <= LegacyLimit

(* What the menu does is what the first option says that was typed after the
   trigger had been dealt with.  Nothing typed before the drain, the trigger
   among it, selects an option, and no answer to the menu is drained with it
   or passed over, even one that comes while the menu is being printed.    *)
ChoiceExplicit == choice.value # "none" => ~choice.early /\ choice.value = asked

(* If the limits the sender has built in lie within the configured ones, an
   upload it is willing to make is never refused by the loader, though one
   checks it without and the other with wrap-around.                       *)
SenderInside ==
  RamStart <= SenderStart /\ SenderEnd <= Stage1Start /\ SenderMax <= MaxSize
SenderAgrees == SenderInside /\ SenderMakes(upload) => accepted

(* A build without the UART menu (the flash-resident loader of head.S) boots
   every kernel that one with the menu boots.                              *)
LegacyAgrees == stage = "kernel" => LegacyHeaderAccepted(header)

(* Whatever arrives, and it may never stop arriving, the menu comes to an
   end and stage 1 hands control over.                                     *)
BootProceeds == <>(stage \in {"kernel", "persistent", "uploaded"} \union Embedded)
=============================================================================
