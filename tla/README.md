# Verification of the VCore-III LinuxLoader and its serial recovery

TLA+ models of the boot loader in this repository, from reset to a running
kernel: the loader in flash with its DRAM training, the boot menu and kernel
loader of stage 1, the RAM upload protocol PMOSRAM2 with its host tool, the
firmware recovery payload PMOSREC that rewrites the NOR flash, and the live boot
payload PMOSLIVE, with the transfer protocol and the baud rate trial the two
payloads share. Small instances are checked with TLC; many of the safety
properties are proved for all values of the constants with TLAPS.

    tlc -config MCRamLoader.cfg MCRamLoader.tla      # any run of PROJECT.json
    tlapm RamLoaderProofs.tla                        # any *Proofs module

## 1. The system

Power-on runs the wrapper in flash, which enters one of two copies of
LinuxLoader (`src/head.S`). It maps the devices, trains the DRAM, leaves the boot
mode and copies stage 1 (`src/uart_ramloader.c`) to RAM. Stage 1 looks for a
trigger key for three seconds, shows a menu for five, and then uploads a program
over the serial line, starts an embedded payload, or boots the kernel in flash.
Builds without the menu boot the kernel from `head.S` itself. A loader that
fails goes on to the next region of the flash.

| Component | State | Operations | Talks to |
|---|---|---|---|
| Wrapper and loader in flash, `src/boot_wrapper.S`, `src/head.S`, `src/init*.[hc]` | TLB, control register, DRAM delays, where it runs | dispatch, map, identify chip, train DRAM, leave boot mode, hand over, next region | hardware; stage 1 or a kernel |
| Stage 1 menu and kernel loader, `src/uart_ramloader.c:638-863,1021-1082` | timers, UART FIFO, kernel header, copy position | probe, open menu, choose, check header, copy, CRC, jump | UART, flash, RAM; starts the next ones |
| RAM uploader, `src/uart_ramloader.c:359-545,874-1019` | expected sequence, received size, previous frame, running CRC and SHA-256, destination RAM | header, frame, duplicate, verify, execute, abort and drain | the upload tool, over a lossy byte stream and text lines |
| Upload tool, `tools/uart_ramload_send.py` | frame, offset, attempt, deadline of the current wait | header, send, resend, wait, fail | the RAM uploader |
| PMOSREC, flash side, `payloads/uart-firmware-recovery/recovery.c:690-1202,1798-2068` | flash, staging RAM, device, package | probe, scratch test, package, confirm, erase, program, verify, reboot | SPI NOR, a host program that is not in this repository |
| Object transfer of both payloads, `recovery.c:1383-1658` | window base, retry bitmap, received map, pushback byte | frame, ACK record, confirmation, retry round, drain | the host |
| Baud rate trial of both payloads, `recovery.c:1660-1770` | UART divisor, divisor of the command loop | prepare, sync, test both ways, commit, fall back | the host |
| PMOSLIVE, `payloads/uart-liveboot/liveboot.c` | staging, plan, boot parameters | package, place kernel and root file system, confirm, launch | the host; Linux |
| Manifest parser of both payloads, `recovery.c:366-520` | none | find a member, read a text, a number, a list | the package checks of both payloads |
| Timer, LZ4, CRC-32, SHA-256 | none but the timer's | pure functions | their callers |
| Build, packers, validators, tests | none at run time | checks of configuration and products | |

What is hard here: two programs with timers of their own on a line that loses
bytes and has no framing but position; replies and confirmations that get lost
after the work was done; two ends that change the rate of the line they talk
over; checks in wrapping 32-bit arithmetic that keep a program from overwriting
the code that loads it; images moved inside the RAM they were staged in; a flash
chip that fails silently and a power supply that fails at the worst moment; a
loader that remaps the memory it runs from. `PROJECT.json` lists each hazard at
its line with the properties that would catch it, or with the reason why none
does.

What makes each part correct: an upload is executed only if it is the announced
image, and the tool reports success only then; transfers, trials and tools
always end; a lost reply is repaired; nothing ever overwrites stage 1, its stack
or a running payload, and control goes only to what was loaded; the menu neither
hangs the boot nor takes a key that was not meant for it; flash is not touched
before a verified package was confirmed, and success means that the image is in
flash; both ends come back to one baud rate; Linux starts only with what was
checked; the DRAM is used only when it is sampled right.

## 2. Modules

| Module | Models |
|---|---|
| `VerifiedUpload` | what an upload promises: bytes accumulate, and only the announced image runs |
| `ConfirmedInstall` | what both payloads promise: offer what was checked, change the device only once the operator agreed to it, claim success only for the contents it asks for |
| `RamLoader` | uploader, tool and line; timeouts at any time |
| `RamLoaderTimed` | extends `RamLoader` with the clocks of both ends |
| `LoadRange` | header checks: stage 1, `head.S`, uploads, the sender; pure operators |
| `Stage1Boot` | extends `LoadRange`: probe, menu, kernel copy, payload launch, one upload |
| `FlashRecovery` | PMOSREC, the flash chip, the power supply |
| `FrameTransfer` | the FEATURE command and the transfer of one object, with a host and a line |
| `BaudTest` | the trial of a baud rate, with a host and a line |
| `LiveBoot` | extends `BaudTest`: the command loop of PMOSLIVE, a map of RAM, a host that sends packages |
| `DramTraining` | the delays of the byte lanes and the search for them |
| `LoaderBoot` | extends `DramTraining`: wrapper, loader, TLB, boot mode, regions |
| `PmosTimer` | the millisecond timer over a count that wraps |
| `Lz4Block` | the LZ4 decoder |
| `Lz4Reference` | extends `Lz4Block`: what a block means |
| `ManifestText` | the readers of a manifest, over any text |
| `ManifestReference` | extends `ManifestText`: trees, how they are written, what their members are |
| `RamLoaderProofs`, `Stage1BootProofs`, `FlashRecoveryProofs`, `FrameTransferProofs`, `LiveBootProofs`, `LoaderBootProofs`, `PrimitivesProofs`, `Lz4BlockProofs` | the theorems |
| `MC...` | instances for TLC |

Definitions called mutants in the comments are not part of a model: each is a
plausible bug, substituted for the definition it names to see that a property
notices it.

### RamLoader

The stream to the target is a sequence of tokens: an upload header, a frame
header, or one unit of data. A token that is lost shifts everything behind it,
as a lost byte does, so that data may be read as a frame header. `phase`,
`received`, `expected`, `previous`, `mem` and `hashed` are the locals of
`uart_ramloader_wait_and_run`; `host`, `sequence`, `offset` and `attempt` those
of `main` and `send_frame`. CRC-32 is the sequence of units modulo `CrcMod`, so
units can collide; SHA-256 is equality. Each early return of the C function is
an action (`RejectHeader`, `InvalidFrame`, `TransferTimeout`, `RejectFrame`,
`RejectImage`) that ends in `abort_to_boot`: lines printed, input drained, READY
again. The drain takes an arbitrary part of what is under way, because what
arrives later stays. The tool matches lines as `wait_for` does, by substring
after the prefix list, and ignores the others. `Fault` loses and damages tokens
and lines; `collide` is damage that keeps the CRC, `erode` a NACK line that
reads as an ACK.

### RamLoaderTimed

One tick is a second with the shipped values. `targetClock` is the timer of the
current `uart_recv_exact`, `hostClock` the deadline of the current `wait_for`;
a line that the tool ignores does not extend its deadline. `Tick` happens only
when neither end has anything to read: at 115200 baud and with both programs
idle, what has arrived is handled in far less than a second.

### LoadRange and Stage1Boot

`LoadRange` has the checks in the order and arithmetic of the code: `Add` wraps
at `Word`, and so does the rounding of sizes to lines in `boot_flash_kernel`.
`LayoutAssumption` is what `scripts/check_config.py` enforces, besides the end of
the stack, a literal. It does not enforce that the RAM range begins above the
stack: with the permitted `RAM_START = 0x80000000` `validate_header` would let an
upload overwrite it (the shipped value is `0x81000000`). Nor is the literal address
of the embedded payloads, `0x86c00000`, tied to `RAM_END`, where stage 1 lies.
Both are conditions in `ReservedIntact`, not assumptions. The sender's limits are
literals too, and have constants of their own: 4 MiB, `0x81000000` and
`0x87F00000` are the shipped values of the loader, but a loader configured
otherwise may refuse what the tool makes (`SenderInside`).

`Stage1Boot` goes from the probe to the jump: `Tick` ages the running timer and
`Arrive` delivers a byte; every other action is a branch of `uart_stage1_main` or
`boot_flash_kernel`; the copy advances a line at a time. The menu takes three steps
to open, and bytes arrive before each: the trigger is reported, the receiver is
drained (`DrainTyped`), the menu is printed and its timer started (`OpenMenu`). A
byte remembers whether it came before the drain, and `asked` which option came
first after it.

### FlashRecovery

Flash and staging buffer are functions from pages to contents (what part of
which release). Erasing blanks a sector; programming changes only blank pages
and otherwise leaves a bad one. `EraseChip` and `ProgramChip` are one operation
of the chip with everything the code looks at afterwards (write enable, wait,
status and flag registers) as `ok`. A faulty operation may be refused, may leave
a bad page with or without telling, or may hit another address. `PowerCut` may
come at any moment and damages a page of the operation in progress. `PowerUp` is
allowed with any flash: whether a damaged boot loader still boots is not
modelled, which only adds behaviours. A package is a record of what its
validations ask: the digests and the model status it declares and a boolean for
each group of further checks; manifests that the first and the second
validation treat differently are among the instances. The transfer of an object
delivers it or fails; a delivered buffer that differs is caught by the digest.
Two bad pages are not told apart.

`Install` is the refinement mapping to `ConfirmedInstall`. The device is the
flash, an offer is a package; asking for the confirmation is making the offer,
erasing, programming and verifying are the agreed change, and the reboot claims
success. Everything else is waiting, in which the boot loader's pages are
protected (from a chip that writes where it is told to). `Fit` says what may be
offered, from the package alone, not from the checks that lead there.

### FrameTransfer

The stream to the target is cut where the target can be misled: the confirmation
byte 0xA5; the byte `P`, with which both a frame (`PKF3`) and a command line
(`PMOS3`) begin; the rest of a header; data; the rest of a command line. `Stream`
is what `recv_exact` sees, the byte pushed back first; the line reader does not
see it. `obj` holds the locals of `receive_v3_object` and `send_ack_record`:
window base, position, round, bitmap, attempt, and `effort`, a count of the frame
reads and ACKs since the deadline was last looked at. `stored` says for each slot
which test its data are of. A timeout while the host still has something to send
or to read counts as the fault `late`. The drain ends only when nothing is under
way (`uart_drain_until_idle` waits for silence). The host sends a window, obeys
the ACK of the window it is in, confirms repeated ones, and may give up, be late
or vanish. `MaxWindow` is the largest window a host may ask for.

### BaudTest and LiveBoot

A line that is sent while the two ends run at different rates arrives as noise,
and noise before a line spoils it. `hw` is the divisor in the UART and `current`
the one the command loop believes in. The host follows `BAUD-PREPARED`, answers
the invitations at the new rate, proves both directions, commits, and when it
stops waiting goes back to the old rate and looks for the target there.

`LiveBoot` puts the trial into the command loop of `liveboot_main`, beside
LIVEBOOT. RAM is a set of named ranges with their addresses from `liveboot.c`; a
write destroys whatever it overlaps, in the order of the copies. A package is a
record of what the checks ask, with true sizes and addresses. The boot
parameters are the strings of the code, measured. A transfer that failed may
leave bytes on the line or a byte pushed back (`leftover`).

Here the device of `ConfirmedInstall` is the RAM that Linux finds: vectors,
program, kernel, root file system and parameters. The challenge makes the offer,
its answer is the agreement, and Linux runs when the device holds what the
package asks for. Vectors and program are the protected part.

### DramTraining and LoaderBoot

Each byte lane has an eye, the delays at which a read returns what was written;
before it a read returns nothing in particular, behind it the next byte of the
burst, and on the edge of it a glitch. `LookFor`, `Train` and `TestMemory` are
`lookfor_and_incr`, the loop of `init_memory_subsystem` and `test_memory`.
`LoaderBoot` goes from the vector through `init_system_jaguar1` and
`init_system_luton26` in turn. A TLB entry matches pairs of pages as `create_tlb`
makes them; at reset its contents match everything. `control` holds the bits of
the control register that the code sets or tests. A kernel is bad, stays, or
comes back.

### PmosTimer, Lz4Block and Lz4Reference

`Poll(gap)` is `timer_expired` any number of ticks after the last poll, with the
difference of two counts in arithmetic modulo `Wrap`. `Lz4Block` has an action
for each thing the decoder reads; `Nibble` is half a byte, so that tokens,
extension bytes and two-byte offsets keep their shape with small numbers.
`Lz4Reference` defines what a list of sequences stands for and how it is written.

### ManifestText and ManifestReference

The parser of the payloads builds no tree. A value is found by scanning the text
of an object for a key at the depth of its direct members, and an object inside
it is again a text: the one between its braces, without them, which is why the
depth looked for depends on how the text begins. `Nesting` is that scan, the
readers are functions of a text. Numbers are read modulo `Word` with the overflow
test of the code; one that does not fit may be refused or come out wrapped, and
`MembersRead` asks only that those that fit are read right. The loop of
`json_array_contains_string` is the sequence of its turns (`Turns`), each from one
comma to the next. `ManifestReference` says how a tree is written, with white
space around its marks, and what a member of it is. `Values` is any set of trees
with all their parts; each carries its text, and `AreTrees` says that it is the
right one, so that no definition descends into a tree.

## 3. Runs

| Run | Instance | Shows |
|---|---|---|
| `upload` | 5 units in 3 frames, the last one short, 1 retry, every fault, 2 faults, 2 runs of the tool; 869 060 states | `ExecSound`: only the announced image runs. `HostSound`: success means it was executed. `HostInSync`, `StoredInPlace`: both ends agree on the frame, every unit lies in its place. `ImplementsUpload`: refinement of `VerifiedUpload` |
| `upload_liveness` | 3 units, 2 retries, ACK timeout below the target's, 2 faults, fair | `UploadEnds` for target and tool; `RetriesSuffice`: lost replies and damaged frames up to the number of retries are survived |
| `upload_shipped` | the shipped timeouts, one lost reply | violates `RetriesSuffice` (section 6) |
| `stage1_loads` | 256-byte address space, 8 841 kernel and 448 upload headers around every boundary, wrapping ones included; the sender's limits as shipped | `ReservedIntact`, `JumpsIntoLoaded`, `CopyInsideSlot`, `SenderAgrees` |
| `stage1_boot` | strict policies, four kinds of input at any time, also between the drain and the menu, three bytes waiting | `ChoiceExplicit`: the first option after the drain is the one that counts; `BootProceeds`; `LegacyAgrees` with `head.S` |
| `stage1_permissive` | permissive policies | violates `LegacyAgrees` (section 6) |
| `flash_faults` | 6 pages, 3 sectors; packages wrong in one respect each, every scratch address; 1 refused or bad chip operation, 1 power cut | `FlashUntouched` before the confirmation; `ImplementsInstall`: refinement of `ConfirmedInstall` |
| `flash_ends` | one good package; 2 chip faults of any kind, stray writes included, 1 power cut, fair | `TestSound`, `SuccessInstalled`, `OperationsEnd` |
| `transfer` | 2 tests of 3 frames, windows of 1 and 2, 2 rounds, 2 ACK attempts, 2 faults of any kind, fair | `WindowStored`, `AckHeardFirst`, `LostConfirmHarmless`, `NoStalePushback`, `TestEnds`; `TypeOK` bounds the effort between two looks at the deadline |
| `payload` | 20 packages, 2 rates, 2 trials of 2 passes, 3 commands, a lost line, fair | `RatesAgree`, `RateProven`; `SourcesIntact`, `LaunchSound`; `PayloadReturns` |
| `loader` | 3 chips, 5 eyes for each lane, 2 regions with 3 kinds of kernel, 2 glitches, 6 TLB entries, fair | `AccessMapped`, `DramSampledRight`, `LoaderEnds` |
| `primitives` | a count that wraps at 16, 3 ticks per millisecond, a limit of 9; every block of up to 7 bytes of 4 values and longer ones; documents of up to two members, with objects in objects, texts that look like keys, braces and escapes, with and without white space, numbers around a word of 64 | `TimerExact`, `DecodedRight`, `MembersRead` |

Where a run also checks `TypeOK`, the invariant says more than types: that a
retry, round, invitation, page or line is never one too many. The types of
`LoaderBoot` are proved only.

Bounds. `MaxFaults`, `MaxRuns`, `MaxTests`, `MaxCuts`, `MaxLost`, `MaxTrials`,
`MaxPackages`, `MaxCommands` and `MaxGlitches` bound faults, restarts and
commands of a behaviour. Two faults are enough for the combinations that matter:
a reply lost and its repetition damaged, a confirmation lost and a frame
damaged, a scratch test that fails and whose restore fails too, an erase and a
program operation gone astray. Three frames give a first, a last and one in
between, and with windows of two a window that is not full. Two runs, tests or
trials are what it takes for the lines of one to reach the next. In `Stage1Boot`
the address space is scaled down so that each limit has headers below, at and
above it; `RxDepth` bounds the FIFO. Six pages are the boot loader's sector, the
kernel's, the root file system's, with two pages each so that a sector has a
page that is not its first. The eyes lie at the low end, in the middle and at
the high end of nine delays, as wide as the step back or too narrow. Blocks of
seven bytes hold a literal run, a copy with an extension and a second token.

Deadlock is not checked where the system stops on purpose: the tool has exited
and the line is empty, a kernel runs, PMOSREC has halted, the timer has expired,
or the bounded number of faults, commands or regions is used up.

Fairness. Every fair action is a step of a program that runs alone and never
waits for anything but its timers. `FairTimedSpec`: both programs run when they
can and time passes; the programs busy-wait or block in `select`, nothing else
runs on the target. `FairSpec` of `Stage1Boot`: the program and its timers; of
`FlashRecovery`: the steps of a test and of a rewrite, each of which waits for
the chip with a timeout (`spi_wait_ready`; the wait is one step of the model and
ends); of `FrameTransfer`: the target and a
host that has not vanished; of `LiveBoot`: the target alone; of `LoaderBoot`: the
loader, and the return of a kernel that does return. Faults, reruns, input,
commands, packages, confirmations, the return of stage 1 and the deadline of an
object are not fair.

## 4. Proofs

The theorems hold for all values of the constants that satisfy the named
assumptions, thus for any image, chunk size, address layout, flash geometry, any
set of packages, boards and blocks and any number of faults.

`RamLoaderProofs`. `Inv` adds to `TypeOK` that what has been hashed is what lies
in memory (`StoredIsHashed`), without which "the digest matched" would say
nothing about memory. It yields `ExecutionSound`; `Refinement` shows that every
step of target, tool and line is a step of `VerifiedUpload` or a stutter. That
frame headers are not checksummed does not matter to either. Three further
invariants follow the line. `TellsSound`: an EXEC on its way to the tool is of
this run (`SuccessEarned`). `PlaceInv`: frame `s` is sent from place
`s * ChunkSize`, every frame header on the line is one that was sent, and the
target expects the frame that belongs where it has stored up to
(`EachInItsPlace`). `TurnsInv`: an answer names a frame but no transfer, so the
tool is right only if there is one transfer at a time; the right to open one is a
READY with no ABORT before it, then the header sent for it, then the open
transfer, and never more than one of the three (`NeverAhead`).

`TimersOnlyRestrict` carries all of this over to `RamLoaderTimed`, and
`RetriesAreEnough` proves `RetriesSuffice` there, for every image, number of
retries and setting of the timers, from two conditions. The ACK timeout is below
the target's block timeout: what the shipped values break (section 6). And the
CRC tells a damaged unit from any unit of the image (`GarbageSeen`): where it does
not, the digest refuses the image and no retry helps. The invariant is
`CalmLockStep`: while the line only damages data and loses ACKs and NACKs, the
upload goes through ten stages, from `Asking` (READY is on the line) over `Sent`,
`Acked`, `Nacked` and `Unheard` for each frame to `Executing`. In all but `Unheard`
somebody has something to read and both clocks stand at zero; in `Unheard` the
target's clock is not ahead of the tool's, so the tool resends first. Every
attempt has been paid by a fault, and a frame that is damaged, refused or
unanswered by one more, so there is a retry left to resend it. There is one lemma
per stage, saying which stages may follow.

`Stage1BootProofs`. `Inv` adds to `TypeOK` that the copy stands at a whole line
(`WholeLinesCopied`) and that a header in use passed its checks (`Accepted`).
`RoundUpBounds` and `NoWrap` carry the arithmetic: a size that is let through
does not wrap when it is rounded, a range whose end does not come before its start
has not wrapped. It yields `StageSurvives`, `EntryLoaded` and `SlotRespected`.
`WrapRefused` says that a size just below 2^32 rounds to 0 and is refused by the
check of the entry as well, so that the check of line 693 is a second barrier and
dropping it alone would change nothing. `KeyIsMeant` rests on `MenuSound`: after the
drain no byte that came before it is left in the FIFO, and the first option that has
come is the first one in it, or none has. `UploadsAgreed` (for layouts that contain
the sender's limits) and `StrictLegacyBoots` compare the checks of sender, stage 1
and `head.S` for every header.

`FlashRecoveryProofs`. `SafetyInv` adds that package and staging buffer are what
the stage presupposes and stay so once confirmed (`PhasesOK`), that the backup of
a test is intact (`BackupOK`), and that pages compared stay equal
(`ComparedOK`). It yields `RecoveryUntouched`, `RecoveryTestSound`,
`RecoveryPermitted` and `RecoveryInstalled`. The proof of `RecoveryInstalled`
uses nothing about the chip: it is the comparison at the end that counts, and
the incomplete check after an erase does no harm. `RecoveryInstalls` goes through
the actions and names for each the step of `ConfirmedInstall` it is: that a test
or a power cut in it leaves the loader alone is `TestLocal` and `CutLocal`, that
the package offered is fit and stays so is in `PhasesOK`, and that the flash is
its image at the reboot is `ComparedOK`.

`LoaderBootProofs`. `DramIsSampledRight` rests on `DramInv`: once training is
done, or the boot mode has been left, every lane is inside its eye, because
`InitMemory` starts a training only in boot mode and only a passed test ends one.
`AccessIsMapped` rests on `TlbInv`: from the end of `MapIo` on the first entries
are the mapping and all others unused, and rewriting the DRAM entry or keeping
the TLB in a later region preserves that.

`PrimitivesProofs`, the timer. `TimerIInv` says that the timer's milliseconds and
remainder are the ticks since its start less the turns missed; `TimerIsExact`
follows for every width of the counter. The lemmas are the facts about quotients
and remainders that the prover does not find alone.

`PrimitivesProofs`, the manifest. `ManifestRead` proves `MembersRead` for every set
of trees, keys without escapes, any white space, any buffer sizes and any `Word`.
The invariant is `TextIs`: the text at hand is that of `node`, either in white space
or, for an object that was descended to, what stands between its braces. All else
is about texts. `Reading` a text from a place outside strings comes back to that
place and is never less deep in between, for every tree: induction over the
length of the text, because the parts of a tree have shorter texts. So the only
quotes that are direct and followed by a key and a colon are those of the
members (`OnlyKeys`): a text inside a value is one level too deep, that of a member's
value has a comma, a brace or the end behind it. Then the first of them is the first
member of that name (`FindValueIs`), and one lemma per reader says what it makes of
the value there: `StringRead`, `U32Read`, `TrueRead`, `ListRead`, `ObjectRead`; the brace
that closes an object is the first one outside strings at its depth by the same
fact about `Reading`.

`FrameTransferProofs`, for any number of frames, rounds and attempts and any
windows. `IInv` says that what is under way, stored and waited for is of one test
as long as the host gives none up (`OneTest`), and that what the window has moved
past is stored (`TakenStored`); it yields `WindowsStored`. `InStep` describes the
line while nobody is late and nobody gives up: what the host has still to send,
what is under way and what the target has still to read are the slots of one
round, and the host's window is the target's or, once it has heard the ACK, the
next (`AcksHeardFirst`, `NoPushbackLeft`). `NothingRefused` adds, when only
confirmations are lost, that the stream is at most one confirmation followed by
whole frames in order; the byte pushed back is the first of one of them, and each
attempt at the ACK has cost a confirmation (`LossesHarmless`).

`LiveBootProofs`, for any rates, packages and number of trials. Of its `IInv` the
part about the trial says that trials are asked for in the order of their nonces
and nothing is said of one before it (`NoncesGrow`), and what the two ends know
of the trial they are in and of its commitment (`TrialShared`, `CommitShared`);
it yields `EndsAgree` and `KeptRateProven`. The part
about RAM says for each phase which ranges hold what, the loaded program and the
vectors among them; that the ranges the copies write do not overlap what is still
read is arithmetic over the addresses and limits of the code. It yields
`CopiesApart`, `LinuxEntered` and `LiveInstalls`, the refinement of
`ConfirmedInstall` (this one is proved only).

`Lz4BlockProofs`, for blocks of any length and any base of the digits. `IInv`
adds to `InBounds` the types of the decoder's locals. `DecodedRight` compares the
decoder, which reads forward, with lists of sequences, and has two invariants.
`Told`: what has been read is the writing of a list of whole sequences and of the
beginning of another, one form for each phase, and the output is what they mean;
so what the decoder is done with some list means. `Followed`: for every list the
block was written from that means something within the frame, what lies ahead is
the rest of its writing; so no check refuses it. Together they also say that two
lists with one writing have one meaning (`BlockOneMeaning`). Extension bytes,
copies that run into what they write, and the two last forms of a list are all in
it. `BlockDecodedRight` asks that the constant `Lists` leaves out no list that a
block could have been written from; `AllBlocksDecodedRight` is the case of all
lists. The recursive functions of `Lz4Reference` are handled without the library's
induction theorems, whose operator parameter the provers cannot instantiate:
`Induct` is induction over a set of numbers, derived from the cardinality of
finite sets, and `Recursion` says that functions defined by recursion exist.

Every invariant and every refinement that a run checks is a theorem, and so is
`RetriesSuffice`. Only model-checked: the liveness properties `UploadEnds`,
`BootProceeds`, `OperationsEnd`, `TestEnds`, `PayloadReturns` and `LoaderEnds`, which rest
on fairness and are out of the prover's reach.

## 5. Not modelled

- CRC-32 and SHA-256 at the level of bytes: CRC collides or notices the damage,
  SHA-256 does not collide.
- The manifest's text in the models of the payloads, which take a package as a
  record of what their checks ask; that the readers find what the text says is
  the subject of `ManifestText`. Hexadecimal digests are compared as values.
- The arithmetic of BAUD-OFFER, which changes no state.
- Register sequences for clocks, pins, memory controller, MII and board: their
  correctness is that of hardware that is not described here. The waits for PLL,
  ZCAL and INIT_DONE have no timeout in the code; the models take them to end.
- Cache operations and UART line errors (a line error is a damaged token).
- What lies behind the last region: `loader_fail` goes on past it, and with
  further regions past the 32 MB that are mapped.
- Packages over `FrameTransfer` in place of a transfer that delivers or fails:
  the product of the two is too large to be checked.
- Boot menu tool, packers, validators, build scripts and tests: straight-line
  programs without protocol state.

## 6. Where code and documents disagree, and what the models brought to light

Shown by a run:

- `upload_shipped`. `README.md:131` promises retries, and `send_frame` resends
  after 5 s without an ACK; but the target waits 3 s for the next frame header
  and then aborts the transfer. One lost reply ends the upload.
- `stage1_permissive`. `README.md:92` says that permissive builds round a size
  that is no multiple of 32; those builds have no stage 1, and `head.S:316-318`
  refuses it.

Limits of the protocols, stated as conditions in the properties that hold:

- The answers of PMOSRAM2 carry no mark of the transfer they belong to. If the
  ABORT lines of an abandoned transfer get lost and the tool is started again
  while an old upload header is still on the line, it takes the lines of the
  transfer which that header opens for those of its own, and its frames for
  accepted (`HostInSync`; it takes two lost lines and a fourth run, more than the
  run `upload` has). The digest and the sequence numbers keep that harmless to
  what is executed (`ExecSound`, `HostSound`).

- A frame carries no mark of the test it belongs to. If the host gives up a test
  and starts another, frames of the first may be stored as frames of the second;
  only the digest over the object notices (`WindowStored`).
- The host has to confirm a repeated last ACK although it has obeyed it already.
  If host or line are late, a stale `P` or 0xA5 can confirm an ACK that was never
  heard (`AckHeardFirst`), and with windows of more than one frame a late
  confirmation fails the object.
- "A lost one-byte ACK confirmation cannot corrupt the next frame" (payload
  README) holds for fewer losses than there are attempts (`LostConfirmHarmless`).
- A host that stops waiting for `BAUD-COMMITTED` after it has sent `BAUD-COMMIT`
  may be left at the old rate while the target keeps the new one (`RatesAgree`);
  no exchange of finitely many messages over a lossy line avoids that.
- LIVEBOOT, unlike FEATURE, neither drains the line nor clears the byte pushed
  back after a failed transfer (`liveboot.c:582-597`): the next command or header
  is refused, and the one after it works (`PayloadReturns`).
- `head.S:161-163` asks the whole control register for the boot mode. On Jaguar1
  `init_pi` has set the bit of the PI master by then, so a loader in a fallback
  region re-enters stage 1 and clears that bit, while on Luton26 it goes on with
  the legacy loader. Both boot (`LoaderEnds`).
- Stage 1 takes its choice from whatever arrives after the drain: an option typed in
  the milliseconds in which the menu is being printed counts (`ChoiceExplicit`).
- DRAM training is repeated for ever on a lane it cannot train: one whose eye is
  narrower than the three steps it goes back, or reaches the last delay.
- The timer loses whole turns of the counter, some 20 s at 208 MHz, that pass
  between two polls (`TimerExact`); the deadline of an object is looked at once
  per window.
- The LZ4 decoder takes blocks that end with a copy, which the format's end
  conditions do not allow; what it makes of them is what they say
  (`DecodedRight`).

Seen while reading, without a run:

- `CHANGELOG.md:54` and `README.md:224` say that invalid menu input continues the
  boot; `uart_stage1_main` ignores it until the timeout.
- `tools/uart_boot_menu.py:30` waits for `PMOSREC READY 2`; PMOSREC prints
  `READY 3`.
- `payloads/uart-firmware-recovery/README.md` gives the entry `0x81000000`; the
  embedded payload is linked and started at `0x86c00000`.
- The first manifest validation accepts a model status it does not know, the
  second refuses it, after the image has been transferred.

## 7. Plan

Done: the models of section 2 with their runs, and the proofs of section 4. Left:
BAUD-OFFER, the nearest divisor and the products of clock and rate
(`recovery.c:1296-1304`).
