------------------------------ MODULE LiveBoot ------------------------------
(***************************************************************************)
(* PMOSLIVE: the command loop with the baud trial (BaudTest) and the       *)
(* LIVEBOOT command, which receives a manifest and a flash image into RAM, *)
(* checks them, moves kernel and root file system to where Linux expects   *)
(* them, and after a confirmation starts Linux at the baseline rate.       *)
(*                                                                         *)
(* RAM is a set of named ranges with what each holds; a write to a range   *)
(* destroys whatever it overlaps.  An object arrives whole or its transfer *)
(* fails (FrameTransfer has the details), which may leave bytes of it on   *)
(* the line or the first byte of a frame pushed back.  Addresses are       *)
(* physical.                                                               *)
(***************************************************************************)
EXTENDS BaudTest, FiniteSets

CONSTANTS
  Packages,      \* packages the host may send
  Models,        \* models of this build's SoC family
  MaxPackages,   \* bound: packages the host sends
  MaxCommands    \* bound: packages and trials together

(* A package: what its checks ask of header, manifest and image.           *)
Package ==
  [id : Nat, header : BOOLEAN, model : STRING, dry : BOOLEAN, manifest : BOOLEAN,
   status : {"validated", "confirmed", "untested", "known-incompatible", "other"},
   force : BOOLEAN, size : Nat, entry : Nat, kernelCrc : BOOLEAN, rootfs : Nat,
   squashfs : BOOLEAN, used : Nat]

ASSUME LiveAssumption ==
  Packages \subseteq Package /\ {MaxPackages, MaxCommands} \subseteq Nat

VARIABLES
  package,    \* target: the package being received
  leftover,   \* target and line: what a failed transfer left behind
  ram,        \* what the ranges of RAM hold
  sent        \* history: packages the host has started to send

liveVars == <<package, leftover, ram, sent>>
vars == <<baudVars, liveVars>>

-----------------------------------------------------------------------------
(* The RAM map.                                                            *)

StagingBase == \h1400000
FullImageSize == \h1000000
ManifestBase == StagingBase + FullImageSize
MaxManifest == 64 * 1024
TestBase == ManifestBase + MaxManifest
TestBytes == 64 * 1024
ProgramBase == \h6c00000
ProgramBytes == \h400000
(* Mutant of RootfsDest: the file system is put where the program runs.    *)
RootfsDestBelow == \h6800000

RootfsDest == \h7000000
RootfsMax == \h800000
LinuxMemory == 120 * 1024 * 1024
KernelDest == \h1000000
KernelSlot == \h2c0000
SpimHeader == 32
ParamsBase == \h400
ParamsBytes == \hc00
ArgvMax == 16
ArgStrings == \h80
Envp == \h200
EnvStrings == \h240

Names == {"vectors", "params", "kernel", "image", "manifest", "test", "program", "rootfs"}

(* No package is being received.                                           *)
NoPackage == [id |-> 0]

(* What a range holds: part of package n > 0, or one of these.             *)
Lost == 0
Vectors == -1
Code == -2
Trial == -3

Extent(lo, bytes, from) == [lo |-> lo, hi |-> lo + bytes, from |-> from]
Overlap(r, s) == r.lo < s.hi /\ s.lo < r.hi

(* The ranges after the given ones have been written, one after another.   *)
Write(name, range) ==
  [o \in Names |-> IF o = name THEN range
                   ELSE IF Overlap(ram[o], range) THEN [ram[o] EXCEPT !.from = Lost]
                   ELSE ram[o]]

-----------------------------------------------------------------------------
(* Checks of the header, the manifest and the image.                       *)

ValidateLiveHeader(p) == p.header /\ p.model \in Models

ModelPermitted(p) ==
  \/ p.status \in {"validated", "confirmed"}
  \/ p.status = "untested" /\ p.force

ValidateLiveManifest(p) ==
  /\ p.manifest
  /\ ModelPermitted(p)
  /\ p.rootfs \in 1..RootfsMax

AlignUp(value) == ((value + 31) \div 32) * 32
KernelCopy(p) == AlignUp(p.size)

SpimAccepted(p) ==
  /\ p.size \in 1..(KernelSlot - SpimHeader)
  /\ KernelCopy(p) <= KernelSlot - SpimHeader
  /\ p.entry \in KernelDest..(KernelDest + KernelCopy(p) - 1)
  /\ p.kernelCrc

SquashfsAccepted(p) == p.squashfs /\ p.used \in 96..p.rootfs

-----------------------------------------------------------------------------
(* The parameters of Linux.                                                *)

Arguments(model) ==
  <<"console=ttyS0,115200n8", "mem=120M", "rd_start=0x87000000", "rd_size=0x00000000",
    "root=/dev/ram0", "rootfstype=squashfs", "ro", "load_ramdisk=1", "prompt_ramdisk=0",
    "ramdisk_size=8192", "postmerkos.live=1", "postmerkos.model=" \o model, "panic=5">>
Environment == <<"memsize=120", "initrd_start=0x00000000", "initrd_size=0x00000000">>

(* The first byte after the strings, each with its NUL.                    *)
StringsEnd(base, strings) == FoldSeq(LAMBDA text, end : end + Len(text) + 1, base, strings)

(* live_add_arg and live_add_env refuse none of them; argv[0] is taken.    *)
ParamsFit(model) ==
  /\ 1 + Len(Arguments(model)) <= ArgvMax - 1
  /\ StringsEnd(ArgStrings, Arguments(model)) <= Envp
  /\ StringsEnd(EnvStrings, Environment) <= ParamsBytes

(* No model of a family has too long a name.                               *)
ASSUME ModelsAssumption == \A model \in Models : ParamsFit(model)

-----------------------------------------------------------------------------
(* The target.                                                             *)

Object(k, id) == [kind |-> k, package |-> id]

Fails(rest) ==
  /\ phase' = "command"
  /\ leftover' = rest
  /\ package' = NoPackage
  /\ Say(Line("error"))

(* What is left on the line of a transfer spoils the next command line.    *)
CommandSpoilt ==
  /\ phase = "command" /\ leftover = "bytes"
  /\ \E n \in 1..2 : TakeLine(n)
  /\ leftover' = "none"
  /\ Say(Line("unknown"))
  /\ UNCHANGED <<phase, hw, current, trial, package, ram>>

LiveCommand ==
  /\ phase = "command" /\ leftover # "bytes"
  /\ TakeLine(1) /\ Head(toTarget).kind = "liveboot"
  /\ phase' = "header"
  /\ Say(Line("live"))
  /\ UNCHANGED <<hw, current, trial, package, leftover, ram>>

(* A byte pushed back earlier counts as the first byte of the header, whose
   own last byte stays on the line.                                        *)
ReadHeader ==
  /\ phase = "header" /\ TakeLine(1)
  /\ LET message == Head(toTarget) IN
     IF leftover = "start"
       THEN /\ phase' = "command"
            /\ leftover' = "bytes"
            /\ Say(Line("error"))
            /\ UNCHANGED package
     ELSE IF message.kind = "header" /\ ValidateLiveHeader(message.package)
       THEN /\ phase' = "manifest"
            /\ package' = message.package
            /\ Say(Line("header-ack"))
            /\ UNCHANGED leftover
     ELSE Fails(IF message.kind = "header" THEN "none" ELSE "bytes")
  /\ UNCHANGED <<hw, current, trial, ram>>

HeaderTimeout ==
  /\ phase = "header" /\ toTarget = <<>>
  /\ Fails("none")
  /\ UNCHANGED <<hw, current, trial, toTarget, ram>>

(* The object did not come, or not intact: what the transfer did write is
   of no use, and nothing is drained.                                      *)
ObjectFails ==
  /\ phase \in {"manifest", "image"}
  /\ \/ toTarget = <<>> /\ UNCHANGED toTarget
     \/ TakeLine(1) /\ Head(toTarget) # Object(phase, package.id)
  /\ \E rest \in {"none", "bytes", "start"} : Fails(rest)
  /\ ram' = IF phase = "manifest"
              THEN Write("manifest", Extent(ManifestBase, MaxManifest, Lost))
              ELSE Write("image", Extent(StagingBase, FullImageSize, Lost))
  /\ UNCHANGED <<hw, current, trial>>

ReceiveManifest ==
  /\ phase = "manifest" /\ TakeLine(1) /\ Head(toTarget) = Object("manifest", package.id)
  /\ ram' = Write("manifest", Extent(ManifestBase, MaxManifest, package.id))
  /\ IF ValidateLiveManifest(package)
       THEN phase' = "image" /\ Say(Line("manifest-accepted")) /\ UNCHANGED <<package, leftover>>
       ELSE Fails("none")
  /\ UNCHANGED <<hw, current, trial>>

ReceiveImage ==
  /\ phase = "image" /\ TakeLine(1) /\ Head(toTarget) = Object("image", package.id)
  /\ ram' = Write("image", Extent(StagingBase, FullImageSize, package.id))
  /\ phase' = "spim"
  /\ Say(Line("image-verified"))
  /\ UNCHANGED <<hw, current, trial, package, leftover>>

(* prepare_live_image: the checks and the first copy.                      *)
CopyKernel ==
  /\ phase = "spim"
  /\ IF SpimAccepted(package) /\ SquashfsAccepted(package)
       THEN /\ ram' = Write("kernel", Extent(KernelDest, KernelCopy(package), ram["image"].from))
            /\ phase' = "rootfs"
            /\ UNCHANGED <<toHost, package, leftover>>
       ELSE Fails("none") /\ UNCHANGED ram
  /\ UNCHANGED <<hw, current, trial, toTarget>>

(* The second copy; a dry run ends here.                                   *)
CopyRootfs ==
  /\ phase = "rootfs"
  /\ ram' = Write("rootfs", Extent(RootfsDest, package.rootfs, ram["image"].from))
  /\ IF package.dry
       THEN /\ phase' = "command"
            /\ package' = NoPackage
            /\ Say(Line("dry-run"))
       ELSE /\ phase' = "confirm"
            /\ Say(Nonced("challenge", package.id, 0))
            /\ UNCHANGED package
  /\ UNCHANGED <<hw, current, trial, toTarget, leftover>>

Confirmed(line) == line = Nonced("bootram", package.id, 0)

ReadConfirmation ==
  /\ phase = "confirm"
  /\ \E n \in 1..2 :
       /\ TakeLine(n)
       /\ IF Confirmed(Heard(n))
            THEN phase' = "launch" /\ Say(Line("confirmed"))
            ELSE Say(Line("rejected")) /\ UNCHANGED phase
  /\ UNCHANGED <<hw, current, trial, package, leftover, ram>>

(* Mutant of Launch: the UART stays at the rate of the transfer.           *)
LaunchAtAnyRate ==
  /\ phase = "launch"
  /\ phase' = "linux"
  /\ ram' = Write("params", Extent(ParamsBase, ParamsBytes, package.id))
  /\ UNCHANGED <<hw, current, trial, toTarget, toHost, package, leftover>>

(* launch_live_linux.                                                      *)
Launch ==
  /\ phase = "launch"
  /\ IF ParamsFit(package.model)
       THEN /\ phase' = "linux"
            /\ ram' = Write("params", Extent(ParamsBase, ParamsBytes, package.id))
            /\ hw' = Baseline
       ELSE phase' = "halted" /\ UNCHANGED <<ram, hw>>
  /\ UNCHANGED <<current, trial, toTarget, toHost, package, leftover>>

(* A byte pushed back counts as the first one of the test data.            *)
SpoiltTrial ==
  /\ phase = "h2t" /\ leftover = "start"
  /\ \E n \in 1..2 : TakeLine(n)
  /\ FallBack
  /\ leftover' = "bytes"
  /\ UNCHANGED <<package, ram>>

LiveTarget ==
  /\ \/ CommandSpoilt \/ LiveCommand \/ ReadHeader \/ HeaderTimeout \/ ObjectFails
     \/ ReceiveManifest \/ ReceiveImage \/ CopyKernel \/ CopyRootfs
     \/ ReadConfirmation \/ Launch \/ SpoiltTrial
  /\ UNCHANGED <<host, lost, orphaned, sent>>

(* run_baud_test; its test data go to TEST_BASE.                           *)
BaudStep ==
  /\ BaudTarget
  /\ phase = "command" =>
       leftover # "bytes" /\ toTarget # <<>> /\ Head(toTarget).kind # "liveboot"
  /\ phase = "h2t" => leftover # "start" \/ toTarget = <<>>
  /\ ram' = IF phase = "h2t" THEN Write("test", Extent(TestBase, TestBytes, Trial)) ELSE ram
  /\ UNCHANGED <<package, leftover, sent>>

Target == LiveTarget \/ BaudStep

-----------------------------------------------------------------------------
(* The host sends a package step by step, as the payload asks for it.      *)

HostPackage ==
  /\ host.state = "idle" /\ sent < MaxPackages
  /\ sent + host.nonce < MaxCommands
  /\ host' = [host EXCEPT !.state = "live"]
  /\ sent' = sent + 1
  /\ Send(Line("liveboot"))
  /\ UNCHANGED toHost

HostAnswers ==
  /\ host.state \in {"live", "answer"} /\ toHost # <<>>
  /\ toHost' = Tail(toHost)
  /\ LET kind == Head(toHost).kind IN
     \/ /\ host.state = "live" /\ kind = "live"
        /\ \E p \in Packages : Send([kind |-> "header", package |-> [p EXCEPT !.id = sent]])
        /\ host' = [host EXCEPT !.state = "answer"]
     \/ kind = "header-ack" /\ Send(Object("manifest", sent)) /\ UNCHANGED host
     \/ kind = "manifest-accepted" /\ Send(Object("image", sent)) /\ UNCHANGED host
     \/ /\ kind \in {"challenge", "rejected"}
        /\ Send(Nonced("bootram", sent, 0)) \/ Send(Line("typo"))
        /\ UNCHANGED host
     \/ /\ kind \in {"error", "unknown", "dry-run", "confirmed", "noise"}
        /\ host' = [host EXCEPT !.state = "idle"]
        /\ UNCHANGED toTarget
     \/ kind \in {"image-verified", "ready", "fallback"} /\ UNCHANGED <<host, toTarget>>
  /\ UNCHANGED sent

(* The host stops waiting.                                                 *)
HostAbandons ==
  /\ host.state \in {"live", "answer"} /\ toHost = <<>> /\ toTarget = <<>>
  /\ host' = [host EXCEPT !.state = "idle"]
  /\ UNCHANGED <<toTarget, toHost, sent>>

Host ==
  /\ \/ HostPackage \/ HostAnswers \/ HostAbandons
     \/ host.state \notin {"live", "answer"}
          /\ ((sent + host.nonce < MaxCommands /\ HostPrepare) \/ HostHears \/ HostNextPass \/ HostSkips) /\ UNCHANGED sent
  /\ UNCHANGED <<phase, hw, current, trial, lost, orphaned, package, leftover, ram>>

Environ == (HostGivesUp \/ HostGoesOn \/ LoseLine) /\ UNCHANGED liveVars

Init ==
  /\ BaudInit
  /\ package = NoPackage
  /\ leftover = "none"
  /\ ram = [o \in Names |->
             CASE o = "vectors" -> Extent(0, ParamsBase, Vectors)
               [] o = "program" -> Extent(ProgramBase, ProgramBytes, Code)
               [] OTHER -> Extent(0, 0, Lost)]
  /\ sent = 0

Next == Target \/ Host \/ Environ

Spec == Init /\ [][Next]_vars
FairSpec == Spec /\ WF_vars(Target)
-----------------------------------------------------------------------------
(* Properties.                                                             *)

(* Types of the variables.  Neither invitations nor announcements of the old
   rate go on for ever, and no step leads out of the phases of the code.   *)
TypeOK ==
  /\ phase \in {"command", "switch", "sync", "h2t", "t2hack", "commit", "fallback",
                "header", "manifest", "image", "spim", "rootfs", "confirm",
                "launch", "linux"}
  /\ leftover \in {"none", "bytes", "start"}
  /\ {hw, current} \subseteq Rates
  /\ phase = "sync" => trial.count \in 1..SyncTries
  /\ phase = "fallback" => trial.count \in 1..Beacons

(* The program survives everything it writes, and as long as it still reads
   the staged image, the image is whole and of the package at hand: no copy
   lands on its source, however large kernel and file system are.          *)
SourcesIntact ==
  /\ ram["program"].from = Code
  /\ phase \in {"spim", "rootfs"} => ram["image"].from = package.id

(* Linux is entered only for a permitted package, confirmed by its own nonce,
   at the baseline rate, with kernel, root file system and parameters of this
   very package intact, none of them outside of what Linux or the exception
   vectors may use, and with the entry point inside the copied kernel.  A
   package that was confirmed is never stopped by parameters too long.     *)
LaunchSound ==
  /\ phase # "halted"
  /\ phase = "linux" =>
       /\ hw = Baseline
       /\ package.model \in Models /\ ~package.dry
       /\ package.status # "known-incompatible"
       /\ package.status = "untested" => package.force
       /\ \A o \in {"kernel", "rootfs", "params"} :
            ram[o].from = package.id /\ ram[o].hi <= LinuxMemory
       /\ ram["kernel"].lo <= package.entry /\ package.entry < ram["kernel"].hi
       /\ ram["vectors"].from = Vectors

(* It is an installation as ConfirmedInstall describes it, of Linux in RAM:
   the challenge goes out only for a package that passed every check, Linux
   is entered only after its answer and with kernel, file system and
   parameters of that package in place, and neither the exception vectors
   nor the program itself are touched before.                              *)
Device == {"vectors", "program", "kernel", "rootfs", "params"}

Fit(p) ==
  /\ p.header /\ p.manifest /\ p.model \in Models /\ ~p.dry
  /\ \/ p.status \in {"validated", "confirmed"}
     \/ p.status = "untested" /\ p.force
  /\ p.kernelCrc /\ p.size \in 1..(KernelSlot - SpimHeader)
  /\ p.squashfs /\ p.used <= p.rootfs /\ p.rootfs <= RootfsMax

Install == INSTANCE ConfirmedInstall WITH
  Offers <- {p \in Package : Fit(p)},
  Wanted <- [p \in Package |->
               [o \in Device |-> CASE o = "vectors" -> Vectors
                                   [] o = "program" -> Code
                                   [] OTHER -> p.id]],
  Protected <- {"vectors", "program"},
  step <- CASE phase = "confirm" -> "offered"
            [] phase = "launch" -> "agreed"
            [] phase = "linux" -> "done"
            [] OTHER -> "idle",
  offer <- package,
  device <- [o \in Device |-> ram[o].from]

ImplementsInstall == Install!Spec

(* No trial and no package holds the payload for ever: it comes back to its
   commands, or waits for the operator, or Linux runs.                     *)
PayloadReturns ==
  phase \notin {"command", "confirm", "linux"} ~> phase \in {"command", "confirm", "linux"}
=============================================================================
