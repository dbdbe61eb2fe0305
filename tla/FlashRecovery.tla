--------------------------- MODULE FlashRecovery ---------------------------
(***************************************************************************)
(* The firmware recovery payload PMOSREC (recovery.c) and the NOR flash it *)
(* rewrites: probing the chip, the scratch-sector test, the package (its   *)
(* manifest, then its image), the confirmation, and erasing, programming   *)
(* and verifying the whole flash, with a power supply that may fail in     *)
(* between.  The framing that carries the objects of a package across the  *)
(* line is left out: a transfer delivers the announced object or fails.    *)
(*                                                                         *)
(* Flash and the staging buffer are functions from page numbers to         *)
(* contents.  Erasing makes the pages of a sector blank; programming can   *)
(* only clear bits, so only a blank page takes new contents.               *)
(***************************************************************************)
EXTENDS Integers

CONSTANTS
  Pages,          \* pages in the flash (FULL_IMAGE_SIZE / page_size)
  SectorPages,    \* pages in a sector (erase_size / page_size)
  LoaderPages,    \* pages of the boot loader region (LOADER_REGION_SIZE)
  KernelPage,     \* KERNEL_OFFSET
  RootPage,       \* ROOTFS_OFFSET
  Factory,        \* what the flash holds when it is delivered
  Packages,       \* packages the host may send
  Strays,         \* contents a damaged image transfer may leave in staging
  Scratches,      \* addresses a PREFLIGHT command may name
  Faults,         \* the kinds of chip fault that may occur
  MaxFaults,      \* bound: chip faults in a behaviour
  MaxCuts         \* bound: power cuts in a behaviour

Address == 0..(Pages - 1)
Loader == 0..(LoaderPages - 1)
Sector(a) == a..(a + SectorPages - 1)
SectorStarts == {a \in Address : a % SectorPages = 0}

(* The contents of a page: what it is part of, and of which release.  Bad
   contents are nobody's; two bad pages are not told apart.                *)
Content == [kind : {"loader", "kernel", "rootfs", "data", "pattern", "blank", "bad"},
            release : Nat]
Blank == [kind |-> "blank", release |-> 0]
Bad == [kind |-> "bad", release |-> 0]
Pattern == [kind |-> "pattern", release |-> 0]

FlashImage == [Address -> Content]

Statuses == {"validated", "confirmed", "untested", "known-incompatible", "other"}

(* A release manifest: the digests and the model status it declares, and
   whether what each of the two validations wants besides is there.        *)
Manifest ==
  [image : FlashImage, loader : [Loader -> Content], status : Statuses,
   operations : SUBSET {"flash", "dry-run"},
   first : BOOLEAN, second : BOOLEAN, geometry : BOOLEAN]

Package ==
  [valid : BOOLEAN, dryRun : BOOLEAN, force : BOOLEAN, image : FlashImage,
   manifest : Manifest]

ASSUME GeometryAssumption ==
  /\ {Pages, SectorPages, LoaderPages, KernelPage, RootPage} \subseteq Nat
  /\ SectorPages > 0 /\ Pages % SectorPages = 0
  /\ 0 < LoaderPages /\ LoaderPages < Pages /\ LoaderPages % SectorPages = 0
  /\ KernelPage \in Address /\ RootPage \in Address
ASSUME ContentAssumption ==
  /\ Factory \in FlashImage
  /\ Packages \subseteq Package
  /\ Strays \subseteq FlashImage
  /\ Scratches \subseteq Nat
ASSUME FaultAssumption ==
  Faults \subseteq {"refuse", "weak", "stray"} /\ MaxFaults \in Nat /\ MaxCuts \in Nat

VARIABLES
  stage,       \* what the payload is doing
  flash,       \* contents of the flash
  staging,     \* the staging buffer in RAM
  package,     \* header and manifest of the package offered last
  cursor,      \* page reached by the current loop
  scratch,     \* scratch_address of the current test
  testOk,      \* test_ok of the current test
  report,      \* result of the last scratch test
  confirmed,   \* history: the confirmation was given since power-up
  before,      \* history: flash at power-up or when the last test began
  faults,      \* chip faults so far
  cuts         \* power cuts so far

sessionVars == <<package, confirmed, before, cuts>>
testVars == <<scratch, testOk, report>>
vars == <<stage, flash, staging, package, cursor, scratch, testOk, report,
          confirmed, before, faults, cuts>>

-----------------------------------------------------------------------------
(* The chip.  ok is what write enable, the wait and the status registers
   tell the program.                                                       *)

Erased(a) == [p \in Address |-> IF p \in Sector(a) THEN Blank ELSE flash[p]]

Programmed(old, new) ==
  IF old = Blank THEN new ELSE IF new \in {Blank, old} THEN old ELSE Bad

(* A faulty operation is refused; or it leaves a bad page, which the chip
   may or may not report; or it hits another address.                      *)
Faulty(kind) == kind \in Faults /\ faults < MaxFaults /\ faults' = faults + 1

EraseChip(a, ok) ==
  \/ ok /\ flash' = Erased(a) /\ UNCHANGED faults
  \/ Faulty("refuse") /\ ~ok /\ UNCHANGED flash
  \/ Faulty("weak") /\ \E p \in Sector(a) : flash' = [Erased(a) EXCEPT ![p] = Bad]
  \/ Faulty("stray") /\ ok /\ \E b \in SectorStarts : flash' = Erased(b)

ProgramChip(p, new, ok) ==
  \/ ok /\ flash' = [flash EXCEPT ![p] = Programmed(flash[p], new)] /\ UNCHANGED faults
  \/ Faulty("refuse") /\ ~ok /\ UNCHANGED flash
  \/ Faulty("weak") /\ flash' = [flash EXCEPT ![p] = Bad]
  \/ /\ Faulty("stray") /\ ok
     /\ \E q \in Address : flash' = [flash EXCEPT ![q] = Programmed(flash[q], new)]

-----------------------------------------------------------------------------
(* Power, and the probing of the chip by recovery_main.                    *)

(* Whether the boot loader that is in flash still boots is not asked: every
   flash may find its way to the payload.                                  *)
PowerUp ==
  /\ stage \in {"off", "reboot"}
  /\ stage' = "probe"
  /\ confirmed' = FALSE
  /\ before' = flash
  /\ report' = "none"
  /\ UNCHANGED <<flash, staging, package, cursor, scratch, testOk, faults, cuts>>

(* Pages that the operation in progress may leave half done.               *)
InFlight ==
  CASE stage = "erase" -> Sector(cursor)
    [] stage = "program" -> {cursor}
    [] stage \in {"test-erase", "restore-erase"} -> Sector(scratch)
    [] stage \in {"test-program", "restore-program"} -> {scratch + cursor}
    [] OTHER -> {}

PowerCut ==
  /\ stage # "off" /\ cuts < MaxCuts
  /\ stage' = "off"
  /\ \/ UNCHANGED flash
     \/ \E p \in InFlight : flash' = [flash EXCEPT ![p] = Bad]
  /\ cuts' = cuts + 1
  /\ UNCHANGED <<staging, package, cursor, testVars, confirmed, before, faults>>

(* The chip answers, is known, idle, unprotected and without error flags;
   otherwise the payload halts.                                            *)
Probe ==
  /\ stage = "probe"
  /\ stage' \in {"command", "halted"}
  /\ UNCHANGED <<flash, staging, cursor, testVars, sessionVars, faults>>

(* Mutant of ScratchAllowed: the boot loader's sectors too.                *)
ScratchAnywhere(a) == a <= Pages - SectorPages /\ a % SectorPages = 0

-----------------------------------------------------------------------------
(* PREFLIGHT: spi_scratch_preflight.                                       *)

ScratchAllowed(a) ==
  /\ a >= LoaderPages
  /\ a <= Pages - SectorPages
  /\ a % SectorPages = 0

(* The original contents of the sector go to the start of the staging
   buffer.  A request for any other address only prints an error.          *)
StartTest ==
  /\ stage = "command"
  /\ \E a \in Scratches :
       /\ ScratchAllowed(a)
       /\ scratch' = a
       /\ staging' = [p \in Address |-> IF p < SectorPages THEN flash[a + p]
                                                           ELSE staging[p]]
  /\ stage' = "test-erase"
  /\ before' = flash
  /\ cursor' = 0
  /\ testOk' = TRUE
  /\ report' = "testing"
  /\ UNCHANGED <<flash, package, confirmed, faults, cuts>>

(* Mutant of NextPage: one page too many.                                  *)
PageTooMany(here, next) ==
  IF cursor < SectorPages THEN stage' = here /\ cursor' = cursor + 1
                          ELSE stage' = next /\ cursor' = 0

(* However the test goes, the sector is then restored.                     *)
Restore(ok) == stage' = "restore-erase" /\ testOk' = ok /\ cursor' = 0

NextPage(here, next) ==
  IF cursor + 1 < SectorPages THEN stage' = here /\ cursor' = cursor + 1
                              ELSE stage' = next /\ cursor' = 0

EndTest(result) == stage' = "command" /\ report' = result /\ cursor' = 0

SectorBlank == \A p \in Sector(scratch) : flash'[p] = Blank

TestErase ==
  /\ stage = "test-erase"
  /\ \E ok \in BOOLEAN :
       /\ EraseChip(scratch, ok)
       /\ IF ok /\ SectorBlank
            THEN stage' = "test-program" /\ cursor' = 0 /\ UNCHANGED testOk
            ELSE Restore(FALSE)
  /\ UNCHANGED <<staging, scratch, report, sessionVars>>

TestProgram ==
  /\ stage = "test-program"
  /\ \E ok \in BOOLEAN :
       /\ ProgramChip(scratch + cursor, Pattern, ok)
       /\ IF ok THEN NextPage("test-program", "test-verify") /\ UNCHANGED testOk
                ELSE Restore(FALSE)
  /\ UNCHANGED <<staging, scratch, report, sessionVars>>

TestVerify ==
  /\ stage = "test-verify"
  /\ Restore(\A p \in Sector(scratch) : flash[p] = Pattern)
  /\ UNCHANGED <<flash, staging, scratch, report, sessionVars, faults>>

RestoreErase ==
  /\ stage = "restore-erase"
  /\ \E ok \in BOOLEAN :
       /\ EraseChip(scratch, ok)
       /\ IF ok /\ SectorBlank
            THEN stage' = "restore-program" /\ cursor' = 0 /\ UNCHANGED report
            ELSE EndTest("restore-failed")
  /\ UNCHANGED <<staging, scratch, testOk, sessionVars>>

RestoreProgram ==
  /\ stage = "restore-program"
  /\ \E ok \in BOOLEAN :
       /\ ProgramChip(scratch + cursor, staging[cursor], ok)
       /\ IF ok THEN NextPage("restore-program", "restore-verify") /\ UNCHANGED report
                ELSE EndTest("restore-failed")
  /\ UNCHANGED <<staging, scratch, testOk, sessionVars>>

(* Mutant of Restored: only the first page is compared.                    *)
FirstPageRestored == flash[scratch] = staging[0]

(* The CRC of the loader region was taken before the test and is taken again. *)
Restored == \A p \in 0..(SectorPages - 1) : flash[scratch + p] = staging[p]
LoaderUnchanged == \A p \in Loader : flash[p] = before[p]

RestoreVerify ==
  /\ stage = "restore-verify"
  /\ EndTest(IF ~Restored THEN "restore-failed"
             ELSE IF ~LoaderUnchanged THEN "loader-changed"
             ELSE IF ~testOk THEN "rw-failed" ELSE "ok")
  /\ UNCHANGED <<flash, staging, scratch, testOk, sessionVars, faults>>

-----------------------------------------------------------------------------
(* PACKAGE: run_package_v3.  Any failure ends in halt().                   *)

(* validate_manifest_metadata_v3, before the image is transferred.         *)
ManifestAccepted(p) ==
  /\ p.manifest.first
  /\ p.manifest.status # "known-incompatible"
  /\ p.manifest.status = "untested" => p.force
  /\ p.manifest.image = p.image
  /\ p.manifest.geometry

(* Mutant of ImageAccepted: only statuses known to be bad are refused.     *)
ImageAcceptedUnknown(p, image) ==
  /\ ManifestAccepted(p) /\ p.manifest.second
  /\ (IF p.dryRun THEN "dry-run" ELSE "flash") \in p.manifest.operations
  /\ \A q \in Loader : image[q] = p.manifest.loader[q]

(* validate_manifest_and_image and validate_flash_manifest, on the image in
   the staging buffer.                                                     *)
ImageAccepted(p, image) ==
  /\ p.manifest.first /\ p.manifest.second
  /\ p.manifest.status \in {"validated", "confirmed", "untested"}
  /\ p.manifest.status = "untested" => p.force
  /\ p.manifest.image = p.image
  /\ (IF p.dryRun THEN "dry-run" ELSE "flash") \in p.manifest.operations
  /\ image[KernelPage].kind = "kernel" /\ image[RootPage].kind = "rootfs"
  /\ \E q \in Loader : image[q].kind = "loader"
  /\ \A q \in Loader : image[q] = p.manifest.loader[q]
  /\ p.manifest.geometry

ReceiveHeader ==
  /\ stage = "command"
  /\ \E p \in Packages :
       /\ package' = p
       /\ stage' = IF p.valid THEN "manifest" ELSE "halted"
  /\ UNCHANGED <<flash, staging, cursor, testVars, confirmed, before, faults, cuts>>

ReceiveManifest ==
  /\ stage = "manifest"
  /\ stage' = IF ManifestAccepted(package) THEN "image" ELSE "halted"
  /\ UNCHANGED <<flash, staging, cursor, testVars, sessionVars, faults>>

(* The transfer reports success only if CRC and digest of the staging buffer
   are those of the header.                                                *)
ReceiveImage ==
  /\ stage = "image"
  /\ \E image \in Strays \union {package.image} :
       /\ staging' = image
       /\ stage' = IF image # package.image \/ ~ImageAccepted(package, image) THEN "halted"
                   ELSE IF package.dryRun THEN "halted" ELSE "confirm"
  /\ UNCHANGED <<flash, cursor, testVars, sessionVars, faults>>

(* The header or an object does not arrive.                                *)
TransferFails ==
  /\ stage \in {"command", "manifest", "image"}
  /\ stage' = "halted"
  /\ UNCHANGED <<flash, staging, cursor, testVars, sessionVars, faults>>

(* Any other line is refused and asked for again, for ever.                *)
Confirm ==
  /\ stage = "confirm"
  /\ stage' = "erase"
  /\ cursor' = 0
  /\ confirmed' = TRUE
  /\ UNCHANGED <<flash, staging, package, testVars, before, faults, cuts>>

-----------------------------------------------------------------------------
(* spi_erase_full, spi_program_full and spi_verify_full.                   *)

(* Mutant of Halt: what failed is tried again.                             *)
TryAgain == UNCHANGED <<stage, cursor>>

Advance(step, here, next) ==
  IF cursor + step < Pages THEN stage' = here /\ cursor' = cursor + step
                           ELSE stage' = next /\ cursor' = 0

Halt == stage' = "halted" /\ UNCHANGED cursor

(* Only the first and the last byte of a sector are read back; those of a
   page that is not blank may still be.                                    *)
EndsBlank == flash'[cursor] = Blank /\ flash'[cursor + SectorPages - 1] = Blank

EraseSector ==
  /\ stage = "erase"
  /\ \E ok \in BOOLEAN :
       /\ EraseChip(cursor, ok)
       /\ \/ ok /\ Advance(SectorPages, "erase", "program")
          \/ ~(ok /\ EndsBlank) /\ Halt
  /\ UNCHANGED <<staging, testVars, sessionVars>>

(* Mutant of SectorMatches: only the first page is compared.               *)
FirstPageMatches == flash[cursor] = staging[cursor]

ProgramPage ==
  /\ stage = "program"
  /\ \E ok \in BOOLEAN :
       /\ ProgramChip(cursor, staging[cursor], ok)
       /\ IF ok THEN Advance(1, "program", "verify") ELSE Halt
  /\ UNCHANGED <<staging, testVars, sessionVars>>

SectorMatches == \A p \in Sector(cursor) : flash[p] = staging[p]

VerifySector ==
  /\ stage = "verify"
  /\ IF SectorMatches THEN Advance(SectorPages, "verify", "reboot") ELSE Halt
  /\ UNCHANGED <<flash, staging, testVars, sessionVars, faults>>

-----------------------------------------------------------------------------
Init ==
  /\ stage = "off"
  /\ flash = Factory
  /\ staging = [p \in Address |-> Bad]
  /\ package \in Packages
  /\ cursor = 0
  /\ scratch = LoaderPages
  /\ testOk = TRUE
  /\ report = "none"
  /\ confirmed = FALSE
  /\ before = Factory
  /\ faults = 0
  /\ cuts = 0

Test ==
  \/ TestErase \/ TestProgram \/ TestVerify
  \/ RestoreErase \/ RestoreProgram \/ RestoreVerify

Write == EraseSector \/ ProgramPage \/ VerifySector

Receive == ReceiveHeader \/ ReceiveManifest \/ ReceiveImage \/ TransferFails

Next ==
  \/ PowerUp \/ PowerCut \/ Probe
  \/ StartTest \/ Test
  \/ Receive \/ Confirm
  \/ Write

Spec == Init /\ [][Next]_vars

(* The payload runs while it has power: every wait for the chip has a
   timeout.  No command, package or confirmation has to come.              *)
FairSpec == Spec /\ WF_vars(Test) /\ WF_vars(Write)

-----------------------------------------------------------------------------
(* Properties.                                                             *)

Testing ==
  {"test-erase", "test-program", "test-verify",
   "restore-erase", "restore-program", "restore-verify"}
Writing == {"erase", "program", "verify"}

(* Types of the variables; the loops stay inside the flash.                *)
TypeOK ==
  /\ stage \in {"off", "probe", "command", "manifest", "image", "confirm",
                "reboot", "halted"} \union Testing \union Writing
  /\ flash \in FlashImage /\ staging \in FlashImage /\ before \in FlashImage
  /\ package \in Packages
  /\ cursor \in Address
  /\ stage \in Testing => cursor < SectorPages
  /\ scratch \in Address
  /\ testOk \in BOOLEAN /\ confirmed \in BOOLEAN
  /\ report \in {"none", "testing", "ok", "rw-failed",
                 "restore-failed", "loader-changed"}
  /\ faults \in 0..MaxFaults /\ cuts \in 0..MaxCuts

(* Until the confirmation is given the flash is what it was: a scratch test
   touches its own sector only, never the boot loader, and unless the test is
   cut short or reports that it could not, the sector is restored.  (A chip
   that writes where it was not told to is excluded.)                      *)
FlashUntouched ==
  "stray" \notin Faults /\ ~confirmed =>
    \A p \in Address : flash[p] # before[p] =>
      /\ p \in Sector(scratch) /\ p \notin Loader
      /\ report \in {"testing", "restore-failed"}

(* A scratch test that reports its sector restored and the loader unchanged
   is right, on whatever the faulty chip really did.                       *)
TestSound ==
  report \in {"ok", "rw-failed"} /\ ~confirmed =>
    \A p \in Loader \union Sector(scratch) : flash[p] = before[p]

(* Nothing is erased for a package that was not wholly verified and allowed:
   its manifest declares the image in the staging buffer, fit for this flash
   and for flashing, on a model that is supported or was forced.           *)
Permitted ==
  /\ package.valid /\ ~package.dryRun
  /\ "flash" \in package.manifest.operations
  /\ package.manifest.image = staging
  /\ package.manifest.geometry
  /\ \/ package.manifest.status \in {"validated", "confirmed"}
     \/ package.manifest.status = "untested" /\ package.force
WritesPermitted == confirmed => Permitted

(* Success is reported, and the target rebooted, only with the image in
   flash, page by page, whatever erasing and programming failed to do.     *)
SuccessInstalled == stage = "reboot" => flash = package.manifest.image

(* All of it implements the installation that ConfirmedInstall describes:
   the confirmation is asked only for a package that passed every check, and
   is for that package; the target reboots from the writing alone, with the
   flash as that package wants it; until then the boot loader is not touched
   but by a chip that writes where it was not told to.                      *)
Fit(p) ==
  /\ p.valid /\ ~p.dryRun
  /\ "flash" \in p.manifest.operations
  /\ p.manifest.image = p.image
  /\ \A q \in Loader : p.manifest.loader[q] = p.image[q]
  /\ p.image[KernelPage].kind = "kernel" /\ p.image[RootPage].kind = "rootfs"
  /\ p.manifest.geometry
  /\ \/ p.manifest.status \in {"validated", "confirmed"}
     \/ p.manifest.status = "untested" /\ p.force

Install == INSTANCE ConfirmedInstall WITH
  Offers <- {p \in Packages : Fit(p)},
  Wanted <- [p \in Packages |-> p.image],
  Protected <- IF "stray" \in Faults THEN {} ELSE Loader,
  step <- CASE stage = "confirm" -> "offered"
            [] stage \in Writing -> "agreed"
            [] stage = "reboot" -> "done"
            [] OTHER -> "idle",
  offer <- package,
  device <- flash

ImplementsInstall == Install!Spec

(* No bad chip keeps the payload in a loop: a test and a rewrite end.      *)
OperationsEnd ==
  stage \in Testing \union Writing ~> stage \notin Testing \union Writing
=============================================================================
