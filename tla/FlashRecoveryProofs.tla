------------------------ MODULE FlashRecoveryProofs ------------------------
(***************************************************************************)
(* The firmware recovery payload leaves the flash alone until it has a     *)
(* verified package and the confirmation, its scratch test tells the       *)
(* truth, and it reports success only with the image in flash: for every   *)
(* geometry, set of packages and number of chip faults and power cuts.     *)
(***************************************************************************)
EXTENDS FlashRecovery, TLAPS

USE GeometryAssumption, ContentAssumption, FaultAssumption

-----------------------------------------------------------------------------
(* What the chip does.                                                     *)

LEMMA Contents ==
  /\ Blank \in Content /\ Bad \in Content /\ Pattern \in Content
  /\ \A old, new \in Content : Programmed(old, new) \in Content
<1>1. Blank \in Content /\ Bad \in Content /\ Pattern \in Content
  BY DEF Blank, Bad, Pattern, Content
<1>. QED
  BY <1>1 DEF Programmed

LEMMA PackageImages ==
  /\ \A p \in Packages : p.image \in FlashImage
  /\ \A image \in Strays : image \in FlashImage
  BY DEF Package

(* Whatever becomes of an operation, the flash holds contents.             *)
LEMMA EraseTypes ==
  ASSUME TypeOK, NEW a, NEW ok, EraseChip(a, ok)
  PROVE  flash' \in FlashImage /\ faults' \in 0..MaxFaults
<1>1. \A b : Erased(b) \in FlashImage
  BY Contents DEF Erased, FlashImage, TypeOK
<1>2. \A p : [Erased(a) EXCEPT ![p] = Bad] \in FlashImage
  BY <1>1, Contents DEF FlashImage
<1>3. flash \in FlashImage /\ faults \in 0..MaxFaults
  BY DEF TypeOK
<1>. QED
  BY <1>1, <1>2, <1>3 DEF EraseChip, Faulty

LEMMA ProgramTypes ==
  ASSUME TypeOK, NEW p, NEW new \in Content, NEW ok, ProgramChip(p, new, ok)
  PROVE  flash' \in FlashImage /\ faults' \in 0..MaxFaults
<1>1. \A q : [flash EXCEPT ![q] = Programmed(flash[q], new)] \in FlashImage
  <2>1. SUFFICES ASSUME NEW q \in Address
                 PROVE  Programmed(flash[q], new) \in Content
    BY DEF FlashImage, TypeOK
  <2>. QED
    BY <2>1, Contents DEF FlashImage, TypeOK
<1>2. [flash EXCEPT ![p] = Bad] \in FlashImage
  BY Contents DEF FlashImage, TypeOK
<1>3. flash \in FlashImage /\ faults \in 0..MaxFaults
  BY DEF TypeOK
<1>. QED
  BY <1>1, <1>2, <1>3 DEF ProgramChip, Faulty

(* A chip without stray writes touches what it was told to.                *)
LEMMA EraseLocal ==
  ASSUME flash \in FlashImage, "stray" \notin Faults,
         NEW a, NEW ok, EraseChip(a, ok)
  PROVE  \A p \in Address : p \notin Sector(a) => flash'[p] = flash[p]
<1>1. \A p \in Address : p \notin Sector(a) => Erased(a)[p] = flash[p]
  BY DEF Erased
<1>2. \A q \in Sector(a), p \in Address :
        p \notin Sector(a) => [Erased(a) EXCEPT ![q] = Bad][p] = flash[p]
  BY <1>1 DEF Erased
<1>. QED
  BY <1>1, <1>2 DEF EraseChip, Faulty

LEMMA ProgramLocal ==
  ASSUME flash \in FlashImage, "stray" \notin Faults,
         NEW q, NEW new, NEW ok, ProgramChip(q, new, ok)
  PROVE  \A p \in Address : p # q => flash'[p] = flash[p]
  BY DEF ProgramChip, Faulty, FlashImage

-----------------------------------------------------------------------------
(* Types.                                                                  *)

LEMMA Places ==
  /\ Pages \in Nat /\ 0 \in Address /\ LoaderPages \in Address
  /\ \A a \in Address : a \in Int /\ 0 <= a /\ a < Pages
  BY DEF Address

LEMMA TypeInit == Init => TypeOK
<1> SUFFICES ASSUME Init PROVE TypeOK
  OBVIOUS
<1>1. staging \in FlashImage /\ flash \in FlashImage /\ before \in FlashImage
  BY Contents DEF FlashImage, Init
<1>2. stage = "off" /\ stage \notin Testing
  BY DEF Init, Testing
<1>3. cursor \in Address /\ scratch \in Address
  BY Places DEF Init
<1>4. faults \in 0..MaxFaults /\ cuts \in 0..MaxCuts
  BY DEF Init
<1>. QED
  BY <1>1, <1>2, <1>3, <1>4 DEF Init, TypeOK

(* The pieces of TypeOK after a step.                                      *)
StageOK ==
  stage \in {"off", "probe", "command", "manifest", "image", "confirm",
             "reboot", "halted"} \union Testing \union Writing
CursorOK == cursor \in Address /\ (stage \in Testing => cursor < SectorPages)

(* The boot loader region holds at least a sector.                         *)
LEMMA SectorFits == SectorPages <= LoaderPages
<1>1. LoaderPages \in Nat \ {0} /\ SectorPages \in Nat \ {0}
  OBVIOUS
<1>2. LoaderPages < SectorPages => LoaderPages % SectorPages = LoaderPages
  BY <1>1
<1>. QED
  BY <1>1, <1>2

(* Where the loops of a test and of a rewrite lead.                         *)
LEMMA Turns ==
  ASSUME TypeOK
  PROVE  /\ \A here, next \in Testing :
              stage \in Testing /\ NextPage(here, next) => StageOK' /\ CursorOK'
         /\ \A ok : Restore(ok) => StageOK' /\ CursorOK'
         /\ \A result : EndTest(result) => StageOK' /\ CursorOK'
         /\ \A step \in {1, SectorPages} : \A here \in Writing :
              \A next \in Writing \union {"reboot"} :
                 Advance(step, here, next) => StageOK' /\ CursorOK'
         /\ Halt => StageOK' /\ CursorOK'
<1>1. cursor \in Address /\ (stage \in Testing => cursor < SectorPages)
  BY DEF TypeOK
<1>2. \A here, next \in Testing :
        stage \in Testing /\ NextPage(here, next) => StageOK' /\ CursorOK'
  <2>1. SUFFICES ASSUME NEW here \in Testing, NEW next \in Testing,
                        stage \in Testing, NextPage(here, next)
                 PROVE  StageOK' /\ CursorOK'
    OBVIOUS
  <2>2. stage' \in Testing /\ cursor' \in Nat /\ cursor' < SectorPages
    BY <1>1, <2>1, Places DEF NextPage
  <2>3. SectorPages <= LoaderPages
    BY SectorFits
  <2>4. cursor' \in Address
    BY <2>2, <2>3, Places DEF Address
  <2>. QED
    BY <2>2, <2>4 DEF StageOK, CursorOK
<1>3. \A ok : Restore(ok) => StageOK' /\ CursorOK'
  <2>1. "restore-erase" \in Testing
    BY DEF Testing
  <2>. QED
    BY <2>1, Places DEF Restore, StageOK, CursorOK
<1>4. \A result : EndTest(result) => StageOK' /\ CursorOK'
  BY Places DEF EndTest, StageOK, CursorOK
<1>5. \A step \in {1, SectorPages} : \A here \in Writing :
        \A next \in Writing \union {"reboot"} :
           Advance(step, here, next) => StageOK' /\ CursorOK'
  <2>1. SUFFICES ASSUME NEW step \in {1, SectorPages}, NEW here \in Writing,
                        NEW next \in Writing \union {"reboot"}, Advance(step, here, next)
                 PROVE  StageOK' /\ CursorOK'
    OBVIOUS
  <2>2. stage' \in Writing \union {"reboot"} /\ cursor' \in Address
    BY <1>1, <2>1, Places DEF Advance, Address
  <2>3. stage' \notin Testing
    BY <2>2 DEF Testing, Writing
  <2>. QED
    BY <2>2, <2>3 DEF StageOK, CursorOK
<1>6. Halt => StageOK' /\ CursorOK'
  <2>1. "halted" \notin Testing
    BY DEF Testing
  <2>. QED
    BY <1>1, <2>1 DEF Halt, StageOK, CursorOK
<1>. QED
  BY <1>2, <1>3, <1>4, <1>5, <1>6

LEMMA TypeStep == TypeOK /\ [Next]_vars => TypeOK'
<1> SUFFICES ASSUME TypeOK, [Next]_vars PROVE TypeOK'
  OBVIOUS
<1> USE DEF TypeOK
<1>1. CASE PowerUp
  <2>1. "probe" \notin Testing
    BY DEF Testing
  <2>. QED
    BY <1>1, <2>1 DEF PowerUp
<1>2. CASE PowerCut
  <2>1. "off" \notin Testing
    BY DEF Testing
  <2>2. flash' \in FlashImage
    BY <1>2, Contents DEF PowerCut, FlashImage
  <2>. QED
    BY <1>2, <2>1, <2>2 DEF PowerCut, testVars
<1>3. CASE Probe
  <2>1. "command" \notin Testing /\ "halted" \notin Testing
    BY DEF Testing
  <2>. QED
    BY <1>3, <2>1 DEF Probe, testVars, sessionVars
<1>4. CASE StartTest
  <2>1. PICK a \in Scratches :
          /\ ScratchAllowed(a) /\ scratch' = a
          /\ staging' = [p \in Address |-> IF p < SectorPages THEN flash[a + p]
                                                              ELSE staging[p]]
    BY <1>4 DEF StartTest
  <2>2. a \in Address /\ \A p \in Address : p < SectorPages => a + p \in Address
    BY <2>1, Places DEF ScratchAllowed, Address
  <2>3. staging' \in FlashImage
    BY <2>1, <2>2 DEF FlashImage
  <2>4. "test-erase" \in Testing
    BY DEF Testing
  <2>. QED
    BY <1>4, <2>1, <2>2, <2>3, <2>4, Places DEF StartTest
<1>5. CASE Test
  <2>. SUFFICES /\ flash' \in FlashImage /\ faults' \in 0..MaxFaults
                /\ StageOK' /\ CursorOK'
                /\ testOk' \in BOOLEAN
                /\ report' \in {"none", "testing", "ok", "rw-failed",
                                "restore-failed", "loader-changed"}
                /\ UNCHANGED <<staging, scratch, sessionVars>>
    BY <1>5 DEF StageOK, CursorOK, sessionVars
  <2>0. /\ stage \in Testing
        /\ {"test-program", "test-verify", "restore-program", "restore-verify"} \subseteq Testing
    BY <1>5 DEF Test, TestErase, TestProgram, TestVerify, RestoreErase, RestoreProgram,
                RestoreVerify, Testing
  <2>1. CASE TestErase
    <3>1. PICK ok \in BOOLEAN :
            /\ EraseChip(scratch, ok)
            /\ \/ stage' = "test-program" /\ cursor' = 0 /\ UNCHANGED testOk
               \/ Restore(FALSE)
      BY <2>1 DEF TestErase
    <3>2. testOk' \in BOOLEAN
      BY <3>1 DEF Restore
    <3>3. StageOK' /\ CursorOK'
      BY <2>0, <3>1, Turns, Places DEF StageOK, CursorOK
    <3>. QED
      BY <2>1, <3>1, <3>2, <3>3, EraseTypes DEF TestErase
  <2>2. CASE TestProgram
    <3>1. PICK ok \in BOOLEAN :
            /\ ProgramChip(scratch + cursor, Pattern, ok)
            /\ \/ NextPage("test-program", "test-verify") /\ UNCHANGED testOk
               \/ Restore(FALSE)
      BY <2>2 DEF TestProgram
    <3>2. testOk' \in BOOLEAN
      BY <3>1 DEF Restore
    <3>3. StageOK' /\ CursorOK'
      BY <2>0, <3>1, Turns
    <3>. QED
      BY <2>2, <3>1, <3>2, <3>3, ProgramTypes, Contents DEF TestProgram
  <2>3. CASE TestVerify
    <3>1. Restore(\A p \in Sector(scratch) : flash[p] = Pattern)
      BY <2>3 DEF TestVerify
    <3>2. testOk' \in BOOLEAN
      BY <3>1 DEF Restore
    <3>3. StageOK' /\ CursorOK'
      BY <3>1, Turns
    <3>. QED
      BY <2>3, <3>2, <3>3 DEF TestVerify
  <2>4. CASE RestoreErase
    <3>1. PICK ok \in BOOLEAN :
            /\ EraseChip(scratch, ok)
            /\ \/ stage' = "restore-program" /\ cursor' = 0 /\ UNCHANGED report
               \/ EndTest("restore-failed")
      BY <2>4 DEF RestoreErase
    <3>2. StageOK' /\ CursorOK'
      BY <2>0, <3>1, Turns, Places DEF StageOK, CursorOK
    <3>3. report' = report \/ report' = "restore-failed"
      BY <3>1 DEF EndTest
    <3>. QED
      BY <2>4, <3>1, <3>2, <3>3, EraseTypes DEF RestoreErase
  <2>5. CASE RestoreProgram
    <3>1. PICK ok \in BOOLEAN :
            /\ ProgramChip(scratch + cursor, staging[cursor], ok)
            /\ \/ NextPage("restore-program", "restore-verify") /\ UNCHANGED report
               \/ EndTest("restore-failed")
      BY <2>5 DEF RestoreProgram
    <3>2. StageOK' /\ CursorOK'
      BY <2>0, <3>1, Turns
    <3>3. report' = report \/ report' = "restore-failed"
      BY <3>1 DEF EndTest
    <3>4. staging[cursor] \in Content
      BY DEF FlashImage
    <3>. QED
      BY <2>5, <3>1, <3>2, <3>3, <3>4, ProgramTypes DEF RestoreProgram
  <2>6. CASE RestoreVerify
    <3>1. PICK result \in {"restore-failed", "loader-changed", "rw-failed", "ok"} :
            EndTest(result)
      BY <2>6 DEF RestoreVerify
    <3>2. StageOK' /\ CursorOK'
      BY <3>1, Turns
    <3>3. report' \in {"restore-failed", "loader-changed", "rw-failed", "ok"}
      BY <3>1 DEF EndTest
    <3>. QED
      BY <2>6, <3>2, <3>3 DEF RestoreVerify
  <2>. QED
    BY <1>5, <2>1, <2>2, <2>3, <2>4, <2>5, <2>6 DEF Test
<1>6. CASE Receive \/ Confirm
  <2>1. /\ stage' \in {"manifest", "image", "confirm", "halted", "erase"}
        /\ cursor' \in Address
        /\ UNCHANGED <<flash, testVars, before, faults, cuts>>
    BY <1>6, Places
    DEF Receive, ReceiveHeader, ReceiveManifest, ReceiveImage, TransferFails, Confirm,
        testVars, sessionVars
  <2>2. package' \in Packages
    BY <1>6
    DEF Receive, ReceiveHeader, ReceiveManifest, ReceiveImage, TransferFails, Confirm,
        sessionVars
  <2>3. staging' \in FlashImage
    BY <1>6, PackageImages
    DEF Receive, ReceiveHeader, ReceiveManifest, ReceiveImage, TransferFails, Confirm
  <2>4. confirmed' \in BOOLEAN
    BY <1>6
    DEF Receive, ReceiveHeader, ReceiveManifest, ReceiveImage, TransferFails, Confirm,
        sessionVars
  <2>5. stage' \notin Testing /\ StageOK'
    BY <2>1 DEF Testing, Writing, StageOK
  <2>. QED
    BY <2>1, <2>2, <2>3, <2>4, <2>5 DEF testVars, StageOK
<1>7. CASE Write
  <2>. SUFFICES /\ flash' \in FlashImage /\ faults' \in 0..MaxFaults
                /\ StageOK' /\ CursorOK'
                /\ UNCHANGED <<staging, testVars, sessionVars>>
    BY DEF StageOK, CursorOK, testVars, sessionVars
  <2>0. {"erase", "program", "verify"} \subseteq Writing
    BY DEF Writing
  <2>1. CASE EraseSector
    <3>1. PICK ok \in BOOLEAN :
            EraseChip(cursor, ok) /\ (Advance(SectorPages, "erase", "program") \/ Halt)
      BY <2>1 DEF EraseSector
    <3>2. StageOK' /\ CursorOK'
      BY <2>0, <3>1, Turns
    <3>. QED
      BY <2>1, <3>1, <3>2, EraseTypes DEF EraseSector
  <2>2. CASE ProgramPage
    <3>1. PICK ok \in BOOLEAN :
            /\ ProgramChip(cursor, staging[cursor], ok)
            /\ Advance(1, "program", "verify") \/ Halt
      BY <2>2 DEF ProgramPage
    <3>2. StageOK' /\ CursorOK'
      BY <2>0, <3>1, Turns
    <3>3. staging[cursor] \in Content
      BY DEF FlashImage
    <3>. QED
      BY <2>2, <3>1, <3>2, <3>3, ProgramTypes DEF ProgramPage
  <2>3. CASE VerifySector
    <3>1. Advance(SectorPages, "verify", "reboot") \/ Halt
      BY <2>3 DEF VerifySector
    <3>2. StageOK' /\ CursorOK'
      BY <2>0, <3>1, Turns
    <3>. QED
      BY <2>3, <3>2 DEF VerifySector
  <2>. QED
    BY <1>7, <2>1, <2>2, <2>3 DEF Write
<1>8. CASE UNCHANGED vars
  BY <1>8 DEF vars
<1>. QED
  BY <1>1, <1>2, <1>3, <1>4, <1>5, <1>6, <1>7, <1>8 DEF Next

(* The payload's variables keep their types, and its loops stay inside the
   flash, whatever the chip and the power supply do.                       *)
THEOREM RecoveryTypes == Spec => []TypeOK
  BY TypeInit, TypeStep, PTL DEF Spec

-----------------------------------------------------------------------------
(* What the stages presuppose.  The package is checked stage by stage, and
   neither it nor the staging buffer changes once it is confirmed.         *)
PhasesOK ==
  /\ stage \in {"manifest", "image", "confirm"} => package.valid
  /\ stage \in Writing \union {"reboot"} => confirmed
  /\ confirmed => stage \in Writing \union {"reboot", "halted", "off"}
  /\ stage = "confirm" \/ confirmed => Permitted /\ Fit(package)

(* While a test runs its backup is in the staging buffer.                  *)
BackupOK ==
  /\ scratch >= LoaderPages
  /\ stage \in Testing =>
       /\ report = "testing"
       /\ \A p \in 0..(SectorPages - 1) : staging[p] = before[scratch + p]

(* The pages already compared are the image's.                             *)
ComparedOK ==
  /\ stage = "verify" => \A p \in Address : p < cursor => flash[p] = staging[p]
  /\ stage = "reboot" => flash = staging

SafetyInv ==
  /\ TypeOK /\ PhasesOK /\ BackupOK /\ ComparedOK
  /\ FlashUntouched /\ TestSound

LEMMA SafetyInit == Init => SafetyInv
<1> SUFFICES ASSUME Init PROVE SafetyInv
  OBVIOUS
<1>1. TypeOK
  BY TypeInit
<1>2. stage = "off" /\ "off" \notin Testing \union Writing /\ scratch = LoaderPages
  BY DEF Init, Testing, Writing
<1>3. PhasesOK /\ BackupOK /\ ComparedOK
  BY <1>2 DEF Init, PhasesOK, BackupOK, ComparedOK
<1>4. FlashUntouched /\ TestSound
  BY DEF Init, FlashUntouched, TestSound
<1>. QED
  BY <1>1, <1>3, <1>4 DEF SafetyInv

(* The stages are what they seem.                                          *)
LEMMA StageNames ==
  /\ Testing \intersect Writing = {}
  /\ {"off", "probe", "command", "manifest", "image", "confirm", "reboot", "halted"}
       \intersect (Testing \union Writing) = {}
  /\ {"erase", "program", "verify"} = Writing
  /\ {"test-erase", "test-program", "test-verify",
      "restore-erase", "restore-program", "restore-verify"} = Testing
  BY DEF Testing, Writing

(* A step of a test goes on testing or goes back to the commands; it leaves
   the session and the backup alone.                                       *)
LEMMA TestStep ==
  ASSUME TypeOK, Test
  PROVE  /\ stage \in Testing /\ stage' \in Testing \union {"command"}
         /\ UNCHANGED <<staging, scratch, package, confirmed, before>>
         /\ stage' \in Testing => report' = report
<1>1. stage \in Testing /\ UNCHANGED <<staging, scratch, package, confirmed, before>>
  BY StageNames DEF Test, TestErase, TestProgram, TestVerify, RestoreErase,
     RestoreProgram, RestoreVerify, sessionVars
<1>2. "command" \notin Testing
  BY StageNames
<1>3. TestErase \/ TestProgram \/ TestVerify =>
        /\ stage' \in {"test-program", "test-verify", "restore-erase"}
        /\ report' = report
  BY DEF TestErase, TestProgram, TestVerify, Restore, NextPage
<1>4. RestoreErase =>
        \/ stage' = "restore-program" /\ report' = report
        \/ stage' = "command"
  BY DEF RestoreErase, EndTest
<1>5. RestoreProgram =>
        \/ stage' \in {"restore-program", "restore-verify"} /\ report' = report
        \/ stage' = "command"
  BY DEF RestoreProgram, EndTest, NextPage
<1>6. RestoreVerify => stage' = "command"
  BY DEF RestoreVerify, EndTest
<1>. QED
  BY <1>1, <1>2, <1>3, <1>4, <1>5, <1>6, StageNames DEF Test

(* A step of a rewrite goes on writing, reboots or halts.                  *)
LEMMA WriteStep ==
  ASSUME Write
  PROVE  /\ stage \in Writing /\ stage' \in Writing \union {"reboot", "halted"}
         /\ UNCHANGED <<staging, testVars, sessionVars>>
  BY StageNames
  DEF Write, EraseSector, ProgramPage, VerifySector, Advance, Halt

-----------------------------------------------------------------------------
(* The image is accepted only if it may be written.                        *)
LEMMA AcceptedFit ==
  ASSUME NEW p \in Packages, p.valid, ~p.dryRun, ImageAccepted(p, p.image)
  PROVE  Fit(p)
  BY DEF ImageAccepted, Fit

LEMMA PhasesStep == SafetyInv /\ [Next]_vars => PhasesOK'
<1> SUFFICES ASSUME SafetyInv, [Next]_vars PROVE PhasesOK'
  OBVIOUS
<1>0. PhasesOK /\ TypeOK
  BY DEF SafetyInv
<1>1. CASE PowerUp \/ PowerCut \/ Probe \/ StartTest
  BY <1>0, <1>1, StageNames
  DEF PowerUp, PowerCut, Probe, StartTest, PhasesOK, Permitted, testVars, sessionVars
<1>2. CASE Test
  BY <1>0, <1>2, TestStep, StageNames DEF PhasesOK, Permitted
<1>3. CASE ReceiveHeader \/ ReceiveManifest \/ TransferFails
  BY <1>0, <1>3, StageNames
  DEF ReceiveHeader, ReceiveManifest, TransferFails, PhasesOK, Permitted, sessionVars
<1>4. CASE ReceiveImage
  <2>1. /\ stage = "image" /\ ~confirmed /\ ~confirmed' /\ package.valid
        /\ package' = package /\ package \in Packages
    BY <1>0, <1>4, StageNames DEF ReceiveImage, PhasesOK, sessionVars, TypeOK
  <2>2. stage' \in {"halted", "confirm"}
    BY <1>4 DEF ReceiveImage
  <2>3. stage' = "confirm" => /\ staging' = package.image /\ ~package.dryRun
                              /\ ImageAccepted(package, package.image)
    BY <1>4 DEF ReceiveImage
  <2>4. stage' = "confirm" => Fit(package)
    BY <2>1, <2>3, AcceptedFit
  <2>5. stage' = "confirm" => Permitted' /\ Fit(package')
    BY <2>1, <2>3, <2>4 DEF Permitted, Fit
  <2>. QED
    BY <2>1, <2>2, <2>5, StageNames DEF PhasesOK
<1>5. CASE Confirm
  BY <1>0, <1>5, StageNames DEF Confirm, PhasesOK, Permitted
<1>6. CASE Write
  BY <1>0, <1>6, WriteStep, StageNames DEF PhasesOK, Permitted, sessionVars
<1>7. CASE UNCHANGED vars
  BY <1>0, <1>7 DEF vars, PhasesOK, Permitted
<1>. QED
  BY <1>1, <1>2, <1>3, <1>4, <1>5, <1>6, <1>7 DEF Next, Receive

LEMMA BackupStep == SafetyInv /\ [Next]_vars => BackupOK'
<1> SUFFICES ASSUME SafetyInv, [Next]_vars PROVE BackupOK'
  OBVIOUS
<1>0. BackupOK /\ TypeOK
  BY DEF SafetyInv
<1>1. CASE PowerUp \/ PowerCut \/ Probe
  BY <1>0, <1>1, StageNames
  DEF PowerUp, PowerCut, Probe, BackupOK, testVars, sessionVars
<1>2. CASE StartTest
  <2>1. PICK a \in Scratches :
          /\ ScratchAllowed(a) /\ scratch' = a
          /\ staging' = [p \in Address |-> IF p < SectorPages THEN flash[a + p]
                                                              ELSE staging[p]]
    BY <1>2 DEF StartTest
  <2>2. \A p \in 0..(SectorPages - 1) : p \in Address /\ p < SectorPages
    BY SectorFits DEF Address
  <2>3. \A p \in 0..(SectorPages - 1) : staging'[p] = before'[scratch' + p]
    BY <1>2, <2>1, <2>2 DEF StartTest
  <2>. QED
    BY <1>2, <2>1, <2>3 DEF StartTest, BackupOK, ScratchAllowed
<1>3. CASE Test
  BY <1>0, <1>3, TestStep DEF BackupOK
<1>4. CASE Receive \/ Confirm
  BY <1>0, <1>4, StageNames
  DEF Receive, ReceiveHeader, ReceiveManifest, ReceiveImage, TransferFails, Confirm,
      BackupOK, testVars, sessionVars
<1>5. CASE Write
  BY <1>0, <1>5, WriteStep, StageNames DEF BackupOK, testVars, sessionVars
<1>6. CASE UNCHANGED vars
  BY <1>0, <1>6 DEF vars, BackupOK
<1>. QED
  BY <1>1, <1>2, <1>3, <1>4, <1>5, <1>6 DEF Next

LEMMA ComparedStep == SafetyInv /\ [Next]_vars => ComparedOK'
<1> SUFFICES ASSUME SafetyInv, [Next]_vars PROVE ComparedOK'
  OBVIOUS
<1>0. ComparedOK /\ TypeOK
  BY DEF SafetyInv
<1>1. CASE PowerUp \/ PowerCut \/ Probe \/ StartTest \/ Receive \/ Confirm
  BY <1>1
  DEF PowerUp, PowerCut, Probe, StartTest, Receive, ReceiveHeader, ReceiveManifest,
      ReceiveImage, TransferFails, Confirm, ComparedOK
<1>2. CASE Test
  BY <1>2, <1>0, TestStep, StageNames DEF ComparedOK
<1>3. CASE EraseSector
  BY <1>3 DEF EraseSector, Advance, Halt, ComparedOK
<1>4. CASE ProgramPage
  <2>1. stage' = "verify" => cursor' = 0
    BY <1>4 DEF ProgramPage, Advance, Halt
  <2>2. stage' # "reboot"
    BY <1>4 DEF ProgramPage, Advance, Halt
  <2>. QED
    BY <2>1, <2>2, Places DEF ComparedOK
<1>5. CASE VerifySector
  <2>1. stage = "verify" /\ flash' = flash /\ staging' = staging
    BY <1>5 DEF VerifySector
  <2>2. CASE SectorMatches /\ Advance(SectorPages, "verify", "reboot")
    <3>1. cursor \in Address
      BY <1>0 DEF TypeOK
    <3>2. \A p \in Address : p < cursor + SectorPages => flash[p] = staging[p]
      <4>1. SUFFICES ASSUME NEW p \in Address, p < cursor + SectorPages
                     PROVE  flash[p] = staging[p]
        OBVIOUS
      <4>2. CASE p < cursor
        BY <1>0, <2>1, <4>2 DEF ComparedOK
      <4>3. CASE ~(p < cursor)
        <5>1. p \in Sector(cursor)
          BY <3>1, <4>1, <4>3, Places DEF Sector
        <5>. QED
          BY <2>2, <5>1 DEF SectorMatches
      <4>. QED
        BY <4>2, <4>3
    <3>3. CASE cursor + SectorPages < Pages
      BY <2>1, <2>2, <3>2, <3>3 DEF Advance, ComparedOK
    <3>4. CASE ~(cursor + SectorPages < Pages)
      <4>1. \A p \in Address : flash[p] = staging[p]
        BY <3>1, <3>2, <3>4, Places
      <4>2. flash = staging
        BY <1>0, <4>1 DEF TypeOK, FlashImage
      <4>. QED
        BY <2>1, <2>2, <3>4, <4>2 DEF Advance, ComparedOK
    <3>. QED
      BY <3>3, <3>4
  <2>3. CASE Halt
    BY <2>3 DEF Halt, ComparedOK
  <2>. QED
    BY <1>5, <2>2, <2>3 DEF VerifySector
<1>6. CASE UNCHANGED vars
  BY <1>0, <1>6 DEF vars, ComparedOK
<1>. QED
  BY <1>1, <1>2, <1>3, <1>4, <1>5, <1>6 DEF Next, Write

-----------------------------------------------------------------------------
(* The sector under test.                                                  *)
LEMMA TestSector ==
  ASSUME TypeOK, BackupOK
  PROVE  /\ scratch \in Int
         /\ \A p \in Sector(scratch) : p \notin Loader
         /\ stage \in Testing => scratch + cursor \in Sector(scratch)
         /\ \A p \in Sector(scratch) :
              p - scratch \in 0..(SectorPages - 1) /\ scratch + (p - scratch) = p
<1>1. scratch \in Int /\ LoaderPages \in Int /\ scratch >= LoaderPages
  BY Places DEF TypeOK, BackupOK
<1>2. cursor \in Int /\ 0 <= cursor /\ (stage \in Testing => cursor < SectorPages)
  BY Places DEF TypeOK
<1>3. \A p \in Sector(scratch) : p \notin Loader
  BY <1>1 DEF Sector, Loader
<1>4. stage \in Testing => scratch + cursor \in Sector(scratch)
  BY <1>1, <1>2 DEF Sector
<1>5. \A p \in Sector(scratch) :
        p - scratch \in 0..(SectorPages - 1) /\ scratch + (p - scratch) = p
  BY <1>1 DEF Sector
<1>. QED
  BY <1>1, <1>3, <1>4, <1>5

LEMMA LoaderInside == Loader \subseteq Address
  BY Places DEF Loader, Address

(* A restored sector holds what it held before the test.                   *)
LEMMA RestoredSector ==
  ASSUME TypeOK, BackupOK, stage \in Testing, Restored
  PROVE  \A p \in Sector(scratch) : flash[p] = before[p]
<1>1. \A i \in 0..(SectorPages - 1) : flash[scratch + i] = before[scratch + i]
  BY DEF BackupOK, Restored
<1>. QED
  BY <1>1, TestSector

(* What a test, or a power cut during one, does to the flash.              *)
LEMMA TestLocal ==
  ASSUME TypeOK, BackupOK, "stray" \notin Faults, Test
  PROVE  \A p \in Address : p \notin Sector(scratch) => flash'[p] = flash[p]
<1>0. /\ flash \in FlashImage /\ stage \in Testing
      /\ scratch + cursor \in Sector(scratch)
  BY TestStep, TestSector DEF TypeOK
<1>1. CASE TestErase
  BY <1>0, <1>1, EraseLocal DEF TestErase
<1>2. CASE RestoreErase
  BY <1>0, <1>2, EraseLocal DEF RestoreErase
<1>3. CASE TestProgram
  <2>1. PICK ok \in BOOLEAN : ProgramChip(scratch + cursor, Pattern, ok)
    BY <1>3 DEF TestProgram
  <2>2. \A p \in Address : p # scratch + cursor => flash'[p] = flash[p]
    BY <1>0, <2>1, ProgramLocal
  <2>. QED
    BY <1>0, <2>2
<1>4. CASE RestoreProgram
  <2>1. PICK ok \in BOOLEAN : ProgramChip(scratch + cursor, staging[cursor], ok)
    BY <1>4 DEF RestoreProgram
  <2>2. \A p \in Address : p # scratch + cursor => flash'[p] = flash[p]
    BY <1>0, <2>1, ProgramLocal
  <2>. QED
    BY <1>0, <2>2
<1>5. CASE TestVerify \/ RestoreVerify
  BY <1>5 DEF TestVerify, RestoreVerify
<1>. QED
  BY <1>1, <1>2, <1>3, <1>4, <1>5 DEF Test

LEMMA CutLocal ==
  ASSUME TypeOK, BackupOK, PhasesOK, ~confirmed, PowerCut
  PROVE  /\ stage \notin Testing => flash' = flash
         /\ \A p \in Address : p \notin Sector(scratch) => flash'[p] = flash[p]
<1>0. flash \in FlashImage /\ stage \notin Writing
  BY DEF TypeOK, PhasesOK
<1>1. stage \notin Testing => InFlight = {}
  BY <1>0, StageNames DEF InFlight
<1>2. stage \in Testing => InFlight \subseteq Sector(scratch)
  BY <1>0, TestSector, StageNames DEF InFlight
<1>3. flash' = flash \/ \E q \in InFlight : flash' = [flash EXCEPT ![q] = Bad]
  BY DEF PowerCut
<1>. QED
  BY <1>0, <1>1, <1>2, <1>3 DEF FlashImage

LEMMA UntouchedStep == SafetyInv /\ [Next]_vars => FlashUntouched'
<1> SUFFICES ASSUME SafetyInv, [Next]_vars, "stray" \notin Faults, ~confirmed'
             PROVE  \A p \in Address : flash'[p] # before'[p] =>
                      /\ p \in Sector(scratch') /\ p \notin Loader
                      /\ report' \in {"testing", "restore-failed"}
  BY DEF FlashUntouched, Loader, Sector
<1>0. TypeOK /\ PhasesOK /\ BackupOK /\ FlashUntouched
  BY DEF SafetyInv
<1>1. CASE PowerUp \/ StartTest
  BY <1>1 DEF PowerUp, StartTest
<1>2. CASE Probe \/ Receive
  BY <1>0, <1>2
  DEF Probe, Receive, ReceiveHeader, ReceiveManifest, ReceiveImage, TransferFails,
      testVars, sessionVars, FlashUntouched
<1>3. CASE PowerCut
  <2>1. ~confirmed /\ UNCHANGED <<before, scratch, report>>
    BY <1>3 DEF PowerCut, testVars
  <2>2. CASE stage \notin Testing
    BY <1>0, <1>3, <2>1, <2>2, CutLocal DEF FlashUntouched
  <2>3. CASE stage \in Testing
    <3>1. report' = "testing"
      BY <1>0, <2>1, <2>3 DEF BackupOK
    <3>2. \A p \in Address : p \notin Sector(scratch) => flash'[p] = before[p]
      BY <1>0, <1>3, <2>1, CutLocal DEF FlashUntouched
    <3>. QED
      BY <1>0, <2>1, <3>1, <3>2, TestSector
  <2>. QED
    BY <2>2, <2>3
<1>4. CASE Test
  <2>1. /\ ~confirmed /\ UNCHANGED <<before, scratch>>
        /\ stage \in Testing /\ report = "testing"
    BY <1>0, <1>4, TestStep DEF BackupOK
  <2>2. \A p \in Address : p \notin Sector(scratch) => flash'[p] = before[p]
    BY <1>0, <1>4, <2>1, TestLocal DEF FlashUntouched
  <2>3. \/ report' \in {"testing", "restore-failed"}
        \/ RestoreVerify /\ Restored
    BY <1>0, <1>4, <2>1
    DEF Test, TestErase, TestProgram, TestVerify, RestoreErase, RestoreProgram,
        RestoreVerify, EndTest
  <2>4. RestoreVerify /\ Restored =>
          \A p \in Sector(scratch) : flash'[p] = before[p]
    BY <1>0, <2>1, RestoredSector DEF RestoreVerify
  <2>. QED
    BY <1>0, <2>1, <2>2, <2>3, <2>4, TestSector
<1>5. CASE Confirm \/ Write
  BY <1>0, <1>5, WriteStep DEF Confirm, PhasesOK, sessionVars
<1>6. CASE UNCHANGED vars
  BY <1>0, <1>6 DEF vars, FlashUntouched
<1>. QED
  BY <1>1, <1>2, <1>3, <1>4, <1>5, <1>6 DEF Next

LEMMA SoundStep == SafetyInv /\ [Next]_vars => TestSound'
<1> SUFFICES ASSUME SafetyInv, [Next]_vars,
                    report' \in {"ok", "rw-failed"}, ~confirmed'
             PROVE  \A p \in Loader \union Sector(scratch') : flash'[p] = before'[p]
  BY DEF TestSound, Loader, Sector
<1>0. TypeOK /\ PhasesOK /\ BackupOK /\ TestSound
  BY DEF SafetyInv
<1>1. CASE PowerUp \/ StartTest
  BY <1>1 DEF PowerUp, StartTest
<1>2. CASE Probe \/ Receive
  BY <1>0, <1>2
  DEF Probe, Receive, ReceiveHeader, ReceiveManifest, ReceiveImage, TransferFails,
      testVars, sessionVars, TestSound
<1>3. CASE PowerCut
  <2>1. ~confirmed /\ UNCHANGED <<before, scratch, report>>
    BY <1>3 DEF PowerCut, testVars
  <2>2. stage \notin Testing
    BY <1>0, <2>1 DEF BackupOK
  <2>. QED
    BY <1>0, <1>3, <2>1, <2>2, CutLocal DEF TestSound
<1>4. CASE Test
  <2>1. stage \in Testing /\ report = "testing" /\ UNCHANGED <<before, scratch>>
    BY <1>0, <1>4, TestStep DEF BackupOK
  <2>2. RestoreVerify /\ Restored /\ LoaderUnchanged
    BY <1>4, <2>1
    DEF Test, TestErase, TestProgram, TestVerify, RestoreErase, RestoreProgram,
        RestoreVerify, EndTest
  <2>. QED
    BY <1>0, <2>1, <2>2, RestoredSector DEF RestoreVerify, LoaderUnchanged
<1>5. CASE Confirm \/ Write
  BY <1>0, <1>5, WriteStep DEF Confirm, PhasesOK, sessionVars
<1>6. CASE UNCHANGED vars
  BY <1>0, <1>6 DEF vars, TestSound
<1>. QED
  BY <1>1, <1>2, <1>3, <1>4, <1>5, <1>6 DEF Next

-----------------------------------------------------------------------------
THEOREM RecoverySafety == Spec => []SafetyInv
<1>1. SafetyInv /\ [Next]_vars => SafetyInv'
  BY TypeStep, PhasesStep, BackupStep, ComparedStep, UntouchedStep, SoundStep
  DEF SafetyInv
<1>. QED
  BY <1>1, SafetyInit, PTL DEF Spec

(* Before the confirmation nothing in the flash changes but the sector of a
   test that has not reported its success.                                 *)
THEOREM RecoveryUntouched == Spec => []FlashUntouched
<1>1. SafetyInv => FlashUntouched
  BY DEF SafetyInv
<1>. QED
  BY <1>1, RecoverySafety, PTL

(* A test that claims to have restored its sector has, on any chip.        *)
THEOREM RecoveryTestSound == Spec => []TestSound
<1>1. SafetyInv => TestSound
  BY DEF SafetyInv
<1>. QED
  BY <1>1, RecoverySafety, PTL

(* Only a verified and permitted package is ever written.                  *)
THEOREM RecoveryPermitted == Spec => []WritesPermitted
<1>1. SafetyInv => WritesPermitted
  BY DEF SafetyInv, PhasesOK, WritesPermitted
<1>. QED
  BY <1>1, RecoverySafety, PTL

(* The target reboots only with the announced image in flash, on any chip. *)
THEOREM RecoveryInstalled == Spec => []SuccessInstalled
<1>1. SafetyInv => SuccessInstalled
  BY DEF SafetyInv, PhasesOK, ComparedOK, Permitted, SuccessInstalled
<1>. QED
  BY <1>1, RecoverySafety, PTL
-----------------------------------------------------------------------------
(* The rewrite is an installation: what each stage shows of it.            *)

Shown ==
  CASE stage = "confirm" -> "offered"
    [] stage \in Writing -> "agreed"
    [] stage = "reboot" -> "done"
    [] OTHER -> "idle"

Offered == {p \in Packages : Fit(p)}
Guarded == IF "stray" \in Faults THEN {} ELSE Loader

LEMMA ShownStages ==
  /\ Shown = "offered" <=> stage = "confirm"
  /\ Shown = "agreed" <=> stage \in Writing
  /\ Shown = "done" <=> stage = "reboot"
  /\ stage \notin Writing \union {"confirm", "reboot"} => Shown = "idle"
<1>1. "confirm" \notin Writing /\ "reboot" \notin Writing
  BY StageNames
<1>. QED
  BY <1>1 DEF Shown

(* What has to be seen of a step for it to be one of the installation.      *)
Installs == Install!Next \/ UNCHANGED Install!vars
Kept == \A p \in Guarded : flash'[p] = flash[p]

LEMMA Installation ==
  /\ Shown = "idle" /\ Shown' = "idle" /\ Kept => Installs
  /\ Shown = "idle" /\ Shown' = "offered" /\ package' \in Offered /\ Kept => Installs
  /\ Shown = "offered" /\ Shown' = "agreed" /\ package' = package /\ flash' = flash => Installs
  /\ Shown = "agreed" /\ Shown' = "agreed" /\ package' = package => Installs
  /\ /\ Shown = "agreed" /\ Shown' = "done"
     /\ package' = package /\ package \in Packages /\ flash' = package.image
     => Installs
  /\ Shown \in {"offered", "done"} /\ Shown' = "idle" /\ flash' = flash => Installs
  /\ Shown = "agreed" /\ Shown' = "idle" => Installs
<1>1. Shown = "idle" /\ Shown' = "idle" /\ Kept => Install!Await
  BY DEF Kept, Shown, Guarded, Install!Await, Install!Kept
<1>2. Shown = "idle" /\ Shown' = "offered" /\ package' \in Offered /\ Kept => Install!Make
  BY DEF Kept, Shown, Guarded, Offered, Install!Make, Install!Kept
<1>3. Shown = "offered" /\ Shown' = "agreed" /\ package' = package /\ flash' = flash
        => Install!Agree
  BY DEF Shown, Install!Agree
<1>4. Shown = "agreed" /\ Shown' = "agreed" /\ package' = package => Install!Change
  BY DEF Shown, Install!Change
<1>5. /\ Shown = "agreed" /\ Shown' = "done"
      /\ package' = package /\ package \in Packages /\ flash' = package.image
      => Install!Finish
  BY DEF Shown, Install!Finish
<1>6. Shown = "offered" /\ Shown' = "idle" /\ flash' = flash => Install!GiveUp
  BY DEF Shown, Install!GiveUp
<1>7. Shown = "agreed" /\ Shown' = "idle" => Install!GiveUp
  BY DEF Shown, Install!GiveUp
<1>8. Shown = "done" /\ Shown' = "idle" /\ flash' = flash => Install!Leave
  BY DEF Shown, Install!Leave
<1>. QED
  BY <1>1, <1>2, <1>3, <1>4, <1>5, <1>6, <1>7, <1>8 DEF Installs, Install!Next

LEMMA ShownNext ==
  /\ Shown' = "offered" <=> stage' = "confirm"
  /\ Shown' = "agreed" <=> stage' \in Writing
  /\ Shown' = "done" <=> stage' = "reboot"
  /\ stage' \notin Writing \union {"confirm", "reboot"} => Shown' = "idle"
<1>1. "confirm" \notin Writing /\ "reboot" \notin Writing
  BY StageNames
<1>. QED
  BY <1>1 DEF Shown, Writing

LEMMA InstallStep == SafetyInv /\ [Next]_vars => Installs
<1> SUFFICES ASSUME SafetyInv, [Next]_vars PROVE Installs
  OBVIOUS
<1>0. TypeOK /\ PhasesOK /\ BackupOK
  BY DEF SafetyInv
<1>a. flash' = flash => Kept
  BY DEF Kept
<1>1. CASE PowerUp
  <2>1. stage \in {"off", "reboot"} /\ stage' = "probe" /\ flash' = flash
    BY <1>1 DEF PowerUp
  <2>2. Shown' = "idle" /\ Shown \in {"idle", "done"}
    BY <2>1, ShownStages, ShownNext, StageNames
  <2>. QED
    BY <1>a, <2>1, <2>2, Installation
<1>2. CASE PowerCut
  <2>1. stage' = "off" /\ Shown' = "idle"
    BY <1>2, ShownNext, StageNames DEF PowerCut
  <2>2. CASE stage \in Writing
    BY <2>1, <2>2, ShownStages, Installation
  <2>3. CASE stage \notin Writing
    <3>1. \/ stage \in Testing
          \/ stage \notin Testing /\ flash' = flash
      <4>1. stage \notin Testing => InFlight = {}
        BY <2>3, StageNames DEF InFlight
      <4>. QED
        BY <1>2, <4>1 DEF PowerCut
    <3>2. CASE stage \in Testing
      <4>1. ~confirmed /\ Shown = "idle"
        BY <1>0, <3>2, StageNames, ShownStages DEF PhasesOK
      <4>2. Kept
        <5>1. \A p \in Address : p \notin Sector(scratch) => flash'[p] = flash[p]
          BY <1>0, <1>2, <4>1, CutLocal
        <5>. QED
          BY <1>0, <5>1, TestSector, LoaderInside DEF Guarded, Kept
      <4>. QED
        BY <2>1, <4>1, <4>2, Installation
    <3>3. CASE flash' = flash
      <4>1. Shown \in {"idle", "offered", "done"}
        BY <2>3, ShownStages
      <4>. QED
        BY <1>a, <2>1, <3>3, <4>1, Installation
    <3>. QED
      BY <3>1, <3>2, <3>3
  <2>. QED
    BY <2>2, <2>3
<1>3. CASE Probe \/ StartTest \/ ReceiveHeader \/ ReceiveManifest \/ TransferFails
  <2>1. /\ stage \in {"probe", "command", "manifest", "image"}
        /\ stage' \in {"command", "halted", "test-erase", "manifest", "image"}
        /\ flash' = flash
    BY <1>3 DEF Probe, StartTest, ReceiveHeader, ReceiveManifest, TransferFails
  <2>2. Shown = "idle" /\ Shown' = "idle"
    BY <2>1, ShownStages, ShownNext, StageNames
  <2>. QED
    BY <1>a, <2>1, <2>2, Installation
<1>4. CASE ReceiveImage
  <2>1. /\ stage = "image" /\ stage' \in {"halted", "confirm"} /\ flash' = flash
        /\ package' = package
    BY <1>4 DEF ReceiveImage, sessionVars
  <2>2. Shown = "idle"
    BY <2>1, ShownStages, StageNames
  <2>3. CASE stage' = "halted"
    <3>1. Shown' = "idle"
      BY <2>3, ShownNext, StageNames
    <3>. QED
      BY <1>a, <2>1, <2>2, <3>1, Installation
  <2>4. CASE stage' = "confirm"
    <3>1. package' \in Packages /\ Fit(package')
      <4>1. PhasesOK' /\ TypeOK'
        BY PhasesStep, TypeStep DEF SafetyInv
      <4>. QED
        BY <2>4, <4>1 DEF PhasesOK, TypeOK
    <3>2. package' \in Offered
      BY <3>1 DEF Offered
    <3>3. Shown' = "offered"
      BY <2>4, ShownNext
    <3>. QED
      BY <1>a, <2>1, <2>2, <3>2, <3>3, Installation
  <2>. QED
    BY <2>1, <2>3, <2>4
<1>5. CASE Confirm
  <2>1. /\ stage = "confirm" /\ stage' = "erase" /\ flash' = flash /\ package' = package
    BY <1>5 DEF Confirm
  <2>. QED
    BY <2>1, ShownStages, ShownNext, StageNames, Installation
<1>6. CASE Test
  <2>1. /\ stage \in Testing /\ stage' \in Testing \union {"command"}
    BY <1>0, <1>6, TestStep
  <2>2. Shown = "idle" /\ Shown' = "idle"
    BY <2>1, ShownStages, ShownNext, StageNames
  <2>3. Kept
    <3>1. CASE "stray" \in Faults
      BY <3>1 DEF Guarded, Kept
    <3>2. CASE "stray" \notin Faults
      <4>1. \A p \in Address : p \notin Sector(scratch) => flash'[p] = flash[p]
        BY <1>0, <1>6, <3>2, TestLocal
      <4>. QED
        BY <1>0, <3>2, <4>1, TestSector, LoaderInside DEF Guarded, Kept
    <3>. QED
      BY <3>1, <3>2
  <2>. QED
    BY <2>2, <2>3, Installation
<1>7. CASE Write
  <2>1. /\ stage \in Writing /\ stage' \in Writing \union {"reboot", "halted"}
        /\ package' = package
    BY <1>7, WriteStep DEF sessionVars
  <2>2. Shown = "agreed"
    BY <2>1, ShownStages
  <2>3. CASE stage' \in Writing
    BY <2>1, <2>2, <2>3, ShownNext, Installation
  <2>4. CASE stage' = "halted"
    <3>1. Shown' = "idle"
      BY <2>4, ShownNext, StageNames
    <3>. QED
      BY <2>2, <3>1, Installation
  <2>5. CASE stage' = "reboot"
    <3>1. PhasesOK' /\ ComparedOK' /\ TypeOK'
      BY PhasesStep, ComparedStep, TypeStep DEF SafetyInv
    <3>2. flash' = staging' /\ package' \in Packages
      BY <2>5, <3>1 DEF ComparedOK, TypeOK
    <3>3. Permitted' /\ Fit(package')
      BY <2>5, <3>1 DEF PhasesOK
    <3>4. staging' = package'.image
      BY <3>3 DEF Permitted, Fit
    <3>5. Shown' = "done"
      BY <2>5, ShownNext
    <3>. QED
      BY <2>1, <2>2, <3>2, <3>4, <3>5, Installation
  <2>. QED
    BY <2>1, <2>3, <2>4, <2>5
<1>8. CASE UNCHANGED vars
  <2>1. UNCHANGED <<stage, package, flash>>
    BY <1>8 DEF vars
  <2>2. Shown' = Shown
    BY <2>1 DEF Shown, Writing
  <2>. QED
    BY <2>1, <2>2 DEF Installs, Shown, Install!vars
<1>. QED
  BY <1>1, <1>2, <1>3, <1>4, <1>5, <1>6, <1>7, <1>8 DEF Next, Receive

(* The payload implements the installation, whatever the chip, the host and
   the power supply do: no step of it but an agreed rewrite touches the boot
   loader of a chip that goes where it is told, only a package that passed
   every check is ever agreed to, and it is that package's image the flash
   holds when the target reboots.                                          *)
THEOREM RecoveryInstalls == Spec => ImplementsInstall
<1>1. Init => Install!Init
  <2>1. Init => stage \notin Writing \union {"confirm", "reboot"}
    BY StageNames DEF Init
  <2>. QED
    BY <2>1 DEF Install!Init
<1>2. SafetyInv /\ [Next]_vars => [Install!Next]_Install!vars
  BY InstallStep DEF Installs
<1>. QED
  BY <1>1, <1>2, RecoverySafety, PTL DEF Spec, ImplementsInstall, Install!Spec
=============================================================================
