--------------------------- MODULE LoaderBootProofs ---------------------------
(* The DRAM and the mapping of LoaderBoot, for every board, every number of
   flash regions and every size of the TLB.                                *)
EXTENDS LoaderBoot, TLAPS

Mapping == {"chip", "memory", "train", "caches", "mode", "stage1", "continue", "kernel"}

(* The DRAM has been trained when it is used, and outside the boot mode it
   always has: it is never trained again.                                  *)
DramInv ==
  /\ train = "done" => \A l \in Lanes : InEye(l)
  /\ "boot" \notin control => train = "done"
  /\ step \in {"caches", "mode", "stage1", "continue", "kernel"} => train = "done"
  /\ step = "train" => "boot" \in control

(* The TLB holds the mapping and nothing else once it is built, and stays so
   for as long as the loader runs in it.                                   *)
TlbRight ==
  \A i \in DOMAIN tlb : tlb[i] = IF i < 5 THEN IoMapping[i + 1] ELSE Unused

TlbInv ==
  /\ DOMAIN tlb = 0..(TlbEntries - 1)
  /\ step = "map" => ~mapped /\ \A i \in DOMAIN tlb : tlb[i] = Unused
  /\ step \in Mapping \/ mapped => TlbRight

-----------------------------------------------------------------------------
LEMMA InitDram == Init => DramInv
  BY DEF Init, DramInv

(* A step of training leaves the loader where it is and is done only with
   every lane inside its eye.                                              *)
LEMMA TrainDram == DramInv /\ TrainMemory => DramInv'
  <1> SUFFICES ASSUME DramInv, TrainMemory PROVE DramInv'
    OBVIOUS
  <1>1. step = "train" /\ step' = step /\ control' = control /\ "boot" \in control
    BY DEF TrainMemory, bootVars, DramInv
  <1>2. CASE train \in {"ones", "zeros"} /\ LookFor(train)
    <2>1. train' \in {"ones", "zeros", "test", "retry"}
      BY <1>2 DEF LookFor
    <2> QED
      BY <1>1, <2>1 DEF DramInv
  <1>3. CASE TestMemory
    <2>1. train' = "done" => \A l \in Lanes' : InEye(l)'
      BY <1>3 DEF TestMemory, TestPasses, Lanes, InEye
    <2> QED
      BY <1>1, <2>1 DEF DramInv
  <1>4. CASE train = "retry" /\ StartTraining
    BY <1>1, <1>4 DEF StartTraining, DramInv
  <1> QED
    BY <1>2, <1>3, <1>4 DEF TrainMemory, Train

LEMMA InitMemoryDram == DramInv /\ InitMemory => DramInv'
  <1> SUFFICES ASSUME DramInv, InitMemory PROVE DramInv'
    OBVIOUS
  <1>1. CASE "boot" \in control
    BY <1>1 DEF InitMemory, StartTraining, DramInv
  <1>2. CASE "boot" \notin control
    BY <1>2 DEF InitMemory, DramInv, trainVars, Lanes, InEye
  <1> QED
    BY <1>1, <1>2

LEMMA NextDram == DramInv /\ [Next]_vars => DramInv'
  <1> SUFFICES ASSUME DramInv, [Next]_vars PROVE DramInv'
    OBVIOUS
  <1> USE DEF DramInv, trainVars, Lanes, InEye
  <1>1. CASE Enter
    BY <1>1 DEF Enter
  <1>2. CASE InvalidateTlb
    BY <1>2 DEF InvalidateTlb
  <1>3. CASE MapIo
    BY <1>3 DEF MapIo
  <1>4. CASE KeepTlb
    BY <1>4 DEF KeepTlb
  <1>5. CASE CheckChip
    BY <1>5 DEF CheckChip
  <1>6. CASE InitMemory
    BY <1>6, InitMemoryDram
  <1>7. CASE TrainMemory
    BY <1>7, TrainDram
  <1>8. CASE MemoryTrained
    BY <1>8 DEF MemoryTrained
  <1>9. CASE InitCaches
    BY <1>9 DEF InitCaches
  <1>10. CASE LeaveBootMode
    BY <1>10 DEF LeaveBootMode
  <1>11. CASE NotBootMode
    BY <1>11 DEF NotBootMode
  <1>12. CASE StageReturns
    BY <1>12 DEF StageReturns
  <1>13. CASE BootKernel
    BY <1>13 DEF BootKernel
  <1>14. CASE KernelReturns
    BY <1>14 DEF KernelReturns
  <1>15. CASE NextRegion
    BY <1>15 DEF NextRegion
  <1>16. CASE UNCHANGED vars
    BY <1>16 DEF vars, bootVars
  <1> QED
    BY <1>1, <1>2, <1>3, <1>4, <1>5, <1>6, <1>7, <1>8, <1>9, <1>10, <1>11,
       <1>12, <1>13, <1>14, <1>15, <1>16 DEF Next, Loader

(* On every board, whatever reads go wrong and whatever regions fail,
   nothing runs from or on a DRAM that is sampled outside an eye.          *)
THEOREM DramIsSampledRight == Spec => []DramSampledRight
  <1>1. DramInv => DramSampledRight
    BY DEF DramInv, DramSampledRight
  <1> QED
    BY InitDram, NextDram, <1>1, PTL DEF Spec

-----------------------------------------------------------------------------
LEMMA InitTlb == Init => TlbInv
  BY DEF Init, TlbInv, Mapping

LEMMA NextTlb == TlbInv /\ [Next]_vars => TlbInv'
  <1> SUFFICES ASSUME TlbInv, [Next]_vars PROVE TlbInv'
    OBVIOUS
  <1>0. TlbEntries \in Nat /\ TlbEntries >= 5
    BY LoaderAssumption
  <1>1. CASE InvalidateTlb
    <2>1. /\ DOMAIN tlb' = 0..(TlbEntries - 1)
          /\ \A i \in DOMAIN tlb' : tlb'[i] = Unused
      BY <1>0, <1>1 DEF InvalidateTlb, Invalidated, TlbCount, TlbInv
    <2>2. step' = "map" /\ ~mapped'
      BY <1>1 DEF InvalidateTlb
    <2> QED
      BY <2>1, <2>2 DEF TlbInv, Mapping
  <1>2. CASE MapIo
    <2>1. /\ DOMAIN tlb' = DOMAIN tlb
          /\ \A i \in DOMAIN tlb' : tlb'[i] = IF i < 5 THEN IoMapping[i + 1] ELSE Unused
      BY <1>2 DEF MapIo, TlbInv
    <2>2. step' = "chip"
      BY <1>2 DEF MapIo
    <2> QED
      BY <2>1, <2>2 DEF TlbInv, TlbRight, Mapping
  <1>3. CASE InitCaches
    <2>1. TlbRight /\ DOMAIN tlb = 0..(TlbEntries - 1)
      BY <1>3 DEF InitCaches, TlbInv, Mapping
    <2>2. tlb' = [tlb EXCEPT ![3] = IoMapping[4]] /\ step' = "mode"
      BY <1>3 DEF InitCaches
    <2>3. DOMAIN tlb' = DOMAIN tlb
      BY <2>2
    <2>4. ASSUME NEW i \in DOMAIN tlb'
          PROVE  tlb'[i] = IF i < 5 THEN IoMapping[i + 1] ELSE Unused
      BY <2>1, <2>2, <2>3, <2>4 DEF TlbRight
    <2>5. TlbRight'
      BY <2>4 DEF TlbRight, IoMapping, Unused
    <2> QED
      BY <2>1, <2>2, <2>3, <2>5 DEF TlbInv, Mapping
  <1>4. CASE UNCHANGED <<tlb, mapped>> /\ step' \in {"init", "vector"}
    BY <1>4 DEF TlbInv, TlbRight, Mapping
  <1>5. CASE UNCHANGED tlb /\ TlbRight /\ step' # "map"
    BY <1>5 DEF TlbInv, TlbRight
  <1>6. CASE Enter
    BY <1>4, <1>6 DEF Enter, Mapping
  <1>7. CASE KeepTlb
    BY <1>5, <1>7 DEF KeepTlb, TlbInv
  <1>8. CASE CheckChip
    BY <1>5, <1>8 DEF CheckChip, TlbInv, Mapping
  <1>9. CASE InitMemory
    BY <1>5, <1>9 DEF InitMemory, TlbInv, Mapping
  <1>10. CASE TrainMemory
    BY <1>5, <1>10 DEF TrainMemory, bootVars, TlbInv, Mapping
  <1>11. CASE MemoryTrained
    BY <1>5, <1>11 DEF MemoryTrained, TlbInv, Mapping
  <1>12. CASE LeaveBootMode
    BY <1>5, <1>12 DEF LeaveBootMode, TlbInv, Mapping
  <1>13. CASE NotBootMode
    BY <1>5, <1>13 DEF NotBootMode, TlbInv, Mapping
  <1>14. CASE StageReturns
    BY <1>5, <1>14 DEF StageReturns, TlbInv, Mapping
  <1>15. CASE BootKernel
    BY <1>5, <1>15 DEF BootKernel, TlbInv, Mapping
  <1>16. CASE KernelReturns
    BY <1>5, <1>16 DEF KernelReturns, TlbInv, Mapping
  <1>17. CASE NextRegion
    BY <1>4, <1>17 DEF NextRegion, Mapping
  <1>18. CASE UNCHANGED vars
    BY <1>18 DEF vars, bootVars, TlbInv, TlbRight
  <1> QED
    BY <1>1, <1>2, <1>3, <1>6, <1>7, <1>8, <1>9, <1>10, <1>11, <1>12, <1>13,
       <1>14, <1>15, <1>16, <1>17, <1>18 DEF Next, Loader

(* The entry of the mapping that holds an address is the only one that
   matches it, and maps it to itself.                                      *)
LEMMA OneEntry ==
  ASSUME TlbRight, DOMAIN tlb = 0..(TlbEntries - 1),
         NEW a \in {FlashTo, DevCpuTo, CfgTo, DdrTo, DdrTo + 15} \union PiTo..(PiTo + 3)
  PROVE  \E i \in DOMAIN tlb :
           /\ \A j \in DOMAIN tlb : Matches(tlb[j], a) <=> j = i
           /\ Translation(tlb[i], a) = a
  <1>1. TlbEntries \in Nat /\ TlbEntries >= 5
    BY LoaderAssumption
  <1>2. /\ tlb[0] = [offset |-> 96, size |-> 1] /\ tlb[1] = [offset |-> 112, size |-> 1]
        /\ tlb[2] = [offset |-> 64, size |-> 1] /\ tlb[3] = [offset |-> 32, size |-> 16]
        /\ tlb[4] = [offset |-> 92, size |-> 4]
    <2>1. ASSUME NEW i \in 0..4 PROVE tlb[i] = IoMapping[i + 1]
      BY <1>1 DEF TlbRight
    <2>2. /\ IoMapping[1] = [offset |-> 96, size |-> 1]
          /\ IoMapping[2] = [offset |-> 112, size |-> 1]
          /\ IoMapping[3] = [offset |-> 64, size |-> 1]
          /\ IoMapping[4] = [offset |-> 32, size |-> 16]
          /\ IoMapping[5] = [offset |-> 92, size |-> 4]
      BY DEF IoMapping, DevCpuTo, CfgTo, FlashTo, DdrTo, PiTo
    <2>3. tlb[0] = IoMapping[0 + 1] /\ tlb[1] = IoMapping[1 + 1]
          /\ tlb[2] = IoMapping[2 + 1] /\ tlb[3] = IoMapping[3 + 1]
          /\ tlb[4] = IoMapping[4 + 1]
      BY <2>1
    <2> QED
      BY <2>2, <2>3
  <1>3. \A j \in DOMAIN tlb : j > 4 => tlb[j].size = 0
    BY <1>1 DEF TlbRight, Unused
  <1>4. ASSUME NEW i \in 0..4, Translation(tlb[i], a) = a,
               \A j \in 0..4 : Matches(tlb[j], a) <=> j = i
        PROVE  \E k \in DOMAIN tlb :
                 /\ \A j \in DOMAIN tlb : Matches(tlb[j], a) <=> j = k
                 /\ Translation(tlb[k], a) = a
    <2>1. i \in DOMAIN tlb
      BY <1>1
    <2>2. ASSUME NEW j \in DOMAIN tlb PROVE Matches(tlb[j], a) <=> j = i
      <3>1. CASE j \in 0..4
        BY <1>4, <3>1
      <3>2. CASE j > 4
        BY <1>3, <3>2 DEF Matches
      <3> QED
        BY <1>1, <3>1, <3>2
    <2> QED
      BY <1>4, <2>1, <2>2
  <1> USE <1>2 DEF Matches, Translation, FrameOf
  <1>5. CASE a = 96
    BY <1>4, <1>5
  <1>6. CASE a = 112
    BY <1>4, <1>6
  <1>7. CASE a = 64
    BY <1>4, <1>7
  <1>8. CASE a = 32
    BY <1>4, <1>8
  <1>9. CASE a = 47
    BY <1>4, <1>9
  <1>10. CASE a = 92
    BY <1>4, <1>10
  <1>11. CASE a = 93
    BY <1>4, <1>11
  <1>12. CASE a = 94
    BY <1>4, <1>12
  <1>13. CASE a = 95
    BY <1>4, <1>13
  <1> QED
    BY <1>5, <1>6, <1>7, <1>8, <1>9, <1>10, <1>11, <1>12, <1>13
    DEF FlashTo, DevCpuTo, CfgTo, DdrTo, PiTo

(* Whatever the TLB held at reset, however large it is and however often the
   mapping is built: each address in use has one entry and stands for
   itself.                                                                 *)
THEOREM AccessIsMapped == Spec => []AccessMapped
  <1>1. TlbInv => AccessMapped
    <2> SUFFICES ASSUME TlbInv, NEW a \in Used
                 PROVE  \E i \in DOMAIN tlb :
                          /\ \A j \in DOMAIN tlb : Matches(tlb[j], a) <=> j = i
                          /\ Translation(tlb[i], a) = a
      BY DEF AccessMapped
    <2>1. TlbRight
      BY DEF Used, TlbInv, Mapping
    <2>2. a \in {FlashTo, DevCpuTo, CfgTo, DdrTo, DdrTo + 15} \union PiTo..(PiTo + 3)
      BY DEF Used
    <2> QED
      BY <2>1, <2>2, OneEntry DEF TlbInv
  <1> QED
    BY InitTlb, NextTlb, <1>1, PTL DEF Spec

-----------------------------------------------------------------------------
(* Types.                                                                  *)

LEMMA BoardFields ==
  ASSUME NEW b \in Boards
  PROVE  /\ b.chip \in Chips
         /\ \E d \in SUBSET {0, 1} : b.eyes \in [d -> Eye]
<1>1. PICK c \in Chips :
        b \in [chip : {c}, eyes : [LaneSet(c) -> Eye], uart : BOOLEAN,
               kernels : [0..(Regions - 1) -> {"bad", "stays", "returns"}]]
  BY LoaderAssumption DEF Board
<1>2. b.chip = c /\ b.eyes \in [LaneSet(c) -> Eye] /\ LaneSet(c) \in SUBSET {0, 1}
  BY <1>1 DEF LaneSet
<1> QED BY <1>1, <1>2

LEMMA AdjustedDelays ==
  ASSUME dly \in [Lanes -> Delay], NEW ls, NEW by \in Int
  PROVE  Adjusted(ls, by) \in [Lanes -> Delay]
BY DEF Adjusted, CanAdjust

LEMMA TrainTypes ==
  ASSUME dly \in [Lanes -> Delay], glitches \in 0..MaxGlitches, Train
  PROVE  /\ dly' \in [Lanes -> Delay] /\ glitches' \in 0..MaxGlitches /\ eyes' = eyes
         /\ train' \in {"idle", "ones", "zeros", "test", "retry", "done"}
<1>0. DlyLimit \in Nat \ {0} /\ BackOff \in Nat /\ MaxGlitches \in Nat
  BY DlyAssumption
<1>1. CASE train \in {"ones", "zeros"} /\ LookFor(train)
  <2>1. glitches' \in 0..MaxGlitches
    <3>1. \E bytes : Read(bytes)
      BY <1>1 DEF LookFor
    <3> QED BY <1>0, <3>1 DEF Read
  <2>2. dly' \in [Lanes -> Delay]
    <3>1. CASE dly' = dly
      BY <3>1
    <3>2. CASE dly' = Adjusted(Lanes, -BackOff)
      BY <1>0, <3>2, AdjustedDelays
    <3>3. CASE \E ls : dly' = Adjusted(ls, 1)
      BY <3>3, AdjustedDelays
    <3> QED BY <1>1, <3>1, <3>2, <3>3 DEF LookFor
  <2> QED BY <1>1, <2>1, <2>2 DEF LookFor
<1>2. CASE TestMemory
  BY <1>2 DEF TestMemory
<1>3. CASE StartTraining
  BY <1>0, <1>3 DEF StartTraining, Delay
<1> QED BY <1>1, <1>2, <1>3 DEF Train

LEMMA InitTypes == Init => TypeOK
<1> SUFFICES ASSUME Init PROVE TypeOK
  OBVIOUS
<1>1. dly \in [Lanes -> Delay] /\ glitches \in 0..MaxGlitches /\ 0 \in 0..(Regions - 1)
  BY DlyAssumption, LoaderAssumption DEF Init, Delay
<1>2. \A i \in DOMAIN tlb : tlb[i].size \in Nat /\ tlb[i].offset \in Nat
  BY DEF Init, Stale
<1> QED BY <1>1, <1>2 DEF Init, TypeOK, Chips

LEMMA NextTypes == TypeOK /\ TlbInv /\ [Next]_vars => TypeOK'
<1> SUFFICES ASSUME TypeOK, TlbInv, [Next]_vars PROVE TypeOK'
  OBVIOUS
<1>0. /\ Regions \in Nat \ {0} /\ TlbEntries \in Nat /\ TlbEntries >= 5
      /\ MaxGlitches \in Nat /\ DlyLimit \in Nat \ {0}
  BY LoaderAssumption, DlyAssumption
<1> DEFINE Entries(t) == \A i \in DOMAIN t : t[i].size \in Nat /\ t[i].offset \in Nat
<1>1. ASSUME NEW i \in 1..5 PROVE IoMapping[i].size \in Nat /\ IoMapping[i].offset \in Nat
  <2>1. CASE i = 1
    BY <2>1 DEF IoMapping, DevCpuTo
  <2>2. CASE i = 2
    BY <2>2 DEF IoMapping, CfgTo
  <2>3. CASE i = 3
    BY <2>3 DEF IoMapping, FlashTo
  <2>4. CASE i = 4
    BY <2>4 DEF IoMapping, DdrTo
  <2>5. CASE i = 5
    BY <2>5 DEF IoMapping, PiTo
  <2> QED BY <1>1, <2>1, <2>2, <2>3, <2>4, <2>5
<1>2. Entries(tlb)
  BY DEF TypeOK
<1>3. CASE InvalidateTlb
  <2>1. Entries(tlb')
    BY <1>2, <1>3 DEF InvalidateTlb, Invalidated, Unused
  <2> QED BY <1>3, <2>1 DEF InvalidateTlb, TypeOK, trainVars, Lanes, Delay
<1>4. CASE MapIo
  <2>1. DOMAIN tlb = 0..(TlbEntries - 1)
    BY DEF TlbInv
  <2>2. ASSUME NEW i \in DOMAIN tlb' PROVE tlb'[i].size \in Nat /\ tlb'[i].offset \in Nat
    <3>1. i \in DOMAIN tlb /\ tlb'[i] = IF i < 5 THEN IoMapping[i + 1] ELSE tlb[i]
      BY <1>4 DEF MapIo
    <3>2. i < 5 => i + 1 \in 1..5
      BY <1>0, <2>1, <3>1
    <3> QED BY <1>1, <1>2, <3>1, <3>2
  <2> QED BY <1>4, <2>2 DEF MapIo, TypeOK, trainVars, Lanes, Delay
<1>5. CASE InitCaches
  <2>1. Entries(tlb')
    <3>1. IoMapping[4].size \in Nat /\ IoMapping[4].offset \in Nat
      BY <1>1
    <3> QED BY <1>2, <1>5, <3>1 DEF InitCaches
  <2> QED BY <1>5, <2>1 DEF InitCaches, TypeOK, trainVars, Lanes, Delay
<1> USE DEF TypeOK, trainVars, Lanes, Delay
<1>6. CASE TrainMemory
  <2>1. /\ dly' \in [Lanes -> Delay] /\ glitches' \in 0..MaxGlitches /\ eyes' = eyes
        /\ train' \in {"idle", "ones", "zeros", "test", "retry", "done"}
    BY <1>6, TrainTypes DEF TrainMemory
  <2> QED BY <1>6, <2>1 DEF TrainMemory, bootVars
<1>7. CASE InitMemory
  BY <1>0, <1>7 DEF InitMemory, StartTraining
<1>8. CASE Enter \/ KeepTlb \/ CheckChip \/ MemoryTrained
  BY <1>8 DEF Enter, KeepTlb, CheckChip, MemoryTrained, Chips
<1>9. CASE LeaveBootMode \/ NotBootMode \/ StageReturns \/ BootKernel \/ KernelReturns
  BY <1>9 DEF LeaveBootMode, NotBootMode, StageReturns, BootKernel, KernelReturns
<1>10. CASE NextRegion
  BY <1>0, <1>10 DEF NextRegion
<1>11. CASE UNCHANGED vars
  BY <1>11 DEF vars, bootVars
<1> QED
  BY <1>3, <1>4, <1>5, <1>6, <1>7, <1>8, <1>9, <1>10, <1>11 DEF Next, Loader

(* Types on every board; with any eyes and any glitches, no delay is ever set
   that adjust_dly refuses, and no region behind the last one is entered.  *)
THEOREM TypeCorrect == Spec => []TypeOK
  BY InitTypes, NextTypes, InitTlb, NextTlb, PTL DEF Spec
=============================================================================
