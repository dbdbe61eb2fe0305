----------------------------- MODULE DramTraining ----------------------------
(***************************************************************************)
(* train_bytelane and test_memory of init.h: the loader looks for the      *)
(* delay at which each byte lane of the DRAM is sampled.  A lane has an    *)
(* eye, the delays at which a read returns what was written.  Before the   *)
(* eye it returns nothing in particular, behind it the next byte of the    *)
(* burst.  A read on the edge of the eye may return anything: a glitch.    *)
(***************************************************************************)
EXTENDS Integers

CONSTANTS
  DlyLimit,      \* 31: adjust_dly refuses this delay and more
  BackOff,       \* 3: how far training goes back from the end of the eye
  MaxGlitches    \* bound: reads that return something else

ASSUME DlyAssumption ==
  DlyLimit \in Nat \ {0} /\ BackOff \in Nat /\ MaxGlitches \in Nat

VARIABLES
  eyes,       \* hardware: the eye of each lane, delays from..(to - 1)
  dly,        \* DQS_DLY of each lane
  train,      \* what the training loop is doing
  glitches    \* glitches so far

trainVars == <<eyes, dly, train, glitches>>

(* One lane with the 8-bit interface (Luton26), two with 16 bits (Jaguar1). *)
Lanes == DOMAIN eyes

Delay == 0..(DlyLimit - 1)
InEye(l) == dly[l] \in eyes[l].from..(eyes[l].to - 1)

-----------------------------------------------------------------------------
(* adjust_dly adds unsigned: going below zero wraps and is refused too.    *)
CanAdjust(l, by) == dly[l] + by \in Delay

Adjusted(ls, by) ==
  [l \in Lanes |-> IF l \in ls /\ CanAdjust(l, by) THEN dly[l] + by ELSE dly[l]]

(* The pattern written is one byte of ones, then zeros.                    *)
Sample(l) ==
  IF dly[l] < eyes[l].from THEN "other" ELSE IF InEye(l) THEN "ones" ELSE "zeros"

Read(bytes) ==
  \/ /\ bytes = [l \in Lanes |-> Sample(l)]
     /\ UNCHANGED glitches
  \/ /\ glitches < MaxGlitches
     /\ glitches' = glitches + 1

(* lookfor_and_incr: lanes that do not read the byte go one further, up to
   the first one that cannot.                                              *)
LookFor(byte) ==
  \E bytes \in [Lanes -> {"ones", "zeros", "other"}] :
    LET wrong == {l \in Lanes : bytes[l] # byte}
        stuck == {l \in wrong : ~CanAdjust(l, 1)}
    IN /\ Read(bytes)
       /\ \/ /\ wrong = {}
             /\ IF byte = "ones" THEN train' = "zeros" /\ UNCHANGED dly
                                 ELSE train' = "test" /\ dly' = Adjusted(Lanes, -BackOff)
          \/ /\ wrong # {}
             /\ train' = IF stuck = {} THEN train ELSE "retry"
             /\ dly' = Adjusted({l \in wrong : \A s \in stuck : l < s}, 1)
       /\ UNCHANGED eyes

(* Mutant of StartTraining: the delays are those of the last attempt.      *)
StartTrainingFromHere ==
  /\ train' = "ones"
  /\ UNCHANGED <<eyes, dly, glitches>>

(* The pattern is written and the delays start from zero.                  *)
StartTraining ==
  /\ train' = "ones"
  /\ dly' = [l \in Lanes |-> 0]
  /\ UNCHANGED <<eyes, glitches>>

(* Mutant of TestPasses: only the first lane is looked at.                 *)
TestPassesFirstLane == InEye(0)

(* A word of zeros is followed by a word of ones, so that sampling a byte
   too early or too late shows in one of the two.                          *)
TestPasses == \A l \in Lanes : InEye(l)

TestMemory ==
  /\ train = "test"
  /\ train' = IF TestPasses THEN "done" ELSE "retry"
  /\ UNCHANGED <<eyes, dly, glitches>>

(* The loop of init_memory_subsystem: it is never given up.                *)
Train ==
  \/ train \in {"ones", "zeros"} /\ LookFor(train)
  \/ TestMemory
  \/ train = "retry" /\ StartTraining
=============================================================================
