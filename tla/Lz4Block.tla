------------------------------- MODULE Lz4Block -------------------------------
(***************************************************************************)
(* lz4_decompress_block of the recovery payload: a block is a list of      *)
(* sequences, each some literals and a copy of earlier output, the last    *)
(* one literals only or, which this decoder takes too, a copy.  Lengths    *)
(* that do not fit their half of the token go on in extension bytes.  The  *)
(* numbers are smaller than in the code: a byte has two digits in base     *)
(* Nibble instead of 16, and 2^32 is far behind what 8192 bytes can say.   *)
(***************************************************************************)
EXTENDS Integers, Sequences

CONSTANTS
  Nibble,     \* 16: values of half a token
  MinMatch,   \* 4: the shortest copy
  Capacity,   \* size of the decoded frame
  Blocks      \* the blocks received

ByteMax == Nibble * Nibble - 1
Byte == 0..ByteMax

ASSUME Lz4Assumption ==
  /\ Nibble \in Nat \ {0, 1} /\ MinMatch \in Nat /\ Capacity \in Nat
  /\ Blocks \subseteq Seq(Byte)

VARIABLES
  source,     \* the block on the wire
  si,         \* bytes of it read so far
  output,     \* what has been decoded: di is its length
  phase,      \* what the decoder is reading
  token,      \* token of this sequence
  length,     \* literals or copied bytes of this sequence
  offset      \* how far back the copy starts

blockVars == <<source, si, output, phase, token, length, offset>>

di == Len(output)
At(i) == source[i + 1]
AtEnd == si >= Len(source)

Refuse == phase' = "refused" /\ UNCHANGED <<source, si, output, token, length, offset>>

(* A length that fills its half of the token goes on.                      *)
LengthFrom(half, extension, whole) ==
  /\ length' = half
  /\ phase' = IF half = Nibble - 1 THEN extension ELSE whole

ReadToken ==
  /\ phase = "token"
  /\ IF AtEnd THEN phase' = "done" /\ UNCHANGED <<si, token, length>>
     ELSE /\ token' = At(si)
          /\ si' = si + 1
          /\ LengthFrom(token' \div Nibble, "moreLiterals", "literals")
  /\ UNCHANGED <<source, output, offset>>

ReadExtension(extension, whole) ==
  /\ phase = extension
  /\ IF AtEnd THEN Refuse
     ELSE /\ length' = length + At(si)
          /\ si' = si + 1
          /\ phase' = IF At(si) = ByteMax THEN extension ELSE whole
          /\ UNCHANGED <<source, output, token, offset>>

(* Mutant of LiteralsFit: only the input is looked at.                     *)
LiteralsFitInput == si + length <= Len(source)

LiteralsFit == si + length <= Len(source) /\ di + length <= Capacity

CopyLiterals ==
  /\ phase = "literals"
  /\ IF ~LiteralsFit THEN Refuse
     ELSE /\ output' = output \o SubSeq(source, si + 1, si + length)
          /\ si' = si + length
          /\ phase' = IF si' = Len(source) THEN "done" ELSE "offset"
          /\ UNCHANGED <<source, token, length, offset>>

(* Mutant of OffsetValid: one byte before the output.                      *)
OffsetValidFromZero(back) == back # 0 /\ back <= di + 1

OffsetValid(back) == back # 0 /\ back <= di

ReadOffset ==
  /\ phase = "offset"
  /\ IF si + 2 > Len(source) THEN Refuse
     ELSE LET back == At(si) + (ByteMax + 1) * At(si + 1)
          IN /\ si' = si + 2
             /\ UNCHANGED <<source, output, token>>
             /\ IF OffsetValid(back)
                THEN /\ offset' = back
                     /\ LengthFrom(token % Nibble, "moreCopy", "copy")
                ELSE phase' = "refused" /\ UNCHANGED <<length, offset>>

(* Mutant of CopyFits: the least length is forgotten.                      *)
CopyFitsLength == di + length <= Capacity

CopyFits == di + length + MinMatch <= Capacity

BeginCopy ==
  /\ phase = "copy"
  /\ IF ~CopyFits THEN Refuse
     ELSE /\ length' = length + MinMatch
          /\ phase' = "copying"
          /\ UNCHANGED <<source, si, output, token, offset>>

(* Byte after byte, so that a copy may run into what it writes.            *)
CopyByte ==
  /\ phase = "copying" /\ length > 0
  /\ output' = Append(output, output[di - offset + 1])
  /\ length' = length - 1
  /\ UNCHANGED <<source, si, phase, token, offset>>

EndCopy ==
  /\ phase = "copying" /\ length = 0
  /\ phase' = "token"
  /\ UNCHANGED <<source, si, output, token, length, offset>>

BlockInit ==
  /\ source \in Blocks
  /\ si = 0 /\ output = <<>> /\ phase = "token"
  /\ token = 0 /\ length = 0 /\ offset = 0

BlockNext ==
  \/ ReadToken \/ CopyLiterals \/ ReadOffset
  \/ BeginCopy \/ CopyByte \/ EndCopy
  \/ ReadExtension("moreLiterals", "literals")
  \/ ReadExtension("moreCopy", "copy")

BlockSpec == BlockInit /\ [][BlockNext]_blockVars

-----------------------------------------------------------------------------
(* Whatever the block says, the decoder stays within the wire buffer, within
   the frame, also for what it still has to copy, and takes what it copies
   from what it has written.                                               *)
InBounds ==
  /\ si \in 0..Len(source)
  /\ Len(output) <= Capacity
  /\ phase = "copying" => Len(output) + length <= Capacity
  /\ phase \in {"moreCopy", "copy", "copying"} => offset \in 1..Len(output)
=============================================================================
