----------------------------- MODULE Lz4Reference -----------------------------
(* What an LZ4 block means, against which Lz4Block is checked: lists of
   sequences, how they are written and what they stand for.                *)
EXTENDS Lz4Block

CONSTANT Lists      \* those whose blocks are considered

(* "copy" counts from MinMatch.  The last sequence of a list may have no
   copy; what stands in its half of the token is of no matter.             *)
LzSequence ==
  [literals : Seq(Byte), back : 0..(ByteMax + 1) * (ByteMax + 1) - 1,
   copy : Nat, last : BOOLEAN]

IsList(list) == \A k \in 1..(Len(list) - 1) : ~list[k].last

ASSUME ListsAssumption == \A list \in Lists : list \in Seq(LzSequence) /\ IsList(list)

Half(n) == IF n < Nibble - 1 THEN n ELSE Nibble - 1

Full(m) == [k \in 1..m |-> ByteMax]

Extension(n) ==
  IF n < Nibble - 1 THEN <<>>
  ELSE LET rest == n - (Nibble - 1)
       IN Full(rest \div ByteMax) \o <<rest % ByteMax>>

TokenOf(s) == Half(Len(s.literals)) * Nibble + Half(s.copy)

OffsetOf(back) == <<back % (ByteMax + 1), back \div (ByteMax + 1)>>

Opening(tok, literals) == <<tok>> \o (Extension(Len(literals)) \o literals)

Written(s) ==
  IF s.last THEN Opening(TokenOf(s), s.literals)
  ELSE Opening(TokenOf(s), s.literals) \o (OffsetOf(s.back) \o Extension(s.copy))

(* The block of the first k sequences, and of all of them.                 *)
Encoded(list) ==
  LET block[k \in 0..Len(list)] ==
        IF k = 0 THEN <<>> ELSE block[k - 1] \o Written(list[k])
  IN block

Encode(list) == Encoded(list)[Len(list)]

(* The output continued by a sequence: a copy from n bytes back repeats the
   last n bytes, if there are as many.                                     *)
Meaningless == <<-1>>

Copied(out, back, n) == [j \in 1..n |-> out[Len(out) - back + 1 + ((j - 1) % back)]]

Meant(out, s) ==
  LET end == out \o s.literals
  IN IF out = Meaningless THEN Meaningless
     ELSE IF s.last THEN end
     ELSE IF s.back \notin 1..Len(end) THEN Meaningless
     ELSE end \o Copied(end, s.back, s.copy + MinMatch)

Expanded(list) ==
  LET out[k \in 0..Len(list)] ==
        IF k = 0 THEN <<>> ELSE Meant(out[k - 1], list[k])
  IN out

Expand(list) == Expanded(list)[Len(list)]

Meaning ==
  {m \in {<<Encode(list), Expand(list)>> : list \in Lists} :
     m[2] # Meaningless /\ Len(m[2]) <= Capacity}

WellFormed == {m[1] : m \in Meaning}

(* The decoder takes the blocks that have a meaning within the frame, and no
   other, gives that meaning, and stays within its buffers on the way.     *)
DecodedRight ==
  /\ InBounds
  /\ phase = "done" => <<source, output>> \in Meaning
  /\ phase = "refused" => source \notin WellFormed
=============================================================================
