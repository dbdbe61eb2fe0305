---------------------------- MODULE Lz4BlockProofs ----------------------------
(* The decoder of Lz4Block stays within its buffers, takes every block that
   means something within the frame and no other, and gives that meaning:
   for blocks of any length, numbers of any size and lengths with any number
   of extension bytes.                                                     *)
EXTENDS Lz4Reference, SequenceTheorems, FunctionTheorems, FiniteSetTheorems, TLAPS

Phases == {"token", "moreLiterals", "literals", "offset", "moreCopy", "copy",
           "copying", "done", "refused"}

(* What InBounds needs to be inductive: the types, and the offset while the
   length of its copy is still being read.                                 *)
IInv ==
  /\ source \in Seq(Byte) /\ output \in Seq(Byte)
  /\ phase \in Phases
  /\ token \in Byte /\ length \in Nat /\ offset \in Nat
  /\ InBounds

LEMMA ByteMaxNat == ByteMax \in Nat
  <1>1. Nibble \in Nat /\ Nibble >= 2
    BY Lz4Assumption
  <1>2. Nibble * Nibble >= 1 /\ Nibble * Nibble \in Nat
    BY <1>1
  <1> QED
    BY <1>2 DEF ByteMax

(* Bytes read are bytes, halves of them are numbers.                       *)
LEMMA AtByte ==
  ASSUME IInv, NEW i \in Nat, i < Len(source)
  PROVE  At(i) \in Byte /\ At(i) \in Nat
  <1>1. At(i) \in Byte
    BY DEF IInv, At
  <1> QED
    BY <1>1, ByteMaxNat DEF Byte

LEMMA Halves ==
  ASSUME NEW t \in Nat
  PROVE  t \div Nibble \in Nat /\ t % Nibble \in Nat
  <1>1. Nibble \in Nat /\ Nibble >= 2
    BY Lz4Assumption
  <1> QED
    BY <1>1

LEMMA InitIInv == BlockInit => IInv
  <1> SUFFICES ASSUME BlockInit PROVE IInv
    OBVIOUS
  <1>1. source \in Seq(Byte)
    BY Lz4Assumption DEF BlockInit
  <1>2. Len(source) \in Nat /\ 0 \in Byte
    BY <1>1, ByteMaxNat DEF Byte
  <1> QED
    BY <1>1, <1>2, Lz4Assumption DEF BlockInit, IInv, InBounds, Phases

LEMMA ReadTokenIInv == IInv /\ ReadToken => IInv'
  <1> SUFFICES ASSUME IInv, ReadToken PROVE IInv'
    OBVIOUS
  <1>1. CASE AtEnd
    BY <1>1 DEF IInv, ReadToken, InBounds, Phases
  <1>2. CASE ~AtEnd
    <2>1. si \in Nat /\ si < Len(source) /\ Len(source) \in Nat
      BY <1>2 DEF AtEnd, IInv, InBounds
    <2>2. token' \in Byte /\ token' \in Nat
      BY <1>2, <2>1, AtByte DEF ReadToken
    <2>3. length' \in Nat
      BY <1>2, <2>2, Halves DEF ReadToken, LengthFrom
    <2>4. phase' \in {"moreLiterals", "literals"}
      BY <1>2 DEF ReadToken, LengthFrom
    <2>5. si' = si + 1 /\ UNCHANGED <<source, output, offset>>
      BY <1>2 DEF ReadToken
    <2> QED
      BY <2>1, <2>2, <2>3, <2>4, <2>5 DEF IInv, InBounds, Phases
  <1> QED
    BY <1>1, <1>2

LEMMA RefuseIInv == IInv /\ Refuse => IInv'
  BY DEF IInv, Refuse, InBounds, Phases

LEMMA ExtensionIInv ==
  ASSUME IInv, NEW e, NEW w,
         <<e, w>> \in {<<"moreLiterals", "literals">>, <<"moreCopy", "copy">>},
         ReadExtension(e, w)
  PROVE  IInv'
  <1>1. CASE AtEnd
    BY <1>1, RefuseIInv DEF ReadExtension
  <1>2. CASE ~AtEnd
    <2>1. si \in Nat /\ si < Len(source) /\ Len(source) \in Nat
      BY <1>2 DEF AtEnd, IInv, InBounds
    <2>2. length' \in Nat
      BY <1>2, <2>1, AtByte DEF ReadExtension, IInv
    <2>3. phase' \in {e, w} /\ phase = e
      BY <1>2 DEF ReadExtension
    <2>4. si' = si + 1 /\ UNCHANGED <<source, output, token, offset>>
      BY <1>2 DEF ReadExtension
    <2>5. \/ e = "moreLiterals" /\ w = "literals"
          \/ e = "moreCopy" /\ w = "copy"
      OBVIOUS
    <2> QED
      BY <2>1, <2>2, <2>3, <2>4, <2>5 DEF IInv, InBounds, Phases
  <1> QED
    BY <1>1, <1>2

LEMMA CopyLiteralsIInv == IInv /\ CopyLiterals => IInv'
  <1> SUFFICES ASSUME IInv, CopyLiterals PROVE IInv'
    OBVIOUS
  <1>1. CASE ~LiteralsFit
    BY <1>1, RefuseIInv DEF CopyLiterals
  <1>2. CASE LiteralsFit
    <2> DEFINE part == SubSeq(source, si + 1, si + length)
    <2>1. si \in Nat /\ length \in Nat /\ si + length <= Len(source)
          /\ Len(output) + length <= Capacity
      BY <1>2 DEF LiteralsFit, di, IInv, InBounds
    <2>2. part \in Seq(Byte) /\ Len(part) = length
      BY <2>1 DEF IInv
    <2>3. output' = output \o part /\ si' = si + length
          /\ UNCHANGED <<source, token, length, offset>>
          /\ phase' \in {"done", "offset"}
      BY <1>2 DEF CopyLiterals
    <2> HIDE DEF part
    <2>4. output' \in Seq(Byte) /\ Len(output') = Len(output) + length
      BY <2>2, <2>3, ConcatProperties DEF IInv
    <2> QED
      BY <2>1, <2>3, <2>4, Lz4Assumption DEF IInv, InBounds, Phases
  <1> QED
    BY <1>1, <1>2

LEMMA ReadOffsetIInv == IInv /\ ReadOffset => IInv'
  <1> SUFFICES ASSUME IInv, ReadOffset PROVE IInv'
    OBVIOUS
  <1>1. CASE si + 2 > Len(source)
    BY <1>1, RefuseIInv DEF ReadOffset
  <1>2. CASE ~(si + 2 > Len(source))
    <2> DEFINE back == At(si) + (ByteMax + 1) * At(si + 1)
    <2>1. si \in Nat /\ si + 2 <= Len(source) /\ Len(source) \in Nat
          /\ Len(output) \in Nat
      BY <1>2 DEF IInv, InBounds
    <2>2. At(si) \in Nat /\ At(si + 1) \in Nat
      BY <2>1, AtByte
    <2>3. back \in Nat
      <3>1. ASSUME NEW a \in Nat, NEW b \in Nat, NEW c \in Nat
            PROVE  a + (c + 1) * b \in Nat
        OBVIOUS
      <3> QED
        BY <2>2, <3>1, ByteMaxNat
    <2> HIDE DEF back
    <2>4. si' = si + 2 /\ UNCHANGED <<source, output, token>>
      BY <1>2 DEF ReadOffset
    <2>5. IF OffsetValid(back)
          THEN offset' = back /\ LengthFrom(token % Nibble, "moreCopy", "copy")
          ELSE phase' = "refused" /\ UNCHANGED <<length, offset>>
      BY <1>2 DEF ReadOffset, back
    <2>6. CASE OffsetValid(back)
      <3>1. offset' \in 1..Len(output) /\ offset' \in Nat
        BY <2>1, <2>3, <2>5, <2>6 DEF OffsetValid, di
      <3>2. token % Nibble \in Nat
        <4>1. token \in Nat
          BY ByteMaxNat DEF IInv, Byte
        <4> QED
          BY <4>1, Halves
      <3>3. length' \in Nat /\ phase' \in {"moreCopy", "copy"}
        BY <2>5, <2>6, <3>2 DEF LengthFrom
      <3> QED
        BY <2>1, <2>4, <3>1, <3>3 DEF IInv, InBounds, Phases
    <2>7. CASE ~OffsetValid(back)
      BY <2>1, <2>4, <2>5, <2>7 DEF IInv, InBounds, Phases
    <2> QED
      BY <2>6, <2>7
  <1> QED
    BY <1>1, <1>2

LEMMA BeginCopyIInv == IInv /\ BeginCopy => IInv'
  <1> SUFFICES ASSUME IInv, BeginCopy PROVE IInv'
    OBVIOUS
  <1>1. CASE ~CopyFits
    BY <1>1, RefuseIInv DEF BeginCopy
  <1>2. CASE CopyFits
    BY <1>2, Lz4Assumption DEF BeginCopy, CopyFits, di, IInv, InBounds, Phases
  <1> QED
    BY <1>1, <1>2

LEMMA CopyByteIInv == IInv /\ CopyByte => IInv'
  <1> SUFFICES ASSUME IInv, CopyByte PROVE IInv'
    OBVIOUS
  <1>1. Len(output) \in Nat /\ offset \in 1..Len(output) /\ length \in Nat
        /\ length > 0 /\ Len(output) + length <= Capacity
    BY DEF CopyByte, IInv, InBounds
  <1>2. output[di - offset + 1] \in Byte
    BY <1>1 DEF IInv, di
  <1>3. output' \in Seq(Byte) /\ Len(output') = Len(output) + 1
    BY <1>2 DEF CopyByte, IInv
  <1>4. length' = length - 1 /\ UNCHANGED <<source, si, phase, token, offset>>
    BY DEF CopyByte
  <1> QED
    BY <1>1, <1>3, <1>4, Lz4Assumption DEF IInv, InBounds, Phases, CopyByte

LEMMA NextIInv == IInv /\ [BlockNext]_blockVars => IInv'
  <1> SUFFICES ASSUME IInv, [BlockNext]_blockVars PROVE IInv'
    OBVIOUS
  <1>1. CASE ReadToken
    BY <1>1, ReadTokenIInv
  <1>2. CASE CopyLiterals
    BY <1>2, CopyLiteralsIInv
  <1>3. CASE ReadOffset
    BY <1>3, ReadOffsetIInv
  <1>4. CASE BeginCopy
    BY <1>4, BeginCopyIInv
  <1>5. CASE CopyByte
    BY <1>5, CopyByteIInv
  <1>6. CASE EndCopy
    BY <1>6 DEF EndCopy, IInv, InBounds, Phases
  <1>7. CASE ReadExtension("moreLiterals", "literals")
    BY <1>7, ExtensionIInv
  <1>8. CASE ReadExtension("moreCopy", "copy")
    BY <1>8, ExtensionIInv
  <1>9. CASE UNCHANGED blockVars
    BY <1>9 DEF blockVars, IInv, InBounds
  <1> QED
    BY <1>1, <1>2, <1>3, <1>4, <1>5, <1>6, <1>7, <1>8, <1>9 DEF BlockNext

(* The decoder stays within the wire buffer and the frame, whatever block it
   receives.                                                               *)
THEOREM BlockInBounds == BlockSpec => []InBounds
  <1>1. IInv => InBounds
    BY DEF IInv
  <1> QED
    BY InitIInv, NextIInv, <1>1, PTL DEF BlockSpec

-----------------------------------------------------------------------------
(* Numbers of two digits, and texts of one or two bytes.                    *)

LEMMA Sizes ==
  /\ Nibble \in Nat /\ Nibble >= 2
  /\ ByteMax \in Nat /\ ByteMax >= 3
  /\ ByteMax + 1 = Nibble * Nibble /\ ByteMax \in Byte /\ 0 \in Byte
  /\ Byte \subseteq Nat /\ Capacity \in Nat /\ MinMatch \in Nat
  <1>1. Nibble \in Nat /\ Nibble >= 2
    BY Lz4Assumption
  <1>2. Nibble * Nibble >= 4 /\ Nibble * Nibble \in Nat
    BY <1>1
  <1> QED
    BY <1>1, <1>2, Lz4Assumption DEF ByteMax, Byte

(* Division with remainder.                                                *)
LEMMA DivMod ==
  ASSUME NEW b \in Nat \ {0}, NEW q \in Nat, NEW r \in 0..(b - 1)
  PROVE  (q * b + r) \div b = q /\ (q * b + r) % b = r
  <1> DEFINE n == q * b + r
             d == n \div b
             m == n % b
  <1>1. n \in Nat
    OBVIOUS
  <1>2. d \in Int /\ m \in 0..(b - 1) /\ n = b * d + m
    <2> HIDE DEF n
    <2> QED
    BY <1>1
  <1> HIDE DEF d, m
  <1>3. n = q * b + r
    OBVIOUS
  <1> HIDE DEF n
  <1>4. d >= q + 1 => b * d >= b * q + b
    <2> SUFFICES ASSUME d >= q + 1 PROVE b * d >= b * q + b
      OBVIOUS
    <2>1. PICK e \in Nat : d = q + 1 + e
      <3>1. d - (q + 1) \in Nat /\ d = q + 1 + (d - (q + 1))
        BY <1>2
      <3> QED
        BY <3>1
    <2>2. b * d = b * q + b + b * e /\ b * e \in Nat
      BY <2>1
    <2> QED
      BY <2>2
  <1>5. d <= q - 1 => b * d <= b * q - b
    <2> SUFFICES ASSUME d <= q - 1 PROVE b * d <= b * q - b
      OBVIOUS
    <2>1. PICK e \in Nat : q = d + 1 + e
      <3>1. q - 1 - d \in Nat /\ q = d + 1 + (q - 1 - d)
        BY <1>2
      <3> QED
        BY <3>1
    <2>2. b * q = b * d + b + b * e /\ b * e \in Nat
      BY <1>2, <2>1
    <2> QED
      BY <1>2, <2>2
  <1>6. q * b = b * q /\ b * q \in Int /\ b * d \in Int
    BY <1>2
  <1>7. d = q
    BY <1>2, <1>3, <1>4, <1>5, <1>6
  <1>8. m = r
    BY <1>2, <1>3, <1>6, <1>7
  <1> QED
    BY <1>7, <1>8 DEF n, d, m

LEMMA DivModExists ==
  ASSUME NEW b \in Nat \ {0}, NEW n \in Nat
  PROVE  n \div b \in Nat /\ n % b \in 0..(b - 1) /\ n = (n \div b) * b + (n % b)
  <1> DEFINE d == n \div b
             m == n % b
  <1>1. d \in Int /\ m \in 0..(b - 1) /\ n = b * d + m
    OBVIOUS
  <1> HIDE DEF d, m
  <1>2. d >= 0
    <2> SUFFICES ASSUME d <= -1 PROVE FALSE
      BY <1>1
    <2>1. PICK e \in Nat : d = -1 - e
      <3>1. -1 - d \in Nat /\ d = -1 - (-1 - d)
        BY <1>1
      <3> QED
        BY <3>1
    <2>2. b * d = -b - b * e /\ b * e \in Nat
      BY <2>1
    <2> QED
      BY <1>1, <2>2
  <1>3. d \in Nat /\ m \in 0..(b - 1) /\ n = d * b + m
    BY <1>1, <1>2
  <1> QED
    BY <1>3, Zenon DEF d, m

LEMMA HalfRange ==
  ASSUME NEW n \in Nat
  PROVE  /\ Half(n) \in 0..(Nibble - 1) /\ Half(n) \in Nat
         /\ n < Nibble - 1 => Half(n) = n
         /\ ~(n < Nibble - 1) => Half(n) = Nibble - 1
  BY Sizes DEF Half

(* A token and its halves.                                                 *)
LEMMA TwoHalves ==
  ASSUME NEW a \in 0..(Nibble - 1), NEW b \in 0..(Nibble - 1)
  PROVE  /\ a * Nibble + b \in Byte
         /\ (a * Nibble + b) \div Nibble = a
         /\ (a * Nibble + b) % Nibble = b
  <1>1. Nibble \in Nat \ {0} /\ a \in Nat
    BY Sizes
  <1>2. a * Nibble + b \in Nat
    BY <1>1
  <1>3. PICK c \in Nat : a + c = Nibble - 1
    <2>1. Nibble - 1 - a \in Nat /\ a + (Nibble - 1 - a) = Nibble - 1
      BY Sizes
    <2> QED
      BY <2>1
  <1>4. (a + c) * Nibble = a * Nibble + c * Nibble /\ c * Nibble \in Nat
        /\ (Nibble - 1) * Nibble = Nibble * Nibble - Nibble
        /\ a * Nibble \in Nat
    BY <1>1, <1>3
  <1>5. a * Nibble + c * Nibble = Nibble * Nibble - Nibble
    BY <1>3, <1>4
  <1>6. a * Nibble + b <= Nibble * Nibble - 1
    <2>1. b <= Nibble - 1 /\ b \in Nat
      BY Sizes
    <2>2. Nibble * Nibble \in Nat
      BY <1>1
    <2> QED
      BY <1>1, <1>4, <1>5, <2>1, <2>2
  <1>7. a * Nibble + b \in Byte
    BY <1>2, <1>6 DEF Byte, ByteMax
  <1> QED
    BY <1>1, <1>7, DivMod

LEMMA HalvesOf ==
  ASSUME NEW t \in Byte
  PROVE  /\ t \div Nibble \in 0..(Nibble - 1) /\ t % Nibble \in 0..(Nibble - 1)
         /\ t = (t \div Nibble) * Nibble + (t % Nibble)
  <1>1. Nibble \in Nat \ {0} /\ t \in Nat
    BY Sizes
  <1>2. t \div Nibble \in Nat /\ t % Nibble \in 0..(Nibble - 1)
        /\ t = (t \div Nibble) * Nibble + (t % Nibble)
    BY <1>1, DivModExists
  <1> DEFINE d == t \div Nibble
  <1>3. d <= Nibble - 1
    <2> SUFFICES ASSUME d >= Nibble PROVE FALSE
      BY <1>1, <1>2
    <2>1. PICK e \in Nat : d = Nibble + e
      <3>1. d - Nibble \in Nat /\ d = Nibble + (d - Nibble)
        BY <1>1, <1>2
      <3> QED
        BY <3>1
    <2> HIDE DEF d
    <2>2. d * Nibble = Nibble * Nibble + e * Nibble /\ e * Nibble \in Nat
          /\ Nibble * Nibble \in Nat
      BY <1>1, <2>1
    <2>3. t <= Nibble * Nibble - 1
      BY <1>1, Sizes DEF Byte
    <2>4. t >= d * Nibble
      <3>1. PICK r \in 0..(Nibble - 1) : t = d * Nibble + r
        BY <1>2, Zenon DEF d
      <3>2. d * Nibble \in Int /\ r \in Nat
        BY <1>1, <2>2
      <3> QED
        BY <3>1, <3>2
    <2> QED
      BY <1>1, <2>2, <2>3, <2>4
  <1> QED
    BY <1>1, <1>2, <1>3

LEMMA FullShape ==
  ASSUME NEW m \in Nat
  PROVE  /\ Full(m) \in Seq(Byte) /\ Len(Full(m)) = m
         /\ \A k \in 1..m : Full(m)[k] = ByteMax
  <1>1. \A k \in 1..m : ByteMax \in Byte
    BY Sizes
  <1> QED
    BY <1>1 DEF Full

LEMMA Single ==
  ASSUME NEW S, NEW e \in S
  PROVE  <<e>> \in Seq(S) /\ Len(<<e>>) = 1 /\ <<e>>[1] = e
  OBVIOUS

LEMMA Pair ==
  ASSUME NEW S, NEW d \in S, NEW e \in S
  PROVE  <<d, e>> \in Seq(S) /\ Len(<<d, e>>) = 2 /\ <<d, e>>[1] = d /\ <<d, e>>[2] = e
  OBVIOUS

LEMMA ExtensionNone ==
  ASSUME NEW n \in Nat, n < Nibble - 1
  PROVE  Extension(n) = <<>> /\ Extension(n) \in Seq(Byte) /\ Len(Extension(n)) = 0
  BY DEF Extension

(* A length that goes on: some full bytes and one that is not.             *)
LEMMA ExtensionOf ==
  ASSUME NEW m \in Nat, NEW r \in 0..(ByteMax - 1), NEW n, n = Nibble - 1 + (m * ByteMax + r)
  PROVE  /\ n \in Nat /\ ~(n < Nibble - 1)
         /\ Extension(n) = Full(m) \o <<r>>
         /\ Extension(n) \in Seq(Byte) /\ Len(Extension(n)) = m + 1
         /\ \A k \in 1..m : Extension(n)[k] = ByteMax
         /\ Extension(n)[m + 1] = r
  <1>1. ByteMax \in Nat \ {0} /\ r \in Nat /\ m * ByteMax \in Nat
    BY Sizes
  <1>2. n \in Nat /\ ~(n < Nibble - 1) /\ n - (Nibble - 1) = m * ByteMax + r
    BY <1>1, Sizes
  <1>3. Extension(n) = Full(m) \o <<r>>
    <2>1. (n - (Nibble - 1)) \div ByteMax = m /\ (n - (Nibble - 1)) % ByteMax = r
      BY <1>1, <1>2, DivMod
    <2> QED
      BY <1>2, <2>1 DEF Extension
  <1>4. r \in Byte
    BY <1>1, Sizes DEF Byte
  <1>5. Full(m) \in Seq(Byte) /\ Len(Full(m)) = m /\ \A k \in 1..m : Full(m)[k] = ByteMax
    BY FullShape
  <1>6. <<r>> \in Seq(Byte) /\ Len(<<r>>) = 1 /\ <<r>>[1] = r
    BY <1>4, Single
  <1> DEFINE f == Full(m)
             g == <<r>>
  <1> HIDE DEF f, g
  <1>7. /\ f \o g \in Seq(Byte) /\ Len(f \o g) = m + 1
        /\ \A k \in 1..m : (f \o g)[k] = ByteMax
        /\ (f \o g)[m + 1] = r
    <2>1. f \in Seq(Byte) /\ Len(f) = m /\ g \in Seq(Byte) /\ Len(g) = 1 /\ g[1] = r
          /\ \A k \in 1..m : f[k] = ByteMax
      BY <1>5, <1>6 DEF f, g
    <2>2. /\ f \o g \in Seq(Byte) /\ Len(f \o g) = Len(f) + Len(g)
          /\ \A i \in 1..(Len(f) + Len(g)) :
               (f \o g)[i] = IF i <= Len(f) THEN f[i] ELSE g[i - Len(f)]
      BY <2>1, ConcatProperties, Zenon
    <2> QED
      BY <2>1, <2>2
  <1> QED
    BY <1>2, <1>3, <1>7 DEF f, g

LEMMA ExtensionMore ==
  ASSUME NEW n \in Nat, ~(n < Nibble - 1)
  PROVE  \E m \in Nat, r \in 0..(ByteMax - 1) : n = Nibble - 1 + (m * ByteMax + r)
  <1> DEFINE rest == n - (Nibble - 1)
  <1>1. rest \in Nat /\ ByteMax \in Nat \ {0}
    BY Sizes
  <1>2. rest \div ByteMax \in Nat /\ rest % ByteMax \in 0..(ByteMax - 1)
        /\ rest = (rest \div ByteMax) * ByteMax + (rest % ByteMax)
    <2> HIDE DEF rest
    <2> QED
      BY <1>1, DivModExists
  <1>3. n = Nibble - 1 + rest
    BY Sizes
  <1> QED
    BY <1>2, <1>3, Zenon

LEMMA ExtensionType ==
  ASSUME NEW n \in Nat
  PROVE  Extension(n) \in Seq(Byte)
  <1>1. CASE n < Nibble - 1
    BY <1>1, ExtensionNone
  <1>2. CASE ~(n < Nibble - 1)
    <2>1. PICK m \in Nat, r \in 0..(ByteMax - 1) : n = Nibble - 1 + (m * ByteMax + r)
      BY <1>2, ExtensionMore
    <2> QED
      BY <2>1, ExtensionOf
  <1> QED
    BY <1>1, <1>2

-----------------------------------------------------------------------------
(* Induction, from the cardinality of finite sets.                          *)

(* A set of numbers with 0 and every successor has them all: else what it has
   up to some n, moved up by one, would fit in what it has there but for 0.  *)
LEMMA Induct ==
  ASSUME NEW P \in SUBSET Nat, 0 \in P, \A k \in P : k + 1 \in P
  PROVE  P = Nat
  <1> SUFFICES ASSUME NEW n \in Nat, n \notin P PROVE FALSE
    OBVIOUS
  <1> DEFINE S == P \cap 0..n
             T == S \ {0}
             f == [k \in S |-> k + 1]
  <1>1. IsFiniteSet(0..n)
    BY FS_Interval
  <1>2. IsFiniteSet(S) /\ Cardinality(S) \in Nat
    BY <1>1, FS_Subset, FS_CardinalityType
  <1>3. IsFiniteSet(T) /\ Cardinality(T) = Cardinality(S) - 1
    <2>1. 0 \in S
      OBVIOUS
    <2> HIDE DEF S
    <2> QED
      BY <1>2, <2>1, FS_RemoveElement
  <1>4. f \in [S -> T]
    <2> SUFFICES ASSUME NEW k \in S PROVE k + 1 \in T
      OBVIOUS
    <2>1. k \in P /\ k \in 0..n /\ k # n
      OBVIOUS
    <2>2. k + 1 \in P /\ k + 1 \in 0..n /\ k + 1 # 0
      BY <2>1
    <2> QED
      BY <2>2
  <1>5. \A a, b \in S : f[a] = f[b] => a = b
    OBVIOUS
  <1>6. f \in Injection(S, T)
    <2> HIDE DEF S, T, f
    <2> QED
      BY <1>4, <1>5 DEF Injection, IsInjective
  <1> HIDE DEF S, T, f
  <1>7. Cardinality(S) <= Cardinality(T)
    BY <1>3, <1>6, FS_Injection
  <1> QED
    BY <1>2, <1>3, <1>7

(* A function defined by recursion exists.                                 *)
Steps(n, S) == [(1..n) \X S -> S]
Recursed(n, S, base, step) ==
  \E f \in [0..n -> S] :
    f[0] = base /\ \A k \in 1..n : f[k] = step[<<k, f[k - 1]>>]

LEMMA Recursion ==
  ASSUME NEW n \in Nat, NEW S, NEW base \in S, NEW step \in Steps(n, S)
  PROVE  Recursed(n, S, base, step)
  <1> USE DEF Steps, Recursed
  <1> DEFINE Good(f, m) == f[0] = base /\ \A k \in 1..m : f[k] = step[<<k, f[k - 1]>>]
             P == {m \in Nat : m <= n => \E f \in [0..m -> S] : Good(f, m)}
  <1>1. 0 \in P
    <2> DEFINE f == [k \in 0..0 |-> base]
    <2>1. f \in [0..0 -> S] /\ Good(f, 0)
      OBVIOUS
    <2> QED
      BY <2>1
  <1>2. \A m \in P : m + 1 \in P
    <2> SUFFICES ASSUME NEW m \in Nat, m + 1 <= n, NEW f \in [0..m -> S], Good(f, m)
                 PROVE  \E g \in [0..(m + 1) -> S] : Good(g, m + 1)
      OBVIOUS
    <2> DEFINE g == [k \in 0..(m + 1) |-> IF k = m + 1 THEN step[<<m + 1, f[m]>>] ELSE f[k]]
    <2>1. step[<<m + 1, f[m]>>] \in S
      <3>1. <<m + 1, f[m]>> \in (1..n) \X S
        OBVIOUS
      <3> QED
        BY <3>1
    <2>2. g \in [0..(m + 1) -> S]
      BY <2>1
    <2>3. g[m + 1] = step[<<m + 1, f[m]>>] /\ \A k \in 0..m : g[k] = f[k]
      OBVIOUS
    <2> HIDE DEF g
    <2>4. ASSUME NEW k \in 1..(m + 1) PROVE g[k] = step[<<k, g[k - 1]>>]
      <3>1. CASE k = m + 1
        <4>1. g[k - 1] = f[m]
          BY <2>3, <3>1
        <4> QED
          BY <2>3, <3>1, <4>1
      <3>2. CASE k # m + 1
        <4>1. k \in 1..m /\ k - 1 \in 0..m /\ k \in 0..m
          BY <3>2
        <4> QED
          BY <2>3, <4>1
      <3> QED
        BY <3>1, <3>2
    <2> QED
      BY <2>2, <2>3, <2>4
  <1>3. n \in P
    <2> HIDE DEF Good
    <2>1. P \in SUBSET Nat
      OBVIOUS
    <2> HIDE DEF P
    <2> QED
      BY <1>1, <1>2, <2>1, Induct
  <1> QED
    BY <1>3

(* A function keeps its type along a recursion.                            *)
LEMMA StaysIn ==
  ASSUME NEW n \in Nat, NEW S, NEW f, f = [k \in 0..n |-> f[k]],
         f[0] \in S, \A k \in 1..n : f[k - 1] \in S => f[k] \in S
  PROVE  f \in [0..n -> S]
  <1> DEFINE P == {m \in Nat : m <= n => f[m] \in S}
  <1>1. \A m \in P : m + 1 \in P
    <2>1. ASSUME NEW m \in P PROVE m + 1 <= n => f[m + 1] \in S
      <3> SUFFICES ASSUME m + 1 <= n PROVE f[m + 1] \in S
        OBVIOUS
      <3>1. m \in Nat /\ m <= n
        OBVIOUS
      <3>2. f[m] \in S /\ m + 1 \in 1..n /\ (m + 1) - 1 = m
        BY <3>1
      <3> QED
        BY <3>2
    <2>2. \A m \in P : m + 1 \in Nat
      OBVIOUS
    <2> QED
      BY <2>1, <2>2
  <1>2. 0 \in P /\ P \in SUBSET Nat
    OBVIOUS
  <1>3. P = Nat
    <2> HIDE DEF P
    <2> QED
      BY <1>1, <1>2, Induct
  <1>4. \A k \in 0..n : f[k] \in S
    BY <1>3
  <1> QED
    BY <1>4

LEMMA WrittenType ==
  ASSUME NEW s \in LzSequence
  PROVE  /\ s.literals \in Seq(Byte) /\ Len(s.literals) \in Nat
         /\ s.copy \in Nat /\ s.back \in Nat /\ s.last \in BOOLEAN
         /\ TokenOf(s) \in Byte /\ OffsetOf(s.back) \in Seq(Byte)
         /\ Opening(TokenOf(s), s.literals) \in Seq(Byte) /\ Written(s) \in Seq(Byte)
  <1>1. s.literals \in Seq(Byte) /\ s.copy \in Nat /\ s.last \in BOOLEAN
        /\ s.back \in 0..(ByteMax + 1) * (ByteMax + 1) - 1
    BY DEF LzSequence
  <1>2. Len(s.literals) \in Nat
    BY <1>1
  <1>3. TokenOf(s) \in Byte
    BY <1>1, <1>2, HalfRange, TwoHalves DEF TokenOf
  <1>4. s.back \in Nat
    <2>1. (ByteMax + 1) * (ByteMax + 1) - 1 \in Int
      BY Sizes
    <2> QED
      BY <1>1, <2>1
  <1>5. OffsetOf(s.back) \in Seq(Byte)
    <2>1. ByteMax + 1 \in Nat \ {0}
      BY Sizes
    <2> DEFINE d == s.back \div (ByteMax + 1)
               m == s.back % (ByteMax + 1)
               B == ByteMax + 1
    <2>2. d \in Nat /\ m \in 0..(B - 1) /\ s.back = d * B + m
      BY <1>4, <2>1, DivModExists
    <2>3. d <= ByteMax
      <3> HIDE DEF d, m
      <3> SUFFICES ASSUME d >= B PROVE FALSE
        BY <2>2, Sizes
      <3>1. B \in Nat /\ s.back <= B * B - 1
        BY <1>1, <2>1
      <3> HIDE DEF B
      <3>2. PICK e \in Nat : d = B + e
        <4>1. d - B \in Nat /\ d = B + (d - B)
          BY <2>2, <3>1
        <4> QED
          BY <4>1
      <3>3. d * B = B * B + e * B /\ e * B \in Nat /\ B * B \in Nat
        BY <3>1, <3>2
      <3> QED
        BY <1>4, <2>2, <3>1, <3>3
    <2>4. d \in Byte /\ m \in Byte
      BY <2>2, <2>3, Sizes DEF Byte
    <2> QED
      BY <2>4, Pair DEF OffsetOf
  <1>6. Opening(TokenOf(s), s.literals) \in Seq(Byte)
    <2>1. <<TokenOf(s)>> \in Seq(Byte)
      BY <1>3
    <2>2. Extension(Len(s.literals)) \o s.literals \in Seq(Byte)
      BY <1>1, <1>2, ExtensionType, ConcatProperties
    <2> QED
      BY <2>1, <2>2, ConcatProperties DEF Opening
  <1>7. Written(s) \in Seq(Byte)
    <2>1. OffsetOf(s.back) \o Extension(s.copy) \in Seq(Byte)
      BY <1>1, <1>5, ExtensionType, ConcatProperties
    <2>2. Opening(TokenOf(s), s.literals) \o (OffsetOf(s.back) \o Extension(s.copy)) \in Seq(Byte)
      BY <1>6, <2>1, ConcatProperties
    <2> QED
      BY <1>6, <2>2 DEF Written
  <1> QED
    BY <1>1, <1>2, <1>3, <1>4, <1>5, <1>6, <1>7

(* The block of a list grows by one sequence after the other.              *)
LEMMA EncodedDef ==
  ASSUME NEW list \in Seq(LzSequence)
  PROVE  /\ Encoded(list) \in [0..Len(list) -> Seq(Byte)]
         /\ Encoded(list)[0] = <<>>
         /\ \A k \in 1..Len(list) :
              Encoded(list)[k] = Encoded(list)[k - 1] \o Written(list[k])
  <1> DEFINE n == Len(list)
             step == [q \in (1..n) \X Seq(Byte) |-> q[2] \o Written(list[q[1]])]
  <1>1. n \in Nat
    OBVIOUS
  <1>2. \A k \in 1..n : Written(list[k]) \in Seq(Byte)
    BY WrittenType
  <1>3. step \in [(1..n) \X Seq(Byte) -> Seq(Byte)]
    <2> SUFFICES ASSUME NEW q \in (1..n) \X Seq(Byte)
                 PROVE  q[2] \o Written(list[q[1]]) \in Seq(Byte)
      OBVIOUS
    <2>1. q[2] \in Seq(Byte) /\ Written(list[q[1]]) \in Seq(Byte)
      BY <1>2
    <2> QED
      BY <2>1, ConcatProperties
  <1>4. <<>> \in Seq(Byte)
    OBVIOUS
  <1>5. PICK f \in [0..n -> Seq(Byte)] :
          f[0] = <<>> /\ \A k \in 1..n : f[k] = step[<<k, f[k - 1]>>]
    <2> HIDE DEF n, step
    <2>1. step \in Steps(n, Seq(Byte))
      BY <1>3 DEF Steps
    <2>2. Recursed(n, Seq(Byte), <<>>, step)
      BY <1>1, <1>4, <2>1, Recursion
    <2> QED
      BY <2>2 DEF Recursed
  <1>6. \A k \in 1..n : f[k] = f[k - 1] \o Written(list[k])
    <2> SUFFICES ASSUME NEW k \in 1..n PROVE f[k] = f[k - 1] \o Written(list[k])
      OBVIOUS
    <2>1. f[k - 1] \in Seq(Byte)
      BY <1>1, <1>5
    <2>2. <<k, f[k - 1]>> \in (1..n) \X Seq(Byte)
      BY <2>1
    <2>3. step[<<k, f[k - 1]>>] = f[k - 1] \o Written(list[k])
      BY <2>2
    <2> QED
      BY <1>5, <2>3
  <1> DEFINE Right(g) == g = [k \in 0..n |-> IF k = 0 THEN <<>> ELSE g[k - 1] \o Written(list[k])]
             E == CHOOSE g : Right(g)
  <1>7. Right(f)
    <2>1. f = [k \in 0..n |-> f[k]]
      BY <1>5
    <2>2. \A k \in 0..n : f[k] = IF k = 0 THEN <<>> ELSE f[k - 1] \o Written(list[k])
      <3> SUFFICES ASSUME NEW k \in 0..n
                   PROVE  f[k] = IF k = 0 THEN <<>> ELSE f[k - 1] \o Written(list[k])
        OBVIOUS
      <3>1. k = 0 \/ k \in 1..n
        BY <1>1
      <3> QED
        BY <1>5, <1>6, <3>1
    <2> QED
      BY <2>1, <2>2
  <1>8. Encoded(list) = E
    BY DEF Encoded
  <1>9. Right(E)
    <2> HIDE DEF Right
    <2> QED
      BY <1>7
  <1>10. E = [k \in 0..n |-> E[k]] /\ E[0] = <<>>
         /\ \A k \in 1..n : E[k] = E[k - 1] \o Written(list[k])
    <2> HIDE DEF E
    <2>1. E = [k \in 0..n |-> IF k = 0 THEN <<>> ELSE E[k - 1] \o Written(list[k])]
      BY <1>9
    <2>2. 0 \in 0..n /\ \A k \in 1..n : k \in 0..n /\ k # 0
      BY <1>1
    <2> HIDE DEF n
    <2>3. E = [k \in 0..n |-> E[k]]
      BY <2>1
    <2> QED
      BY <2>1, <2>2, <2>3
  <1>11. E \in [0..n -> Seq(Byte)]
    <2> HIDE DEF E, n
    <2>1. \A k \in 1..n : E[k - 1] \in Seq(Byte) => E[k] \in Seq(Byte)
      BY <1>2, <1>10, ConcatProperties
    <2> QED
      BY <1>1, <1>4, <1>10, <2>1, StaysIn
  <1> QED
    BY <1>8, <1>10, <1>11

Outputs == Seq(Byte) \cup {Meaningless}

LEMMA MeaninglessOut == Meaningless \notin Seq(Byte)
  <1> SUFFICES ASSUME Meaningless \in Seq(Byte) PROVE FALSE
    OBVIOUS
  <1>1. Len(Meaningless) = 1 /\ Meaningless[1] = -1
    BY DEF Meaningless
  <1>2. Meaningless[1] \in Byte
    BY <1>1, ElementOfSeq
  <1> QED
    BY <1>1, <1>2, Sizes

(* What is repeated: byte j comes from "back" bytes earlier.               *)
LEMMA CopiedType ==
  ASSUME NEW out \in Seq(Byte), NEW back \in 1..Len(out), NEW n \in Nat
  PROVE  /\ Copied(out, back, n) \in Seq(Byte) /\ Len(Copied(out, back, n)) = n
         /\ \A j \in 1..n :
              Copied(out, back, n)[j] = out[Len(out) - back + 1 + ((j - 1) % back)]
  <1>1. \A j \in 1..n : out[Len(out) - back + 1 + ((j - 1) % back)] \in Byte
    <2> SUFFICES ASSUME NEW j \in 1..n
                 PROVE  out[Len(out) - back + 1 + ((j - 1) % back)] \in Byte
      OBVIOUS
    <2>1. back \in Nat \ {0} /\ j - 1 \in Nat /\ Len(out) \in Nat /\ back <= Len(out)
      OBVIOUS
    <2>2. PICK m \in 0..(back - 1) : (j - 1) % back = m
      BY <2>1, DivModExists
    <2>3. Len(out) - back + 1 + m \in 1..Len(out)
      BY <2>1
    <2> QED
      BY <2>2, <2>3
  <1> QED
    BY <1>1 DEF Copied

LEMMA MeantLast ==
  ASSUME NEW out \in Seq(Byte), NEW s \in LzSequence, s.last
  PROVE  Meant(out, s) = out \o s.literals /\ Meant(out, s) \in Seq(Byte)
  BY MeaninglessOut, WrittenType, ConcatProperties DEF Meant

LEMMA MeantCopy ==
  ASSUME NEW out \in Seq(Byte), NEW s \in LzSequence, ~s.last,
         s.back \in 1..Len(out \o s.literals)
  PROVE  /\ Meant(out, s) =
              (out \o s.literals) \o Copied(out \o s.literals, s.back, s.copy + MinMatch)
         /\ Meant(out, s) \in Seq(Byte)
         /\ Len(Meant(out, s)) = Len(out) + Len(s.literals) + (s.copy + MinMatch)
  <1> DEFINE end == out \o s.literals
  <1>1. end \in Seq(Byte) /\ Len(end) = Len(out) + Len(s.literals)
    BY WrittenType, ConcatProperties
  <1>2. s.copy + MinMatch \in Nat
    BY WrittenType, Sizes
  <1>3. Copied(end, s.back, s.copy + MinMatch) \in Seq(Byte)
        /\ Len(Copied(end, s.back, s.copy + MinMatch)) = s.copy + MinMatch
    BY <1>1, <1>2, CopiedType
  <1>4. Meant(out, s) = end \o Copied(end, s.back, s.copy + MinMatch)
    BY MeaninglessOut DEF Meant
  <1> DEFINE copy == Copied(end, s.back, s.copy + MinMatch)
  <1>5. copy \in Seq(Byte) /\ Len(copy) = s.copy + MinMatch
    BY <1>3
  <1> HIDE DEF end, copy
  <1>6. end \o copy \in Seq(Byte) /\ Len(end \o copy) = Len(end) + Len(copy)
    BY <1>1, <1>5, ConcatProperties
  <1>7. Len(end \o copy) = Len(out) + Len(s.literals) + (s.copy + MinMatch)
    BY <1>1, <1>5, <1>6
  <1> QED
    BY <1>4, <1>6, <1>7 DEF end, copy

LEMMA MeantNot ==
  ASSUME NEW out, NEW s \in LzSequence,
         out = Meaningless \/ (~s.last /\ s.back \notin 1..Len(out \o s.literals))
  PROVE  Meant(out, s) = Meaningless
  BY DEF Meant

LEMMA MeantType ==
  ASSUME NEW out \in Outputs, NEW s \in LzSequence
  PROVE  /\ Meant(out, s) \in Outputs
         /\ Meant(out, s) # Meaningless =>
              /\ out \in Seq(Byte) /\ Meant(out, s) \in Seq(Byte)
              /\ Len(out) + Len(s.literals) <= Len(Meant(out, s))
              /\ ~s.last =>
                   /\ s.back \in 1..Len(out \o s.literals)
                   /\ Len(Meant(out, s)) = Len(out) + Len(s.literals) + (s.copy + MinMatch)
  <1>1. CASE out = Meaningless \/ (~s.last /\ s.back \notin 1..Len(out \o s.literals))
    BY <1>1, MeantNot DEF Outputs
  <1>2. CASE out \in Seq(Byte) /\ s.last
    <2>1. Len(out \o s.literals) = Len(out) + Len(s.literals)
          /\ Len(out) \in Nat /\ Len(s.literals) \in Nat
      BY <1>2, WrittenType, ConcatProperties
    <2> QED
      BY <1>2, <2>1, MeantLast DEF Outputs
  <1>3. CASE out \in Seq(Byte) /\ ~s.last /\ s.back \in 1..Len(out \o s.literals)
    <2>1. Len(out) \in Nat /\ Len(s.literals) \in Nat /\ s.copy + MinMatch \in Nat
      BY <1>3, WrittenType, Sizes
    <2>2. /\ Meant(out, s) \in Seq(Byte)
          /\ Len(Meant(out, s)) = Len(out) + Len(s.literals) + (s.copy + MinMatch)
      BY <1>3, MeantCopy
    <2>3. Len(out) + Len(s.literals) <= Len(Meant(out, s))
      BY <2>1, <2>2
    <2> QED
      BY <1>3, <2>2, <2>3 DEF Outputs
  <1>4. \/ out = Meaningless
        \/ ~s.last /\ s.back \notin 1..Len(out \o s.literals)
        \/ out \in Seq(Byte) /\ s.last
        \/ out \in Seq(Byte) /\ ~s.last /\ s.back \in 1..Len(out \o s.literals)
    <2>1. out = Meaningless \/ out \in Seq(Byte)
      BY DEF Outputs
    <2> QED
      BY <2>1, Zenon
  <1> QED
    BY <1>1, <1>2, <1>3, <1>4, Zenon

(* So does what it stands for.                                             *)
LEMMA ExpandedDef ==
  ASSUME NEW list \in Seq(LzSequence)
  PROVE  /\ Expanded(list) \in [0..Len(list) -> Outputs]
         /\ Expanded(list)[0] = <<>>
         /\ \A k \in 1..Len(list) :
              Expanded(list)[k] = Meant(Expanded(list)[k - 1], list[k])
  <1> DEFINE n == Len(list)
             step == [q \in (1..n) \X Outputs |-> Meant(q[2], list[q[1]])]
  <1>1. n \in Nat
    OBVIOUS
  <1>2. \A k \in 1..n : list[k] \in LzSequence
    OBVIOUS
  <1>3. step \in [(1..n) \X Outputs -> Outputs]
    <2> SUFFICES ASSUME NEW q \in (1..n) \X Outputs
                 PROVE  Meant(q[2], list[q[1]]) \in Outputs
      OBVIOUS
    <2>1. q[2] \in Outputs /\ list[q[1]] \in LzSequence
      BY <1>2
    <2> QED
      BY <2>1, MeantType
  <1>4. <<>> \in Outputs
    BY DEF Outputs
  <1>5. PICK f \in [0..n -> Outputs] :
          f[0] = <<>> /\ \A k \in 1..n : f[k] = step[<<k, f[k - 1]>>]
    <2> HIDE DEF n, step
    <2>1. step \in Steps(n, Outputs)
      BY <1>3 DEF Steps
    <2>2. Recursed(n, Outputs, <<>>, step)
      BY <1>1, <1>4, <2>1, Recursion
    <2> QED
      BY <2>2 DEF Recursed
  <1>6. \A k \in 1..n : f[k] = Meant(f[k - 1], list[k])
    <2> SUFFICES ASSUME NEW k \in 1..n PROVE f[k] = Meant(f[k - 1], list[k])
      OBVIOUS
    <2>1. f[k - 1] \in Outputs
      BY <1>1, <1>5
    <2>2. <<k, f[k - 1]>> \in (1..n) \X Outputs
      BY <2>1
    <2>3. step[<<k, f[k - 1]>>] = Meant(f[k - 1], list[k])
      BY <2>2
    <2> QED
      BY <1>5, <2>3
  <1> DEFINE Right(g) == g = [k \in 0..n |-> IF k = 0 THEN <<>> ELSE Meant(g[k - 1], list[k])]
             E == CHOOSE g : Right(g)
  <1>7. Right(f)
    <2>1. f = [k \in 0..n |-> f[k]]
      BY <1>5
    <2>2. \A k \in 0..n : f[k] = IF k = 0 THEN <<>> ELSE Meant(f[k - 1], list[k])
      <3> SUFFICES ASSUME NEW k \in 0..n
                   PROVE  f[k] = IF k = 0 THEN <<>> ELSE Meant(f[k - 1], list[k])
        OBVIOUS
      <3>1. k = 0 \/ k \in 1..n
        BY <1>1
      <3> QED
        BY <1>5, <1>6, <3>1
    <2> QED
      BY <2>1, <2>2
  <1>8. Expanded(list) = E
    BY DEF Expanded
  <1>9. Right(E)
    <2> HIDE DEF Right
    <2> QED
      BY <1>7
  <1>10. E = [k \in 0..n |-> E[k]] /\ E[0] = <<>>
         /\ \A k \in 1..n : E[k] = Meant(E[k - 1], list[k])
    <2> HIDE DEF E
    <2>1. E = [k \in 0..n |-> IF k = 0 THEN <<>> ELSE Meant(E[k - 1], list[k])]
      BY <1>9
    <2>2. 0 \in 0..n /\ \A k \in 1..n : k \in 0..n /\ k # 0
      BY <1>1
    <2> HIDE DEF n
    <2>3. E = [k \in 0..n |-> E[k]]
      BY <2>1
    <2> QED
      BY <2>1, <2>2, <2>3
  <1>11. E \in [0..n -> Outputs]
    <2> HIDE DEF E, n
    <2>1. \A k \in 1..n : E[k - 1] \in Outputs => E[k] \in Outputs
      BY <1>2, <1>10, MeantType
    <2> QED
      BY <1>1, <1>4, <1>10, <2>1, StaysIn
  <1> QED
    BY <1>8, <1>10, <1>11

(* Another sequence changes nothing before it.                             *)
LEMMA SameUntil ==
  ASSUME NEW n \in Nat, NEW f, NEW g, f[0] = g[0],
         \A k \in 1..n : f[k - 1] = g[k - 1] => f[k] = g[k]
  PROVE  \A k \in 0..n : f[k] = g[k]
  <1> DEFINE P == {m \in Nat : m <= n => f[m] = g[m]}
  <1>1. \A m \in P : m + 1 \in P
    <2>1. ASSUME NEW m \in P PROVE m + 1 <= n => f[m + 1] = g[m + 1]
      <3> SUFFICES ASSUME m + 1 <= n PROVE f[m + 1] = g[m + 1]
        OBVIOUS
      <3>1. m \in Nat /\ m <= n
        OBVIOUS
      <3>2. f[m] = g[m] /\ m + 1 \in 1..n /\ (m + 1) - 1 = m
        BY <3>1
      <3> QED
        BY <3>2
    <2>2. \A m \in P : m + 1 \in Nat
      OBVIOUS
    <2> QED
      BY <2>1, <2>2
  <1>2. 0 \in P /\ P \in SUBSET Nat
    OBVIOUS
  <1>3. P = Nat
    <2> HIDE DEF P
    <2> QED
      BY <1>1, <1>2, Induct
  <1> QED
    BY <1>3

LEMMA AnotherSequence ==
  ASSUME NEW list \in Seq(LzSequence), NEW s \in LzSequence
  PROVE  /\ Append(list, s) \in Seq(LzSequence)
         /\ Len(Append(list, s)) = Len(list) + 1
         /\ Append(list, s)[Len(list) + 1] = s
         /\ \A k \in 1..Len(list) : Append(list, s)[k] = list[k]
         /\ Encode(Append(list, s)) = Encode(list) \o Written(s)
         /\ Expand(Append(list, s)) = Meant(Expand(list), s)
  <1> DEFINE n == Len(list)
             more == Append(list, s)
  <1>1. /\ n \in Nat /\ more \in Seq(LzSequence) /\ Len(more) = n + 1 /\ more[n + 1] = s
        /\ \A k \in 1..n : more[k] = list[k]
    BY AppendProperties
  <1> HIDE DEF more
  <1>2. \A k \in 1..n : k \in 1..(n + 1)
    BY <1>1
  <1>3. n + 1 \in 1..(n + 1) /\ (n + 1) - 1 = n /\ n \in 0..n
    BY <1>1
  <1>4. Encode(more) = Encode(list) \o Written(s)
    <2> DEFINE e == Encoded(list)
               f == Encoded(more)
    <2>1. e[0] = <<>> /\ \A k \in 1..n : e[k] = e[k - 1] \o Written(list[k])
      BY EncodedDef
    <2>2. f[0] = <<>> /\ \A k \in 1..(n + 1) : f[k] = f[k - 1] \o Written(more[k])
      BY <1>1, EncodedDef
    <2> HIDE DEF e, f, n
    <2>3. \A k \in 1..n : e[k - 1] = f[k - 1] => e[k] = f[k]
      BY <1>1, <1>2, <2>1, <2>2
    <2>4. e[n] = f[n]
      <3>1. n \in Nat /\ e[0] = f[0]
        BY <1>1, <2>1, <2>2
      <3>2. \A k \in 0..n : e[k] = f[k]
        BY <2>3, <3>1, SameUntil, Zenon
      <3> QED
        BY <1>3, <3>2
    <2>5. f[n + 1] = e[n] \o Written(s)
      BY <1>1, <1>3, <2>2, <2>4
    <2> QED
      BY <1>1, <2>5 DEF Encode, e, f, n
  <1>5. Expand(more) = Meant(Expand(list), s)
    <2> DEFINE e == Expanded(list)
               f == Expanded(more)
    <2>1. e[0] = <<>> /\ \A k \in 1..n : e[k] = Meant(e[k - 1], list[k])
      BY ExpandedDef
    <2>2. f[0] = <<>> /\ \A k \in 1..(n + 1) : f[k] = Meant(f[k - 1], more[k])
      BY <1>1, ExpandedDef
    <2> HIDE DEF e, f, n
    <2>3. \A k \in 1..n : e[k - 1] = f[k - 1] => e[k] = f[k]
      BY <1>1, <1>2, <2>1, <2>2
    <2>4. e[n] = f[n]
      <3>1. n \in Nat /\ e[0] = f[0]
        BY <1>1, <2>1, <2>2
      <3>2. \A k \in 0..n : e[k] = f[k]
        BY <2>3, <3>1, SameUntil, Zenon
      <3> QED
        BY <1>3, <3>2
    <2>5. f[n + 1] = Meant(e[n], s)
      BY <1>1, <1>3, <2>2, <2>4
    <2> QED
      BY <1>1, <2>5 DEF Expand, e, f, n
  <1> QED
    BY <1>1, <1>4, <1>5 DEF more

LEMMA NoSequence ==
  /\ <<>> \in Seq(LzSequence) /\ Len(<<>>) = 0
  /\ Encode(<<>>) = <<>> /\ Expand(<<>>) = <<>>
  <1>1. <<>> \in Seq(LzSequence) /\ Len(<<>>) = 0
    OBVIOUS
  <1>2. Encoded(<<>>)[0] = <<>> /\ Expanded(<<>>)[0] = <<>>
    BY <1>1, EncodedDef, ExpandedDef
  <1> QED
    BY <1>1, <1>2 DEF Encode, Expand

-----------------------------------------------------------------------------
(* What has been read tells a list of sequences and a part of another, and
   the output is what they stand for.                                      *)

Read == SubSeq(source, 1, si)

OpenLists == {list \in Seq(LzSequence) : \A k \in 1..Len(list) : ~list[k].last}

Whole(list) == Read = Encode(list) /\ output = Expand(list)

LiteralsBegun(list) ==
  /\ output = Expand(list) /\ token \div Nibble = Nibble - 1
  /\ \E m \in Nat : /\ length = Nibble - 1 + m * ByteMax
                    /\ Read = Encode(list) \o (<<token>> \o Full(m))

LiteralsCounted(list) ==
  /\ output = Expand(list) /\ token \div Nibble = Half(length)
  /\ Read = Encode(list) \o (<<token>> \o Extension(length))

LiteralsRead(list, literals) ==
  /\ Expand(list) \in Seq(Byte) /\ output = Expand(list) \o literals
  /\ token \div Nibble = Half(Len(literals))

AtOffset(list) ==
  \E literals \in Seq(Byte) :
    LiteralsRead(list, literals) /\ Read = Encode(list) \o Opening(token, literals)

CopyBegun(list) ==
  \E literals \in Seq(Byte), m \in Nat :
    /\ LiteralsRead(list, literals) /\ token % Nibble = Nibble - 1
    /\ offset \in 0..(ByteMax + 1) * (ByteMax + 1) - 1
    /\ length = Nibble - 1 + m * ByteMax
    /\ Read = Encode(list) \o (Opening(token, literals) \o (OffsetOf(offset) \o Full(m)))

CopyOf(list, s) ==
  /\ ~s.last /\ s.back = offset /\ Expand(list) \in Seq(Byte)
  /\ Read = Encode(list) \o Written(s)

CopyCounted(list) ==
  \E s \in LzSequence :
    CopyOf(list, s) /\ s.copy = length /\ output = Expand(list) \o s.literals

Copying(list) ==
  \E s \in LzSequence, n \in Nat :
    /\ CopyOf(list, s) /\ n + length = s.copy + MinMatch
    /\ s.back \in 1..Len(Expand(list) \o s.literals)
    /\ output = (Expand(list) \o s.literals) \o Copied(Expand(list) \o s.literals, s.back, n)

ToldWhole ==
  \E list \in Seq(LzSequence) : IsList(list) /\ source = Encode(list) /\ output = Expand(list)

Told ==
  /\ phase = "token" => \E list \in OpenLists : Whole(list)
  /\ phase = "moreLiterals" => \E list \in OpenLists : LiteralsBegun(list)
  /\ phase = "literals" => \E list \in OpenLists : LiteralsCounted(list)
  /\ phase = "offset" => \E list \in OpenLists : AtOffset(list)
  /\ phase = "moreCopy" => \E list \in OpenLists : CopyBegun(list)
  /\ phase = "copy" => \E list \in OpenLists : CopyCounted(list)
  /\ phase = "copying" => \E list \in OpenLists : Copying(list)
  /\ phase = "done" => ToldWhole

LEMMA ReadOn ==
  ASSUME IInv, NEW n \in Nat, si + n <= Len(source)
  PROVE  /\ Read \in Seq(Byte)
         /\ SubSeq(source, si + 1, si + n) \in Seq(Byte)
         /\ Len(SubSeq(source, si + 1, si + n)) = n
         /\ SubSeq(source, 1, si + n) = Read \o SubSeq(source, si + 1, si + n)
  <1>1. si \in Nat /\ Len(source) \in Nat /\ source \in Seq(Byte)
    BY DEF IInv, InBounds
  <1>2. \A i \in 1..Len(source) : source[i] \in Byte
    BY <1>1
  <1>3. Read \in Seq(Byte)
    <2>1. \A i \in 1..si : source[i] \in Byte
      BY <1>1, <1>2
    <2> QED
      BY <1>1, <2>1, SubSeqProperties DEF Read
  <1>4. \A i \in (si + 1)..(si + n) : source[i] \in Byte
    BY <1>1, <1>2
  <1>5. /\ SubSeq(source, si + 1, si + n) \in Seq(Byte)
        /\ Len(SubSeq(source, si + 1, si + n)) = n
    <2>1. si + 1 \in Int /\ si + n \in Int
      BY <1>1
    <2>2. /\ SubSeq(source, si + 1, si + n) \in Seq(Byte)
          /\ Len(SubSeq(source, si + 1, si + n))
               = IF si + 1 <= si + n THEN (si + n) - (si + 1) + 1 ELSE 0
      BY <1>4, <2>1, SubSeqProperties
    <2> QED
      BY <1>1, <2>2
  <1>6. SubSeq(source, 1, si + n) = Read \o SubSeq(source, si + 1, si + n)
    <2>1. 1 \in 1..(Len(source) + 1) /\ si \in (1 - 1)..Len(source)
          /\ si + n \in si..Len(source)
      BY <1>1
    <2> QED
      BY <1>1, <2>1, ConcatAdjacentSubSeq DEF Read
  <1> QED
    BY <1>3, <1>5, <1>6

LEMMA ReadOne ==
  ASSUME IInv, si < Len(source)
  PROVE  /\ Read \in Seq(Byte) /\ At(si) \in Byte
         /\ SubSeq(source, 1, si + 1) = Read \o <<At(si)>>
  <1>1. si \in Nat /\ Len(source) \in Nat /\ source \in Seq(Byte)
    BY DEF IInv, InBounds
  <1>2. si + 1 \in 1..Len(source) /\ 1 \in 1..Len(source) /\ si + 1 \in 1..Len(source)
    BY <1>1
  <1>3. SubSeq(source, 1, si + 1) = SubSeq(source, 1, (si + 1) - 1) \o <<source[si + 1]>>
    BY <1>1, <1>2, SubSeqRecursiveSecond
  <1>4. (si + 1) - 1 = si
    BY <1>1
  <1>5. Read \in Seq(Byte)
    BY <1>1, ReadOn
  <1>6. At(si) \in Byte
    BY <1>1, <1>2 DEF At
  <1> QED
    BY <1>3, <1>4, <1>5, <1>6 DEF Read, At

LEMMA ReadAll ==
  ASSUME IInv, si = Len(source)
  PROVE  Read = source
  BY SubSeqFull DEF IInv, Read

LEMMA ListTypes ==
  ASSUME NEW list \in Seq(LzSequence)
  PROVE  Encode(list) \in Seq(Byte) /\ Expand(list) \in Outputs
  <1>1. Len(list) \in 0..Len(list)
    OBVIOUS
  <1> QED
    BY <1>1, EncodedDef, ExpandedDef DEF Encode, Expand

(* More bytes at the end of what is being read.                            *)
Longer2(a, b, c) == (a \o b) \o c = a \o (b \o c)
Longer3(a, b, c, d) == (a \o (b \o c)) \o d = a \o (b \o (c \o d))
Longer4(a, b, c, d, e) ==
  (a \o (b \o (c \o d))) \o e = a \o (b \o (c \o (d \o e)))

LEMMA Joined2 ==
  ASSUME NEW a \in Seq(Byte), NEW b \in Seq(Byte), NEW c \in Seq(Byte)
  PROVE  Longer2(a, b, c)
  BY ConcatAssociative DEF Longer2

LEMMA Joined3 ==
  ASSUME NEW a \in Seq(Byte), NEW b \in Seq(Byte), NEW c \in Seq(Byte), NEW d \in Seq(Byte)
  PROVE  Longer3(a, b, c, d)
  <1> DEFINE bc == b \o c
  <1>1. bc \in Seq(Byte)
    BY ConcatProperties
  <1>2. bc \o d = b \o (c \o d)
    BY ConcatAssociative
  <1> HIDE DEF bc
  <1>3. (a \o bc) \o d = a \o (bc \o d)
    BY <1>1, ConcatAssociative
  <1> QED
    BY <1>2, <1>3 DEF Longer3, bc

LEMMA Joined4 ==
  ASSUME NEW a \in Seq(Byte), NEW b \in Seq(Byte), NEW c \in Seq(Byte), NEW d \in Seq(Byte),
         NEW e \in Seq(Byte)
  PROVE  Longer4(a, b, c, d, e)
  <1> DEFINE cd == c \o d
  <1>1. cd \in Seq(Byte)
    BY ConcatProperties
  <1>2. cd \o e = c \o (d \o e)
    BY ConcatAssociative
  <1> HIDE DEF cd
  <1>3. Longer3(a, b, cd, e)
    BY <1>1, Joined3
  <1> QED
    BY <1>2, <1>3 DEF Longer3, Longer4, cd

LEMMA FullOneMore ==
  ASSUME NEW m \in Nat
  PROVE  Full(m) \o <<ByteMax>> = Full(m + 1)
  <1>1. Full(m) \in Seq(Byte) /\ Len(Full(m)) = m /\ \A k \in 1..m : Full(m)[k] = ByteMax
    BY FullShape
  <1>2. /\ Full(m + 1) \in Seq(Byte) /\ Len(Full(m + 1)) = m + 1
        /\ \A k \in 1..(m + 1) : Full(m + 1)[k] = ByteMax
    BY FullShape
  <1> DEFINE f == Full(m)
             g == <<ByteMax>>
             h == Full(m + 1)
  <1>3. g \in Seq(Byte) /\ Len(g) = 1 /\ g[1] = ByteMax
    BY Sizes, Single
  <1>4. f \in Seq(Byte) /\ Len(f) = m /\ \A k \in 1..m : f[k] = ByteMax
    BY <1>1
  <1>5. h \in Seq(Byte) /\ Len(h) = m + 1 /\ \A k \in 1..(m + 1) : h[k] = ByteMax
    BY <1>2
  <1> HIDE DEF f, g, h
  <1>6. /\ f \o g \in Seq(Byte) /\ Len(f \o g) = Len(f) + Len(g)
        /\ \A i \in 1..(Len(f) + Len(g)) :
             (f \o g)[i] = IF i <= Len(f) THEN f[i] ELSE g[i - Len(f)]
    BY <1>3, <1>4, ConcatProperties, Zenon
  <1>7. \A i \in 1..(m + 1) : (f \o g)[i] = h[i]
    BY <1>3, <1>4, <1>5, <1>6
  <1>8. f \o g = h
    BY <1>3, <1>4, <1>5, <1>6, <1>7, SeqEqual
  <1> QED
    BY <1>8 DEF f, g, h

LEMMA TypesNow ==
  ASSUME IInv
  PROVE  /\ si \in Nat /\ Len(source) \in Nat /\ si <= Len(source)
         /\ source \in Seq(Byte) /\ output \in Seq(Byte) /\ Read \in Seq(Byte)
         /\ token \in Byte /\ token \in Nat /\ length \in Nat /\ offset \in Nat
         /\ token \div Nibble \in 0..(Nibble - 1) /\ token % Nibble \in 0..(Nibble - 1)
         /\ <<token>> \in Seq(Byte)
  <1>1. si \in Nat /\ Len(source) \in Nat /\ si <= Len(source)
        /\ source \in Seq(Byte) /\ output \in Seq(Byte)
        /\ token \in Byte /\ length \in Nat /\ offset \in Nat
    BY DEF IInv, InBounds
  <1>2. Read \in Seq(Byte)
    <2>1. si + 0 <= Len(source)
      BY <1>1
    <2> QED
      BY <2>1, ReadOn
  <1> QED
    BY <1>1, <1>2, HalvesOf, Sizes, Single

LEMMA ReadTokenTold ==
  ASSUME IInv, Told, ReadToken
  PROVE  Told'
  <1>1. phase = "token"
    BY DEF ReadToken
  <1>2. PICK list \in OpenLists : Whole(list)
    BY <1>1 DEF Told
  <1>3. list \in Seq(LzSequence) /\ \A k \in 1..Len(list) : ~list[k].last
    BY DEF OpenLists
  <1>4. Encode(list) \in Seq(Byte)
    BY <1>3, ListTypes
  <1>5. CASE AtEnd
    <2>1. phase' = "done" /\ source' = source /\ output' = output
      BY <1>5 DEF ReadToken
    <2>2. si = Len(source)
      BY <1>5, TypesNow DEF AtEnd
    <2>3. source = Encode(list) /\ output = Expand(list)
      BY <1>2, <2>2, ReadAll DEF Whole
    <2>4. IsList(list)
      BY <1>3 DEF IsList
    <2>5. ToldWhole'
      BY <1>3, <2>1, <2>3, <2>4 DEF ToldWhole
    <2> QED
      BY <2>1, <2>5 DEF Told
  <1>6. CASE ~AtEnd
    <2>1. si < Len(source) /\ si \in Nat
      BY <1>6, TypesNow DEF AtEnd
    <2>2. token' = At(si) /\ si' = si + 1 /\ source' = source /\ output' = output
          /\ LengthFrom(token' \div Nibble, "moreLiterals", "literals")
      BY <1>6 DEF ReadToken
    <2>3. token' \in Byte /\ Read' = Read \o <<token'>>
      BY <2>1, <2>2, ReadOne DEF Read
    <2> DEFINE half == token' \div Nibble
    <2>4. half \in 0..(Nibble - 1) /\ half \in Nat
      <3>1. PICK t \in Byte : t = token'
        BY <2>3
      <3>2. t \div Nibble \in 0..(Nibble - 1)
        BY HalvesOf
      <3>3. half \in 0..(Nibble - 1)
        BY <3>1, <3>2, Zenon
      <3> HIDE DEF half
      <3> QED
        BY <3>3, Sizes
    <2>5. Read' = Encode(list) \o <<token'>> /\ output' = Expand(list)
      BY <1>2, <2>2, <2>3 DEF Whole
    <2>6. <<token'>> \in Seq(Byte)
      BY <2>3, Single
    <2>7. length' = half /\ phase' = IF half = Nibble - 1 THEN "moreLiterals" ELSE "literals"
      BY <2>2 DEF LengthFrom
    <2> HIDE DEF half
    <2>8. CASE half = Nibble - 1
      <3>1. <<token'>> \o Full(0) = <<token'>>
        <4>1. Full(0) = <<>>
          BY FullShape, EmptySeq
        <4> QED
          BY <2>6, <4>1, ConcatEmptySeq
      <3>2. length' = Nibble - 1 + 0 * ByteMax
        BY <2>7, <2>8, Sizes
      <3>3. Read' = Encode(list) \o (<<token'>> \o Full(0))
        BY <2>5, <3>1
      <3>4. LiteralsBegun(list)'
        BY <2>5, <2>8, <3>2, <3>3 DEF LiteralsBegun, half
      <3> QED
        BY <2>7, <2>8, <3>4 DEF Told
    <2>9. CASE half # Nibble - 1
      <3>1. half < Nibble - 1 /\ Half(half) = half
        BY <2>4, <2>9, HalfRange, Sizes
      <3>2. <<token'>> \o Extension(half) = <<token'>>
        BY <2>4, <2>6, <3>1, ExtensionNone, ConcatEmptySeq
      <3>3. LiteralsCounted(list)'
        <4>1. Read' = Encode(list) \o (<<token'>> \o Extension(length'))
          BY <2>5, <2>7, <3>2
        <4>2. token' \div Nibble = Half(length')
          BY <2>7, <3>1 DEF half
        <4> QED
          BY <2>5, <4>1, <4>2 DEF LiteralsCounted
      <3> QED
        BY <2>7, <2>9, <3>3 DEF Told
    <2> QED
      BY <2>8, <2>9
  <1> QED
    BY <1>5, <1>6

(* One byte of an extension: a full one, or the last.                      *)
LEMMA ExtensionByte ==
  ASSUME NEW b \in Byte, NEW m \in Nat, NEW n, n = Nibble - 1 + m * ByteMax
  PROVE  /\ n \in Nat /\ n + b \in Nat
         /\ b = ByteMax => n + b = Nibble - 1 + (m + 1) * ByteMax
                           /\ Full(m) \o <<b>> = Full(m + 1)
         /\ b # ByteMax => Full(m) \o <<b>> = Extension(n + b)
                           /\ ~(n + b < Nibble - 1)
  <1>1. b \in Nat /\ ByteMax \in Nat /\ Nibble \in Nat /\ Nibble >= 2 /\ m * ByteMax \in Nat
    BY Sizes
  <1>2. n \in Nat /\ n + b \in Nat
    BY <1>1
  <1>3. CASE b = ByteMax
    <2>1. (m + 1) * ByteMax = m * ByteMax + ByteMax
      BY <1>1
    <2>2. n + b = Nibble - 1 + (m + 1) * ByteMax
      BY <1>1, <1>3, <2>1
    <2> QED
      BY <1>2, <1>3, <2>2, FullOneMore
  <1>4. CASE b # ByteMax
    <2>1. b \in 0..(ByteMax - 1)
      BY <1>1, <1>4 DEF Byte
    <2>2. n + b = Nibble - 1 + (m * ByteMax + b)
      BY <1>1
    <2> QED
      BY <1>2, <1>4, <2>1, <2>2, ExtensionOf
  <1> QED
    BY <1>3, <1>4

LEMMA MoreLiteralsTold ==
  ASSUME IInv, Told, ReadExtension("moreLiterals", "literals")
  PROVE  Told'
  <1>1. phase = "moreLiterals"
    BY DEF ReadExtension
  <1>2. CASE AtEnd
    <2>1. phase' = "refused"
      BY <1>2 DEF ReadExtension, Refuse
    <2> QED
      BY <2>1 DEF Told
  <1>3. CASE ~AtEnd
    <2>1. PICK list \in OpenLists : LiteralsBegun(list)
      BY <1>1 DEF Told
    <2>2. PICK m \in Nat : /\ length = Nibble - 1 + m * ByteMax
                           /\ Read = Encode(list) \o (<<token>> \o Full(m))
      BY <2>1 DEF LiteralsBegun
    <2>3. si < Len(source) /\ si \in Nat
      BY <1>3, TypesNow DEF AtEnd
    <2> DEFINE b == At(si)
    <2>4. /\ length' = length + b /\ si' = si + 1
          /\ phase' = (IF b = ByteMax THEN "moreLiterals" ELSE "literals")
          /\ source' = source /\ output' = output /\ token' = token
      BY <1>3 DEF ReadExtension
    <2>5. b \in Byte /\ Read' = Read \o <<b>>
      BY <2>3, <2>4, ReadOne DEF Read
    <2>6. output' = Expand(list) /\ token' \div Nibble = Nibble - 1
      BY <2>1, <2>4 DEF LiteralsBegun
    <2>7. list \in Seq(LzSequence) /\ Encode(list) \in Seq(Byte)
      BY ListTypes DEF OpenLists
    <2> HIDE DEF b
    <2>8. Read' = Encode(list) \o (<<token'>> \o (Full(m) \o <<b>>))
      <3>1. <<token>> \in Seq(Byte) /\ Full(m) \in Seq(Byte) /\ <<b>> \in Seq(Byte)
        BY <2>5, TypesNow, FullShape, Single
      <3> DEFINE t == <<token>>
                 f == Full(m)
                 c == <<b>>
                 e == Encode(list)
      <3>2. t \in Seq(Byte) /\ f \in Seq(Byte) /\ c \in Seq(Byte) /\ e \in Seq(Byte)
        BY <2>7, <3>1
      <3>3. Read' = (e \o (t \o f)) \o c
        BY <2>2, <2>5
      <3> HIDE DEF t, f, c, e
      <3>4. Read' = e \o (t \o (f \o c))
        <4>1. Longer3(e, t, f, c)
          BY <3>2, Joined3
        <4> QED
          BY <3>3, <4>1 DEF Longer3
      <3> QED
        BY <2>4, <3>4 DEF t, f, c, e
    <2>9. CASE b = ByteMax
      <3>1. length' = Nibble - 1 + (m + 1) * ByteMax /\ Full(m) \o <<b>> = Full(m + 1)
        BY <2>2, <2>4, <2>5, <2>9, ExtensionByte
      <3>2. m + 1 \in Nat
        OBVIOUS
      <3>3a. Read' = Encode(list) \o (<<token'>> \o Full(m + 1))
        BY <2>8, <3>1, Zenon
      <3>3. LiteralsBegun(list)'
        BY <2>6, <3>1, <3>2, <3>3a DEF LiteralsBegun
      <3> QED
        BY <2>4, <2>9, <3>3 DEF Told
    <2>10. CASE b # ByteMax
      <3>1. length' \in Nat /\ ~(length' < Nibble - 1) /\ Full(m) \o <<b>> = Extension(length')
        BY <2>2, <2>4, <2>5, <2>10, ExtensionByte
      <3>2. Half(length') = Nibble - 1
        BY <3>1, HalfRange
      <3>3. LiteralsCounted(list)'
        <4>1. Read' = Encode(list) \o (<<token'>> \o Extension(length'))
          BY <2>8, <3>1
        <4>2. token' \div Nibble = Half(length')
          BY <2>6, <3>2
        <4> QED
          BY <2>6, <4>1, <4>2 DEF LiteralsCounted
      <3> QED
        BY <2>4, <2>10, <3>3 DEF Told
    <2> QED
      BY <2>9, <2>10
  <1> QED
    BY <1>2, <1>3

(* The sequence that has been read.                                        *)
IsLast(s, tok, literals) ==
  s.last /\ s.literals = literals /\ Written(s) = Opening(tok, literals)

IsCopy(s, tok, literals, back, copy) ==
  /\ ~s.last /\ s.literals = literals /\ s.back = back /\ s.copy = copy
  /\ Written(s) = Opening(tok, literals) \o (OffsetOf(back) \o Extension(copy))

LEMMA LastSequence ==
  ASSUME NEW tok \in Byte, NEW literals \in Seq(Byte), tok \div Nibble = Half(Len(literals))
  PROVE  \E s \in LzSequence : IsLast(s, tok, literals)
  <1> DEFINE half == tok % Nibble
             s == [literals |-> literals, back |-> 0, copy |-> half, last |-> TRUE]
  <1>1. half \in 0..(Nibble - 1) /\ half \in Nat /\ tok = (tok \div Nibble) * Nibble + half
    BY HalvesOf, Sizes
  <1>2. Half(half) = half
    <2> HIDE DEF half
    <2> QED
      BY <1>1, HalfRange, Sizes
  <1>3. 0 \in 0..(ByteMax + 1) * (ByteMax + 1) - 1
    BY Sizes
  <1>4. tok = Half(Len(literals)) * Nibble + Half(half)
    BY <1>1, <1>2, Zenon
  <1> HIDE DEF half
  <1>5. s \in LzSequence
    BY <1>1, <1>3 DEF LzSequence
  <1>6. s.last /\ s.literals = literals /\ s.copy = half
    OBVIOUS
  <1> HIDE DEF s
  <1>7. Written(s) = Opening(tok, literals)
    BY <1>4, <1>6, Zenon DEF Written, TokenOf
  <1> QED
    BY <1>5, <1>6, <1>7 DEF IsLast

LEMMA CopySequence ==
  ASSUME NEW tok \in Byte, NEW literals \in Seq(Byte), tok \div Nibble = Half(Len(literals)),
         NEW back \in 0..(ByteMax + 1) * (ByteMax + 1) - 1,
         NEW copy \in Nat, tok % Nibble = Half(copy)
  PROVE  \E s \in LzSequence : IsCopy(s, tok, literals, back, copy)
  <1> DEFINE s == [literals |-> literals, back |-> back, copy |-> copy, last |-> FALSE]
  <1>1. tok = (tok \div Nibble) * Nibble + (tok % Nibble)
    BY HalvesOf
  <1>2. tok = Half(Len(literals)) * Nibble + Half(copy)
    BY <1>1, Zenon
  <1>3. s \in LzSequence
    BY DEF LzSequence
  <1>4. ~s.last /\ s.literals = literals /\ s.copy = copy /\ s.back = back
    OBVIOUS
  <1> HIDE DEF s
  <1>5. Written(s) = Opening(tok, literals) \o (OffsetOf(back) \o Extension(copy))
    BY <1>2, <1>4, Zenon DEF Written, TokenOf
  <1> QED
    BY <1>3, <1>4, <1>5 DEF IsCopy

LEMMA CopyLiteralsTold ==
  ASSUME IInv, Told, CopyLiterals
  PROVE  Told'
  <1>1. phase = "literals"
    BY DEF CopyLiterals
  <1>2. CASE ~LiteralsFit
    <2>1. phase' = "refused"
      BY <1>2 DEF CopyLiterals, Refuse
    <2> QED
      BY <2>1 DEF Told
  <1>3. CASE LiteralsFit
    <2>1. PICK list \in OpenLists : LiteralsCounted(list)
      BY <1>1 DEF Told
    <2>2. /\ output = Expand(list) /\ token \div Nibble = Half(length)
          /\ Read = Encode(list) \o (<<token>> \o Extension(length))
      BY <2>1 DEF LiteralsCounted
    <2>3. list \in Seq(LzSequence) /\ \A k \in 1..Len(list) : ~list[k].last
      BY DEF OpenLists
    <2>4. Encode(list) \in Seq(Byte) /\ Expand(list) \in Seq(Byte)
      BY <2>2, <2>3, ListTypes, TypesNow
    <2> DEFINE part == SubSeq(source, si + 1, si + length)
    <2>5. length \in Nat /\ si + length <= Len(source)
      BY <1>3, TypesNow DEF LiteralsFit
    <2>6. part \in Seq(Byte) /\ Len(part) = length
          /\ SubSeq(source, 1, si + length) = Read \o part
      BY <2>5, ReadOn
    <2>7. /\ output' = output \o part /\ si' = si + length
          /\ phase' = (IF si' = Len(source) THEN "done" ELSE "offset")
          /\ source' = source /\ token' = token
      BY <1>3 DEF CopyLiterals
    <2>8. Read' = Read \o part
      BY <2>6, <2>7 DEF Read
    <2> HIDE DEF part
    <2>9. Read' = Encode(list) \o Opening(token, part)
      <3> DEFINE e == Encode(list)
                 t == <<token>>
                 x == Extension(length)
      <3>1. e \in Seq(Byte) /\ t \in Seq(Byte) /\ x \in Seq(Byte)
        BY <2>4, <2>5, TypesNow, ExtensionType
      <3>2. Read' = (e \o (t \o x)) \o part
        BY <2>2, <2>8
      <3> HIDE DEF e, t, x
      <3>3. Longer3(e, t, x, part)
        BY <2>6, <3>1, Joined3
      <3>4. Read' = e \o (t \o (x \o part))
        BY <3>2, <3>3 DEF Longer3
      <3> QED
        BY <2>6, <3>4, Zenon DEF Opening, e, t, x
    <2>10. token \div Nibble = Half(Len(part))
      BY <2>2, <2>6
    <2>11. CASE si' = Len(source)
      <3>0. PICK s \in LzSequence : IsLast(s, token, part)
        BY <2>6, <2>10, LastSequence, TypesNow
      <3>1. s.last /\ s.literals = part /\ Written(s) = Opening(token, part)
        BY <3>0 DEF IsLast
      <3> DEFINE more == Append(list, s)
      <3>2. /\ more \in Seq(LzSequence) /\ Len(more) = Len(list) + 1
            /\ \A k \in 1..Len(list) : more[k] = list[k]
            /\ Encode(more) = Encode(list) \o Written(s)
            /\ Expand(more) = Meant(Expand(list), s)
        BY <2>3, AnotherSequence
      <3> HIDE DEF more
      <3>3. IsList(more)
        BY <2>3, <3>2 DEF IsList
      <3>4. source' = Encode(more)
        <4>1. SubSeq(source, 1, si') = source
          BY <2>11, SubSeqFull, TypesNow
        <4>2. Read' = source'
          BY <2>7, <4>1 DEF Read
        <4> QED
          BY <2>9, <3>1, <3>2, <4>2
      <3>5. output' = Expand(more)
        BY <2>2, <2>4, <2>7, <3>1, <3>2, MeantLast
      <3>6. ToldWhole'
        BY <3>2, <3>3, <3>4, <3>5 DEF ToldWhole
      <3> QED
        BY <2>7, <2>11, <3>6 DEF Told
    <2>12. CASE si' # Len(source)
      <3>1. PICK literals \in Seq(Byte) : literals = part
        BY <2>6
      <3>2. LiteralsRead(list, literals)'
        BY <2>2, <2>4, <2>7, <2>10, <3>1 DEF LiteralsRead
      <3>4. Read' = Encode(list) \o Opening(token', literals)
        BY <2>7, <2>9, <3>1
      <3>3. AtOffset(list)'
        BY <3>2, <3>4 DEF AtOffset
      <3> QED
        BY <2>7, <2>12, <3>3 DEF Told
    <2> QED
      BY <2>11, <2>12
  <1> QED
    BY <1>2, <1>3

(* Two bytes are an offset, the low one first.                             *)
LEMMA OffsetRead ==
  ASSUME NEW a \in Byte, NEW b \in Byte
  PROVE  /\ a + (ByteMax + 1) * b \in 0..(ByteMax + 1) * (ByteMax + 1) - 1
         /\ a + (ByteMax + 1) * b \in Nat
         /\ OffsetOf(a + (ByteMax + 1) * b) = <<a, b>>
  <1> DEFINE B == ByteMax + 1
             n == a + B * b
  <1>1. B \in Nat \ {0} /\ a \in 0..(B - 1) /\ b \in 0..(B - 1) /\ a \in Nat /\ b \in Nat
    BY Sizes DEF Byte
  <1> HIDE DEF B
  <1>2. n = b * B + a /\ n \in Nat
    BY <1>1
  <1>3. n \div B = b /\ n % B = a
    <2> HIDE DEF n
    <2> QED
      BY <1>1, <1>2, DivMod
  <1>4. n <= B * B - 1
    <2>1. PICK c \in Nat : b + c = B - 1
      <3>1. B - 1 - b \in Nat /\ b + (B - 1 - b) = B - 1
        BY <1>1
      <3> QED
        BY <3>1
    <2>2. (b + c) * B = b * B + c * B /\ c * B \in Nat /\ b * B \in Nat
          /\ (B - 1) * B = B * B - B /\ B * B \in Nat
      BY <1>1
    <2>3. b * B + c * B = B * B - B
      BY <2>1, <2>2
    <2> QED
      BY <1>1, <1>2, <2>2, <2>3
  <1>5. n \in 0..(B * B - 1)
    <2>1. B * B - 1 \in Int
      BY <1>1
    <2> HIDE DEF n
    <2> QED
      BY <1>2, <1>4, <2>1
  <1>6. OffsetOf(n) = <<a, b>>
    <2> HIDE DEF n
    <2> QED
      BY <1>3 DEF OffsetOf, B
  <1> QED
    BY <1>2, <1>5, <1>6 DEF B

LEMMA ReadTwo ==
  ASSUME IInv, si + 2 <= Len(source)
  PROVE  /\ At(si) \in Byte /\ At(si + 1) \in Byte
         /\ SubSeq(source, 1, si + 2) = Read \o <<At(si), At(si + 1)>>
  <1>1. si \in Nat /\ source \in Seq(Byte) /\ Len(source) \in Nat
    BY TypesNow
  <1>2. At(si) \in Byte /\ At(si + 1) \in Byte
    <2>1. si + 1 \in 1..Len(source) /\ si + 2 \in 1..Len(source) /\ (si + 1) + 1 = si + 2
      BY <1>1
    <2> QED
      BY <1>1, <2>1 DEF At
  <1> DEFINE t == SubSeq(source, si + 1, si + 2)
             p == <<At(si), At(si + 1)>>
  <1>3. t \in Seq(Byte) /\ Len(t) = 2 /\ SubSeq(source, 1, si + 2) = Read \o t
    BY ReadOn
  <1>4. t[1] = At(si) /\ t[2] = At(si + 1)
    BY <1>1 DEF At
  <1>5. p \in Seq(Byte) /\ Len(p) = 2 /\ p[1] = At(si) /\ p[2] = At(si + 1)
    BY <1>2, Pair
  <1> HIDE DEF t, p
  <1>6. \A i \in 1..Len(t) : t[i] = p[i]
    <2>1. \A i \in 1..2 : i = 1 \/ i = 2
      OBVIOUS
    <2> QED
      BY <1>3, <1>4, <1>5, <2>1
  <1>7. t = p
    BY <1>3, <1>5, <1>6, SeqEqual
  <1> QED
    BY <1>2, <1>3, <1>7 DEF p

LEMMA ReadOffsetTold ==
  ASSUME IInv, Told, ReadOffset
  PROVE  Told'
  <1> DEFINE back == At(si) + (ByteMax + 1) * At(si + 1)
  <1>1. phase = "offset"
    BY DEF ReadOffset
  <1>2. CASE si + 2 > Len(source) \/ ~OffsetValid(back)
    <2>1. phase' = "refused"
      BY <1>2 DEF ReadOffset, Refuse
    <2> QED
      BY <2>1 DEF Told
  <1>3. CASE ~(si + 2 > Len(source)) /\ OffsetValid(back)
    <2>1. PICK list \in OpenLists : AtOffset(list)
      BY <1>1 DEF Told
    <2>2. PICK literals \in Seq(Byte) :
            LiteralsRead(list, literals) /\ Read = Encode(list) \o Opening(token, literals)
      BY <2>1 DEF AtOffset
    <2>3. /\ Expand(list) \in Seq(Byte) /\ output = Expand(list) \o literals
          /\ token \div Nibble = Half(Len(literals))
      BY <2>2 DEF LiteralsRead
    <2>4. list \in Seq(LzSequence) /\ Encode(list) \in Seq(Byte) /\ si + 2 <= Len(source)
      BY <1>3, ListTypes, TypesNow DEF OpenLists
    <2>5. /\ offset' = back /\ si' = si + 2 /\ LengthFrom(token % Nibble, "moreCopy", "copy")
          /\ source' = source /\ output' = output /\ token' = token
      BY <1>3 DEF ReadOffset
    <2>6. /\ At(si) \in Byte /\ At(si + 1) \in Byte
          /\ Read' = Read \o <<At(si), At(si + 1)>>
      BY <2>4, <2>5, ReadTwo DEF Read
    <2>7. /\ back \in 0..(ByteMax + 1) * (ByteMax + 1) - 1 /\ back \in Nat
          /\ OffsetOf(back) = <<At(si), At(si + 1)>>
      BY <2>6, OffsetRead
    <2> HIDE DEF back
    <2>8. PICK w : w = offset' /\ w \in 0..(ByteMax + 1) * (ByteMax + 1) - 1 /\ w \in Nat
                   /\ OffsetOf(w) \in Seq(Byte) /\ Read' = Read \o OffsetOf(w)
      <3>1. <<At(si), At(si + 1)>> \in Seq(Byte)
        BY <2>6, Pair
      <3> QED
        BY <2>5, <2>6, <2>7, <3>1
    <2>9. Opening(token, literals) \in Seq(Byte)
      <3>1. Extension(Len(literals)) \o literals \in Seq(Byte)
        BY ExtensionType, ConcatProperties
      <3> QED
        BY <3>1, TypesNow, ConcatProperties DEF Opening
    <2>10. Read' = Encode(list) \o (Opening(token', literals) \o OffsetOf(w))
      <3> DEFINE e == Encode(list)
                 t == Opening(token, literals)
                 x == OffsetOf(w)
      <3>1. e \in Seq(Byte) /\ t \in Seq(Byte) /\ x \in Seq(Byte)
        BY <2>4, <2>8, <2>9
      <3>2. Read' = (e \o t) \o x
        BY <2>2, <2>8
      <3> HIDE DEF e, t, x
      <3>3. Longer2(e, t, x)
        BY <3>1, Joined2
      <3>4. Read' = e \o (t \o x)
        BY <3>2, <3>3 DEF Longer2
      <3> QED
        BY <2>5, <3>4 DEF e, t, x
    <2>11. LiteralsRead(list, literals)'
      BY <2>3, <2>5 DEF LiteralsRead
    <2> DEFINE half == token % Nibble
    <2>12. half \in 0..(Nibble - 1) /\ half \in Nat
      BY TypesNow, Sizes
    <2>13. length' = half /\ phase' = IF half = Nibble - 1 THEN "moreCopy" ELSE "copy"
      BY <2>5 DEF LengthFrom
    <2> HIDE DEF half
    <2>14. CASE half = Nibble - 1
      <3>1. OffsetOf(w) \o Full(0) = OffsetOf(w)
        <4>1. Full(0) = <<>>
          BY FullShape, EmptySeq
        <4> QED
          BY <2>8, <4>1, ConcatEmptySeq
      <3>2. length' = Nibble - 1 + 0 * ByteMax
        BY <2>13, <2>14, Sizes
      <3>3. Read' = Encode(list) \o (Opening(token', literals) \o (OffsetOf(offset') \o Full(0)))
        BY <2>8, <2>10, <3>1
      <3>4. token' % Nibble = Nibble - 1
        BY <2>5, <2>14 DEF half
      <3>5. offset' \in 0..(ByteMax + 1) * (ByteMax + 1) - 1
        BY <2>8
      <3>6. CopyBegun(list)'
        BY <2>11, <3>2, <3>3, <3>4, <3>5 DEF CopyBegun
      <3> QED
        BY <2>13, <2>14, <3>6 DEF Told
    <2>15. CASE half # Nibble - 1
      <3>1. half < Nibble - 1 /\ Half(half) = half
        BY <2>12, <2>15, HalfRange, Sizes
      <3>2. OffsetOf(w) \o Extension(half) = OffsetOf(w)
        BY <2>8, <2>12, <3>1, ExtensionNone, ConcatEmptySeq
      <3>3. PICK s \in LzSequence : IsCopy(s, token, literals, w, half)
        <4>1. token \in Byte /\ token % Nibble = Half(half)
          BY <3>1, TypesNow DEF half
        <4> QED
          BY <2>3, <2>8, <2>12, <4>1, CopySequence
      <3>4. Read' = Encode(list) \o Written(s)
        BY <2>5, <2>10, <3>2, <3>3 DEF IsCopy
      <3>5. CopyOf(list, s)'
        BY <2>3, <2>8, <3>3, <3>4 DEF CopyOf, IsCopy
      <3>6. CopyCounted(list)'
        BY <2>3, <2>5, <2>13, <3>3, <3>5 DEF CopyCounted, IsCopy
      <3> QED
        BY <2>13, <2>15, <3>6 DEF Told
    <2> QED
      BY <2>14, <2>15
  <1> QED
    BY <1>2, <1>3

LEMMA MoreCopyTold ==
  ASSUME IInv, Told, ReadExtension("moreCopy", "copy")
  PROVE  Told'
  <1>1. phase = "moreCopy"
    BY DEF ReadExtension
  <1>2. CASE AtEnd
    <2>1. phase' = "refused"
      BY <1>2 DEF ReadExtension, Refuse
    <2> QED
      BY <2>1 DEF Told
  <1>3. CASE ~AtEnd
    <2>1. PICK list \in OpenLists : CopyBegun(list)
      BY <1>1 DEF Told
    <2>2. PICK literals \in Seq(Byte), m \in Nat :
            /\ LiteralsRead(list, literals) /\ token % Nibble = Nibble - 1
            /\ offset \in 0..(ByteMax + 1) * (ByteMax + 1) - 1
            /\ length = Nibble - 1 + m * ByteMax
            /\ Read = Encode(list) \o (Opening(token, literals) \o (OffsetOf(offset) \o Full(m)))
      BY <2>1 DEF CopyBegun
    <2>3. si < Len(source) /\ si \in Nat
      BY <1>3, TypesNow DEF AtEnd
    <2> DEFINE b == At(si)
    <2>4. /\ length' = length + b /\ si' = si + 1
          /\ phase' = (IF b = ByteMax THEN "moreCopy" ELSE "copy")
          /\ source' = source /\ output' = output /\ token' = token /\ offset' = offset
      BY <1>3 DEF ReadExtension
    <2>5. b \in Byte /\ Read' = Read \o <<b>>
      BY <2>3, <2>4, ReadOne DEF Read
    <2>6. LiteralsRead(list, literals)' /\ token' % Nibble = Nibble - 1
          /\ offset' \in 0..(ByteMax + 1) * (ByteMax + 1) - 1
      BY <2>2, <2>4 DEF LiteralsRead
    <2>7. list \in Seq(LzSequence) /\ Encode(list) \in Seq(Byte)
      BY ListTypes DEF OpenLists
    <2>8. Opening(token, literals) \in Seq(Byte)
      <3>1. Extension(Len(literals)) \o literals \in Seq(Byte)
        BY ExtensionType, ConcatProperties
      <3> QED
        BY <3>1, TypesNow, ConcatProperties DEF Opening
    <2>9. OffsetOf(offset) \in Seq(Byte)
      <3>1. PICK s \in LzSequence : s.back = offset
        <4>1. /\ [literals |-> <<>>, back |-> offset, copy |-> 0, last |-> TRUE] \in LzSequence
              /\ [literals |-> <<>>, back |-> offset, copy |-> 0, last |-> TRUE].back = offset
          BY <2>2 DEF LzSequence
        <4> QED
          BY <4>1
      <3> QED
        BY <3>1, WrittenType
    <2> HIDE DEF b
    <2>10. Read' = Encode(list) \o (Opening(token', literals)
                                    \o (OffsetOf(offset') \o (Full(m) \o <<b>>)))
      <3> DEFINE e == Encode(list)
                 t == Opening(token, literals)
                 x == OffsetOf(offset)
                 f == Full(m)
                 c == <<b>>
      <3>1. e \in Seq(Byte) /\ t \in Seq(Byte) /\ x \in Seq(Byte) /\ f \in Seq(Byte)
            /\ c \in Seq(Byte)
        BY <2>5, <2>7, <2>8, <2>9, FullShape, Single
      <3>2. Read' = (e \o (t \o (x \o f))) \o c
        BY <2>2, <2>5
      <3> HIDE DEF e, t, x, f, c
      <3>3. Longer4(e, t, x, f, c)
        BY <3>1, Joined4
      <3>4. Read' = e \o (t \o (x \o (f \o c)))
        BY <3>2, <3>3 DEF Longer4
      <3> QED
        BY <2>4, <3>4 DEF e, t, x, f, c
    <2>11. CASE b = ByteMax
      <3>1. length' = Nibble - 1 + (m + 1) * ByteMax /\ Full(m) \o <<b>> = Full(m + 1)
        BY <2>2, <2>4, <2>5, <2>11, ExtensionByte
      <3>2. m + 1 \in Nat
        OBVIOUS
      <3>3. Read' = Encode(list) \o (Opening(token', literals)
                                     \o (OffsetOf(offset') \o Full(m + 1)))
        BY <2>10, <3>1, Zenon
      <3>4. CopyBegun(list)'
        BY <2>6, <3>1, <3>2, <3>3 DEF CopyBegun
      <3> QED
        BY <2>4, <2>11, <3>4 DEF Told
    <2>12. CASE b # ByteMax
      <3>1. PICK n \in Nat : n = length' /\ ~(n < Nibble - 1) /\ Full(m) \o <<b>> = Extension(n)
        BY <2>2, <2>4, <2>5, <2>12, ExtensionByte
      <3>2. Half(n) = Nibble - 1
        BY <3>1, HalfRange
      <3>3. token \in Byte /\ token % Nibble = Half(n) /\ token \div Nibble = Half(Len(literals))
        BY <2>2, <3>2, TypesNow DEF LiteralsRead
      <3>4. PICK w \in 0..(ByteMax + 1) * (ByteMax + 1) - 1 : w = offset
        BY <2>2
      <3>5. PICK s \in LzSequence : IsCopy(s, token, literals, w, n)
        BY <3>3, CopySequence
      <3>6. Read' = Encode(list) \o Written(s)
        BY <2>4, <2>10, <3>1, <3>4, <3>5 DEF IsCopy
      <3>7. CopyOf(list, s)'
        BY <2>4, <2>6, <3>4, <3>5, <3>6 DEF CopyOf, LiteralsRead, IsCopy
      <3>8. CopyCounted(list)'
        BY <2>6, <3>1, <3>5, <3>7 DEF CopyCounted, LiteralsRead, IsCopy
      <3> QED
        BY <2>4, <2>12, <3>8 DEF Told
    <2> QED
      BY <2>11, <2>12
  <1> QED
    BY <1>2, <1>3

LEMMA OneByteMore ==
  ASSUME NEW now \in Seq(Byte), NEW b \in Byte, NEW more, more = Append(now, b)
  PROVE  /\ more \in Seq(Byte) /\ Len(more) = Len(now) + 1
         /\ \A i \in 1..Len(now) : more[i] = now[i]
         /\ more[Len(now) + 1] = b
  BY AppendProperties

(* A byte that is not copied yet is "back" bytes after one that is.        *)
LEMMA CopiedMore ==
  ASSUME NEW end \in Seq(Byte), NEW back \in 1..Len(end), NEW n \in Nat
  PROVE  LET now == end \o Copied(end, back, n)
         IN /\ now \in Seq(Byte) /\ Len(now) = Len(end) + n
            /\ Append(now, now[Len(now) - back + 1]) = end \o Copied(end, back, n + 1)
  <1> DEFINE c == Copied(end, back, n)
             d == Copied(end, back, n + 1)
             at(j) == end[Len(end) - back + 1 + ((j - 1) % back)]
             now == end \o c
             b == now[Len(now) - back + 1]
  <1>1. back \in Nat \ {0} /\ Len(end) \in Nat /\ back <= Len(end) /\ n + 1 \in Nat
    OBVIOUS
  <1>2. c \in Seq(Byte) /\ Len(c) = n /\ \A j \in 1..n : c[j] = at(j)
    BY CopiedType
  <1>3. d \in Seq(Byte) /\ Len(d) = n + 1 /\ \A j \in 1..(n + 1) : d[j] = at(j)
    BY <1>1, CopiedType
  <1> HIDE DEF c, d, at
  <1>4. /\ now \in Seq(Byte) /\ Len(now) = Len(end) + n
        /\ \A i \in 1..(Len(end) + n) :
             now[i] = IF i <= Len(end) THEN end[i] ELSE c[i - Len(end)]
    <2>1. /\ now \in Seq(Byte) /\ Len(now) = Len(end) + Len(c)
          /\ \A i \in 1..(Len(end) + Len(c)) :
               now[i] = IF i <= Len(end) THEN end[i] ELSE c[i - Len(end)]
      BY <1>2, ConcatProperties, Zenon
    <2> QED
      BY <1>2, <2>1
  <1>5. /\ end \o d \in Seq(Byte) /\ Len(end \o d) = Len(end) + n + 1
        /\ \A i \in 1..(Len(end) + n + 1) :
             (end \o d)[i] = IF i <= Len(end) THEN end[i] ELSE d[i - Len(end)]
    <2>1. /\ end \o d \in Seq(Byte) /\ Len(end \o d) = Len(end) + Len(d)
          /\ \A i \in 1..(Len(end) + Len(d)) :
               (end \o d)[i] = IF i <= Len(end) THEN end[i] ELSE d[i - Len(end)]
      BY <1>3, ConcatProperties, Zenon
    <2> QED
      BY <1>1, <1>3, <2>1
  <1> HIDE DEF now
  <1>6. b = at(n + 1)
    <2>1. Len(now) - back + 1 = Len(end) + n - back + 1
          /\ Len(end) + n - back + 1 \in 1..(Len(end) + n)
      BY <1>1, <1>4
    <2>2. CASE n < back
      <3>1. ((n + 1) - 1) % back = n
        <4>1. (0 * back + n) % back = n
          BY <1>1, <2>2, DivMod
        <4>2. 0 * back + n = n /\ (n + 1) - 1 = n
          BY <1>1
        <4> QED
          BY <4>1, <4>2
      <3>2. at(n + 1) = end[Len(end) - back + 1 + n]
        BY <3>1 DEF at
      <3>3. Len(end) + n - back + 1 <= Len(end) /\ Len(end) + n - back + 1 = Len(end) - back + 1 + n
        BY <1>1, <2>2
      <3>4. b = end[Len(end) + n - back + 1]
        BY <1>4, <2>1, <3>3
      <3> QED
        BY <3>2, <3>3, <3>4
    <2>3. CASE n >= back
      <3> DEFINE j == n - back + 1
      <3>1. j \in 1..n /\ Len(end) + n - back + 1 > Len(end)
            /\ (Len(end) + n - back + 1) - Len(end) = j
        BY <1>1, <2>3
      <3>2. b = c[j]
        BY <1>1, <1>4, <2>1, <3>1
      <3>3. ((n + 1) - 1) % back = (j - 1) % back
        <4>1. PICK q \in Nat, r \in 0..(back - 1) : n = q * back + r
          BY <1>1, DivModExists
        <4>2. q # 0
          <5>1. q = 0 => q * back = 0
            BY <1>1
          <5> QED
            BY <1>1, <2>3, <4>1, <5>1
        <4>3. PICK p \in Nat : q = p + 1
          <5>1. q - 1 \in Nat /\ q = (q - 1) + 1
            BY <4>2
          <5> QED
            BY <5>1
        <4>4. q * back = p * back + back /\ p * back \in Nat
          BY <1>1, <4>3
        <4>5. j - 1 = p * back + r
          BY <1>1, <4>1, <4>4
        <4>6. n % back = r /\ (j - 1) % back = r
          <5>1. (q * back + r) % back = r /\ (p * back + r) % back = r
            BY <1>1, DivMod
          <5> HIDE DEF j
          <5> QED
            BY <4>1, <4>5, <5>1
        <4>7. (n + 1) - 1 = n
          OBVIOUS
        <4> QED
          BY <4>6, <4>7
      <3>4. c[j] = at(j)
        BY <1>2, <3>1
      <3>5. at(j) = at(n + 1)
        <4> HIDE DEF j
        <4> QED
          BY <3>3 DEF at
      <3> QED
        BY <3>2, <3>4, <3>5
    <2> QED
      BY <1>1, <2>2, <2>3
  <1>7. b \in Byte
    <2>1. Len(now) - back + 1 \in 1..Len(now)
      BY <1>1, <1>4
    <2> QED
      BY <1>4, <2>1
  <1> DEFINE more == Append(now, b)
  <1> HIDE DEF b
  <1>8. /\ more \in Seq(Byte) /\ Len(more) = Len(now) + 1
        /\ \A i \in 1..Len(now) : more[i] = now[i]
        /\ more[Len(now) + 1] = b
    <2>1. more = Append(now, b)
      OBVIOUS
    <2> HIDE DEF more
    <2> QED
      <3>1. now \in Seq(Byte) /\ b \in Byte
        BY <1>4, <1>7
      <3> QED
        BY <2>1, <3>1, OneByteMore
  <1> HIDE DEF more
  <1>9. \A i \in 1..(Len(end) + n + 1) : more[i] = (end \o d)[i]
    <2> SUFFICES ASSUME NEW i \in 1..(Len(end) + n + 1) PROVE more[i] = (end \o d)[i]
      OBVIOUS
    <2>1. CASE i <= Len(end)
      <3>1. i \in 1..Len(now) /\ i \in 1..(Len(end) + n)
        BY <1>1, <1>4, <2>1
      <3> QED
        BY <1>4, <1>5, <1>8, <2>1, <3>1
    <2>2. CASE i > Len(end) /\ i <= Len(end) + n
      <3>1. i \in 1..Len(now) /\ i \in 1..(Len(end) + n) /\ ~(i <= Len(end))
            /\ i - Len(end) \in 1..n /\ i - Len(end) \in 1..(n + 1)
        BY <1>1, <1>4, <2>2
      <3>2. more[i] = c[i - Len(end)]
        BY <1>4, <1>8, <3>1
      <3>3. (end \o d)[i] = d[i - Len(end)]
        BY <1>5, <3>1
      <3> QED
        BY <1>2, <1>3, <3>1, <3>2, <3>3
    <2>3. CASE i = Len(end) + n + 1
      <3>1. i = Len(now) + 1 /\ ~(i <= Len(end)) /\ i - Len(end) = n + 1 /\ n + 1 \in 1..(n + 1)
        BY <1>1, <1>4, <2>3
      <3> QED
        BY <1>3, <1>5, <1>6, <1>8, <3>1
    <2>4. i <= Len(end) \/ (i > Len(end) /\ i <= Len(end) + n) \/ i = Len(end) + n + 1
      BY <1>1
    <2> QED
      BY <2>1, <2>2, <2>3, <2>4, Zenon
  <1>10. more = end \o d
    <2>1. Len(more) = Len(end \o d) /\ Len(end \o d) = Len(end) + n + 1
      BY <1>1, <1>4, <1>5, <1>8
    <2> QED
      BY <1>5, <1>8, <1>9, <2>1, SeqEqual
  <1> QED
    BY <1>4, <1>10 DEF now, b, c, d, more

LEMMA BeginCopyTold ==
  ASSUME IInv, Told, BeginCopy
  PROVE  Told'
  <1>1. phase = "copy"
    BY DEF BeginCopy
  <1>2. CASE ~CopyFits
    <2>1. phase' = "refused"
      BY <1>2 DEF BeginCopy, Refuse
    <2> QED
      BY <2>1 DEF Told
  <1>3. CASE CopyFits
    <2>1. PICK list \in OpenLists : CopyCounted(list)
      BY <1>1 DEF Told
    <2>2. PICK s \in LzSequence :
            CopyOf(list, s) /\ s.copy = length /\ output = Expand(list) \o s.literals
      BY <2>1 DEF CopyCounted
    <2>3. length' = length + MinMatch /\ phase' = "copying"
          /\ source' = source /\ si' = si /\ output' = output /\ offset' = offset
      BY <1>3 DEF BeginCopy
    <2>4. offset \in 1..Len(output)
      BY <1>1 DEF IInv, InBounds
    <2>5. s.back \in 1..Len(Expand(list) \o s.literals)
      BY <2>2, <2>4 DEF CopyOf
    <2> DEFINE end == Expand(list) \o s.literals
    <2>6. end \in Seq(Byte)
      BY <2>2, TypesNow
    <2>7. end \o Copied(end, s.back, 0) = end
      <3>1. s.back \in 1..Len(end)
        BY <2>5
      <3> HIDE DEF end
      <3>2. Copied(end, s.back, 0) \in Seq(Byte) /\ Len(Copied(end, s.back, 0)) = 0
        BY <2>6, <3>1, CopiedType
      <3>3. Copied(end, s.back, 0) = <<>>
        BY <3>2, EmptySeq
      <3> QED
        BY <2>6, <3>3, ConcatEmptySeq
    <2>8. output' = end \o Copied(end, s.back, 0)
      BY <2>2, <2>3, <2>7
    <2>9. 0 \in Nat /\ 0 + length' = s.copy + MinMatch
      BY <2>2, <2>3, TypesNow, Sizes
    <2>10. CopyOf(list, s)'
      BY <2>2, <2>3 DEF CopyOf, Read
    <2>11. Copying(list)'
      BY <2>5, <2>8, <2>9, <2>10 DEF Copying
    <2> QED
      BY <2>3, <2>11 DEF Told
  <1> QED
    BY <1>2, <1>3

LEMMA CopyByteTold ==
  ASSUME IInv, Told, CopyByte
  PROVE  Told'
  <1>1. phase = "copying" /\ length > 0
    BY DEF CopyByte
  <1>2. PICK list \in OpenLists : Copying(list)
    BY <1>1 DEF Told
  <1>3. PICK s \in LzSequence, n \in Nat :
          /\ CopyOf(list, s) /\ n + length = s.copy + MinMatch
          /\ s.back \in 1..Len(Expand(list) \o s.literals)
          /\ output = (Expand(list) \o s.literals)
                      \o Copied(Expand(list) \o s.literals, s.back, n)
    BY <1>2 DEF Copying
  <1>4. /\ output' = Append(output, output[di - offset + 1]) /\ length' = length - 1
        /\ phase' = phase /\ source' = source /\ si' = si /\ offset' = offset
    BY DEF CopyByte
  <1>5. PICK end \in Seq(Byte) : end = Expand(list) \o s.literals
    BY <1>3, WrittenType, ConcatProperties DEF CopyOf
  <1>6. output' = end \o Copied(end, s.back, n + 1)
    <2>1. s.back = offset
      BY <1>3 DEF CopyOf
    <2>2. output = end \o Copied(end, s.back, n)
      BY <1>3, <1>5
    <2>3. s.back \in 1..Len(end)
      BY <1>3, <1>5
    <2>4. Append(output, output[Len(output) - s.back + 1]) = end \o Copied(end, s.back, n + 1)
      BY <2>2, <2>3, CopiedMore
    <2> QED
      BY <1>4, <2>1, <2>4 DEF di
  <1>7. n + 1 \in Nat /\ (n + 1) + length' = s.copy + MinMatch
    BY <1>1, <1>3, <1>4, TypesNow
  <1>8. CopyOf(list, s)'
    BY <1>3, <1>4 DEF CopyOf, Read
  <1>9. Copying(list)'
    BY <1>3, <1>5, <1>6, <1>7, <1>8 DEF Copying
  <1> QED
    BY <1>1, <1>4, <1>9 DEF Told

LEMMA EndCopyTold ==
  ASSUME IInv, Told, EndCopy
  PROVE  Told'
  <1>1. phase = "copying" /\ length = 0
    BY DEF EndCopy
  <1>2. PICK list \in OpenLists : Copying(list)
    BY <1>1 DEF Told
  <1>3. PICK s \in LzSequence, n \in Nat :
          /\ CopyOf(list, s) /\ n + length = s.copy + MinMatch
          /\ s.back \in 1..Len(Expand(list) \o s.literals)
          /\ output = (Expand(list) \o s.literals)
                      \o Copied(Expand(list) \o s.literals, s.back, n)
    BY <1>2 DEF Copying
  <1>4. phase' = "token" /\ source' = source /\ si' = si /\ output' = output
    BY DEF EndCopy
  <1>5. n = s.copy + MinMatch
    BY <1>1, <1>3
  <1>6. list \in Seq(LzSequence) /\ \A k \in 1..Len(list) : ~list[k].last
    BY DEF OpenLists
  <1>7. ~s.last /\ Expand(list) \in Seq(Byte) /\ Read = Encode(list) \o Written(s)
    BY <1>3 DEF CopyOf
  <1> DEFINE more == Append(list, s)
  <1>8. /\ more \in Seq(LzSequence) /\ Len(more) = Len(list) + 1 /\ more[Len(list) + 1] = s
        /\ \A k \in 1..Len(list) : more[k] = list[k]
        /\ Encode(more) = Encode(list) \o Written(s)
        /\ Expand(more) = Meant(Expand(list), s)
    BY <1>6, AnotherSequence
  <1> HIDE DEF more
  <1>9. more \in OpenLists
    <2>1. \A k \in 1..Len(more) : k = Len(list) + 1 \/ k \in 1..Len(list)
      BY <1>6, <1>8
    <2>2. \A k \in 1..Len(more) : ~more[k].last
      BY <1>6, <1>7, <1>8, <2>1
    <2> QED
      BY <1>8, <2>2 DEF OpenLists
  <1>10. output = Expand(more)
    BY <1>3, <1>5, <1>7, <1>8, MeantCopy
  <1>11. Whole(more)'
    BY <1>4, <1>7, <1>8, <1>10 DEF Whole, Read
  <1> QED
    BY <1>4, <1>9, <1>11 DEF Told

LEMMA InitTold == BlockInit => Told
  <1> SUFFICES ASSUME BlockInit PROVE Told
    OBVIOUS
  <1>1. source \in Seq(Byte) /\ si = 0 /\ output = <<>> /\ phase = "token"
    BY Lz4Assumption DEF BlockInit
  <1>2. Read = <<>>
    BY <1>1, SubSeqEmpty DEF Read
  <1>3. Whole(<<>>) /\ <<>> \in OpenLists
    BY <1>1, <1>2, NoSequence DEF Whole, OpenLists
  <1> QED
    BY <1>1, <1>3 DEF Told

LEMMA NextTold == IInv /\ Told /\ [BlockNext]_blockVars => Told'
  <1> SUFFICES ASSUME IInv, Told, [BlockNext]_blockVars PROVE Told'
    OBVIOUS
  <1>1. CASE ReadToken
    BY <1>1, ReadTokenTold
  <1>2. CASE CopyLiterals
    BY <1>2, CopyLiteralsTold
  <1>3. CASE ReadOffset
    BY <1>3, ReadOffsetTold
  <1>4. CASE BeginCopy
    BY <1>4, BeginCopyTold
  <1>5. CASE CopyByte
    BY <1>5, CopyByteTold
  <1>6. CASE EndCopy
    BY <1>6, EndCopyTold
  <1>7. CASE ReadExtension("moreLiterals", "literals")
    BY <1>7, MoreLiteralsTold
  <1>8. CASE ReadExtension("moreCopy", "copy")
    BY <1>8, MoreCopyTold
  <1>9. CASE UNCHANGED blockVars
    <2>1. /\ source' = source /\ si' = si /\ output' = output /\ phase' = phase
          /\ token' = token /\ length' = length /\ offset' = offset
      BY <1>9 DEF blockVars
    <2>2. Read' = Read
      BY <2>1 DEF Read
    <2>3. \A list : Whole(list) => Whole(list)'
      BY <2>1, <2>2 DEF Whole
    <2>4. \A list : LiteralsBegun(list) => LiteralsBegun(list)'
      BY <2>1, <2>2 DEF LiteralsBegun
    <2>5. \A list : LiteralsCounted(list) => LiteralsCounted(list)'
      BY <2>1, <2>2 DEF LiteralsCounted
    <2>6. \A list, literals : LiteralsRead(list, literals) => LiteralsRead(list, literals)'
      BY <2>1 DEF LiteralsRead
    <2>7. \A list : AtOffset(list) => AtOffset(list)'
      BY <2>1, <2>2, <2>6 DEF AtOffset
    <2>8. \A list : CopyBegun(list) => CopyBegun(list)'
      BY <2>1, <2>2, <2>6 DEF CopyBegun
    <2>9. \A list, s : CopyOf(list, s) => CopyOf(list, s)'
      BY <2>1, <2>2 DEF CopyOf
    <2>10. \A list : CopyCounted(list) => CopyCounted(list)'
      BY <2>1, <2>9 DEF CopyCounted
    <2>11. \A list : Copying(list) => Copying(list)'
      BY <2>1, <2>9 DEF Copying
    <2>12. ToldWhole => ToldWhole'
      BY <2>1 DEF ToldWhole
    <2> QED
      BY <2>1, <2>3, <2>4, <2>5, <2>7, <2>8, <2>10, <2>11, <2>12 DEF Told
  <1> QED
    BY <1>1, <1>2, <1>3, <1>4, <1>5, <1>6, <1>7, <1>8, <1>9 DEF BlockNext

-----------------------------------------------------------------------------
(* The decoder follows every list that the block could have been written
   from and that means something within the frame.                         *)

Ahead == SubSeq(source, si + 1, Len(source))

Meaningful == {list \in Seq(LzSequence) :
  IsList(list) /\ Expand(list) # Meaningless /\ Len(Expand(list)) <= Capacity}

(* Sequence s of a list, the output before it and the block behind it.     *)
Inside(list, s, out, behind) ==
  \E k \in 0..(Len(list) - 1) :
    /\ s = list[k + 1] /\ out = Expanded(list)[k]
    /\ Encode(list) = Encoded(list)[k + 1] \o behind

CopyPart(s, behind) ==
  IF s.last THEN behind ELSE (OffsetOf(s.back) \o Extension(s.copy)) \o behind

(* What an extension still adds to the length.                             *)
Owed(n, rest) ==
  \E j \in Nat, r \in 0..(ByteMax - 1) :
    length + (j * ByteMax + r) = n /\ Ahead = Full(j) \o (<<r>> \o rest)

BeforeToken(list) ==
  \E k \in 0..Len(list) :
    output = Expanded(list)[k] /\ Encode(list) = Encoded(list)[k] \o Ahead

InExtension(list) ==
  \E s \in LzSequence, out, behind \in Seq(Byte) :
    /\ Inside(list, s, out, behind) /\ token = TokenOf(s) /\ output = out
    /\ Owed(Len(s.literals), s.literals \o CopyPart(s, behind))

BeforeLiterals(list) ==
  \E s \in LzSequence, out, behind \in Seq(Byte) :
    /\ Inside(list, s, out, behind) /\ token = TokenOf(s) /\ output = out
    /\ length = Len(s.literals) /\ Ahead = s.literals \o CopyPart(s, behind)

BeforeOffset(list) ==
  \E s \in LzSequence, out, behind \in Seq(Byte) :
    /\ Inside(list, s, out, behind) /\ token = TokenOf(s) /\ output = out \o s.literals
    /\ ~s.last /\ Ahead = CopyPart(s, behind)

InCopyExtension(list) ==
  \E s \in LzSequence, out, behind \in Seq(Byte) :
    /\ Inside(list, s, out, behind) /\ output = out \o s.literals
    /\ ~s.last /\ offset = s.back /\ Owed(s.copy, behind)

BeforeCopy(list) ==
  \E s \in LzSequence, out, behind \in Seq(Byte) :
    /\ Inside(list, s, out, behind) /\ output = out \o s.literals
    /\ ~s.last /\ offset = s.back /\ length = s.copy /\ Ahead = behind

InCopy(list) ==
  \E s \in LzSequence, out, behind \in Seq(Byte), n \in Nat :
    /\ Inside(list, s, out, behind)
    /\ output = (out \o s.literals) \o Copied(out \o s.literals, s.back, n)
    /\ ~s.last /\ offset = s.back /\ n + length = s.copy + MinMatch /\ Ahead = behind

Following(list) ==
  /\ phase # "refused"
  /\ phase = "token" => BeforeToken(list)
  /\ phase = "moreLiterals" => InExtension(list)
  /\ phase = "literals" => BeforeLiterals(list)
  /\ phase = "offset" => BeforeOffset(list)
  /\ phase = "moreCopy" => InCopyExtension(list)
  /\ phase = "copy" => BeforeCopy(list)
  /\ phase = "copying" => InCopy(list)
  /\ phase = "done" => output = Expand(list)

Followed == \A list \in Meaningful : source = Encode(list) => Following(list)

(* Each block begins those of longer lists.                                *)
LEMMA Begins ==
  ASSUME NEW list \in Seq(LzSequence), NEW k \in 0..Len(list)
  PROVE  \E behind \in Seq(Byte) : Encode(list) = Encoded(list)[k] \o behind
  <1> DEFINE n == Len(list)
             e == Encoded(list)
             P == {m \in Nat : k <= m /\ m <= n => \E b \in Seq(Byte) : e[m] = e[k] \o b}
  <1>0. n \in Nat /\ k \in Nat /\ k <= n
    OBVIOUS
  <1>1. /\ n \in Nat /\ k \in Nat /\ k <= n /\ e \in [0..n -> Seq(Byte)]
        /\ \A m \in 1..n : e[m] = e[m - 1] \o Written(list[m])
    BY <1>0, EncodedDef
  <1>2. \A m \in 1..n : Written(list[m]) \in Seq(Byte)
    BY WrittenType
  <1>3. e[k] \in Seq(Byte) /\ e[k] = e[k] \o <<>> /\ <<>> \in Seq(Byte)
    <2>1. e[k] \in Seq(Byte)
      BY <1>1
    <2> HIDE DEF e
    <2> QED
      BY <2>1, ConcatEmptySeq
  <1> HIDE DEF e, n
  <1>4. 0 \in P
    <2> SUFFICES ASSUME k <= 0 PROVE \E b \in Seq(Byte) : e[0] = e[k] \o b
      OBVIOUS
    <2>1. k = 0
      BY <1>1
    <2> QED
      BY <1>3, <2>1
  <1>5. \A m \in P : m + 1 \in P
    <2>1. ASSUME NEW m \in P, k <= m + 1, m + 1 <= n
          PROVE  \E b \in Seq(Byte) : e[m + 1] = e[k] \o b
      <3>1. m \in Nat
        OBVIOUS
      <3>2. CASE k = m + 1
        BY <1>3, <3>2
      <3>3. CASE k # m + 1
        <4>1. k <= m /\ m <= n
          BY <1>1, <2>1, <3>1, <3>3
        <4>2. PICK b \in Seq(Byte) : e[m] = e[k] \o b
          BY <4>1
        <4>3. m + 1 \in 1..n /\ (m + 1) - 1 = m
          BY <1>1, <2>1, <3>1
        <4>4. e[m + 1] = e[m] \o Written(list[m + 1])
          BY <1>1, <4>3
        <4> DEFINE w == Written(list[m + 1])
                   ek == e[k]
        <4>5. w \in Seq(Byte) /\ ek \in Seq(Byte)
          BY <1>2, <1>3, <4>3
        <4>6. e[m + 1] = (ek \o b) \o w
          BY <4>2, <4>4
        <4> HIDE DEF w, ek
        <4>7. (ek \o b) \o w = ek \o (b \o w)
          BY <4>5, ConcatAssociative
        <4>8. b \o w \in Seq(Byte)
          BY <4>5, ConcatProperties
        <4>9. e[m + 1] = ek \o (b \o w)
          BY <4>6, <4>7
        <4> QED
          BY <4>8, <4>9 DEF ek
      <3> QED
        BY <3>2, <3>3
    <2>2. \A m \in P : m + 1 \in Nat
      OBVIOUS
    <2> QED
      BY <2>1, <2>2
  <1>6. P = Nat
    <2>1. P \in SUBSET Nat
      OBVIOUS
    <2> HIDE DEF P
    <2> QED
      BY <1>4, <1>5, <2>1, Induct
  <1>7. \E b \in Seq(Byte) : e[n] = e[k] \o b
    <2>1. n \in P
      BY <1>1, <1>6
    <2>2. k <= n /\ n <= n => \E b \in Seq(Byte) : e[n] = e[k] \o b
      BY <2>1, Zenon
    <2>3. k <= n /\ n <= n
      BY <1>1
    <2> QED
      BY <2>2, <2>3, Zenon
  <1> QED
    BY <1>7 DEF Encode, e, n

(* Every beginning of a list that means something does, and fits.          *)
LEMMA BeginningsFit ==
  ASSUME NEW list \in Meaningful
  PROVE  \A k \in 0..Len(list) :
           Expanded(list)[k] \in Seq(Byte) /\ Len(Expanded(list)[k]) <= Capacity
  <1> DEFINE n == Len(list)
             x == Expanded(list)
             Fits(o) == o \in Seq(Byte) /\ Len(o) <= Capacity
             P == {m \in Nat : m <= n => Fits(x[n - m])}
  <1>1. /\ n \in Nat /\ x \in [0..n -> Outputs]
        /\ \A m \in 1..n : x[m] = Meant(x[m - 1], list[m]) /\ list[m] \in LzSequence
    BY ExpandedDef DEF Meaningful
  <1>2. Fits(x[n])
    <2>1. x[n] \in Outputs /\ x[n] # Meaningless /\ Len(x[n]) <= Capacity
      BY <1>1 DEF Meaningful, Expand
    <2> QED
      BY <2>1 DEF Outputs
  <1> HIDE DEF n, x
  <1>3. 0 \in P
    <2>1. n - 0 = n
      BY <1>1
    <2> QED
      BY <1>2, <2>1
  <1>4. \A m \in P : m + 1 \in P
    <2>1. ASSUME NEW m \in P, m + 1 <= n
          PROVE  Fits(x[n - (m + 1)])
      <3>1. m \in Nat /\ m <= n
        BY <1>1, <2>1
      <3> DEFINE i == n - m
      <3>2. i \in 1..n /\ n - (m + 1) = i - 1 /\ i - 1 \in 0..n
        BY <1>1, <2>1, <3>1
      <3>3. Fits(x[i])
        BY <3>1
      <3> HIDE DEF i
      <3>4. x[i] = Meant(x[i - 1], list[i]) /\ x[i - 1] \in Outputs /\ list[i] \in LzSequence
        BY <1>1, <3>2
      <3>5. x[i] # Meaningless
        BY <3>3, MeaninglessOut
      <3>6. x[i - 1] \in Seq(Byte) /\ Len(x[i - 1]) + Len(list[i].literals) <= Len(x[i])
        BY <3>4, <3>5, MeantType
      <3>7. Len(x[i - 1]) \in Nat /\ Len(list[i].literals) \in Nat /\ Len(x[i]) \in Nat
            /\ Len(x[i]) <= Capacity
        BY <3>3, <3>4, <3>6, WrittenType
      <3>8. Len(x[i - 1]) <= Capacity
        <4>1. \A p, q, r, t \in Nat : p + q <= r /\ r <= t => p <= t
          OBVIOUS
        <4> QED
          BY <3>6, <3>7, <4>1, Sizes
      <3> QED
        BY <3>2, <3>6, <3>8
    <2>2. \A m \in P : m + 1 \in Nat
      OBVIOUS
    <2> QED
      BY <2>1, <2>2
  <1>5. P = Nat
    <2>1. P \in SUBSET Nat
      OBVIOUS
    <2> HIDE DEF P
    <2> QED
      BY <1>3, <1>4, <2>1, Induct
  <1>6. ASSUME NEW k \in 0..n PROVE Fits(x[k])
    <2>1. n - k \in Nat /\ n - k <= n /\ n - (n - k) = k
      BY <1>1
    <2>2. n - k \in P
      BY <1>5, <2>1
    <2>3. Fits(x[n - (n - k)])
      BY <2>1, <2>2
    <2> QED
      BY <2>1, <2>3
  <1> QED
    BY <1>6 DEF n, x

(* A sequence inside such a list has a meaning, and it fits.               *)
LEMMA InsideFits ==
  ASSUME NEW list \in Meaningful, NEW s \in LzSequence, NEW out \in Seq(Byte),
         NEW behind \in Seq(Byte), Inside(list, s, out, behind)
  PROVE  /\ out \o s.literals \in Seq(Byte)
         /\ Len(out \o s.literals) = Len(out) + Len(s.literals)
         /\ Len(out) + Len(s.literals) <= Capacity
         /\ ~s.last => /\ s.back \in 1..Len(out \o s.literals)
                       /\ Len(out) + Len(s.literals) + (s.copy + MinMatch) <= Capacity
         /\ s.last => behind = <<>> /\ Expand(list) = out \o s.literals
         /\ \E k \in 0..Len(list) :
              Encode(list) = Encoded(list)[k] \o behind /\ Expanded(list)[k] = Meant(out, s)
  <1>1. PICK k \in 0..(Len(list) - 1) :
          /\ s = list[k + 1] /\ out = Expanded(list)[k]
          /\ Encode(list) = Encoded(list)[k + 1] \o behind
    BY DEF Inside
  <1>2. list \in Seq(LzSequence) /\ IsList(list) /\ Len(list) \in Nat
    BY DEF Meaningful
  <1>3. k + 1 \in 1..Len(list) /\ k + 1 \in 0..Len(list) /\ (k + 1) - 1 = k
    BY <1>2
  <1>4. Expanded(list)[k + 1] = Meant(out, s)
    BY <1>1, <1>2, <1>3, ExpandedDef
  <1>5. Meant(out, s) \in Seq(Byte) /\ Len(Meant(out, s)) <= Capacity
    BY <1>3, <1>4, BeginningsFit
  <1>6. out \in Outputs /\ Meant(out, s) # Meaningless
    BY <1>5, MeaninglessOut DEF Outputs
  <1>7. /\ Len(out) + Len(s.literals) <= Len(Meant(out, s))
        /\ ~s.last =>
             /\ s.back \in 1..Len(out \o s.literals)
             /\ Len(Meant(out, s)) = Len(out) + Len(s.literals) + (s.copy + MinMatch)
    BY <1>6, MeantType
  <1>8. out \o s.literals \in Seq(Byte) /\ Len(out \o s.literals) = Len(out) + Len(s.literals)
    BY WrittenType, ConcatProperties
  <1>9. Len(out) \in Nat /\ Len(s.literals) \in Nat /\ Len(Meant(out, s)) \in Nat
    BY <1>5, WrittenType
  <1>10. Len(out) + Len(s.literals) <= Capacity
    BY <1>5, <1>7, <1>9, Sizes
  <1>11. ASSUME s.last PROVE behind = <<>> /\ Expand(list) = out \o s.literals
    <2>1. k + 1 = Len(list)
      <3> SUFFICES ASSUME k + 1 # Len(list) PROVE FALSE
        OBVIOUS
      <3>1. k + 1 \in 1..(Len(list) - 1)
        BY <1>2, <1>3
      <3> QED
        BY <1>1, <1>2, <1>11, <3>1 DEF IsList
    <2>2. Encode(list) = Encode(list) \o behind /\ Encode(list) \in Seq(Byte)
      BY <1>1, <1>2, <2>1, ListTypes DEF Encode
    <2>3. behind = <<>>
      BY <2>2, ConcatEqualIffEmpty
    <2>4. Expand(list) = Meant(out, s)
      BY <1>4, <2>1 DEF Expand
    <2> QED
      BY <1>11, <2>3, <2>4, MeantLast
  <1>12. ~s.last => Len(out) + Len(s.literals) + (s.copy + MinMatch) <= Capacity
    BY <1>5, <1>7
  <1>13. \E i \in 0..Len(list) :
           Encode(list) = Encoded(list)[i] \o behind /\ Expanded(list)[i] = Meant(out, s)
    BY <1>1, <1>3, <1>4
  <1> QED
    BY <1>7, <1>8, <1>10, <1>11, <1>12, <1>13, Zenon

(* What stands ahead is what will be read.                                 *)
LEMMA AheadNow ==
  ASSUME IInv
  PROVE  /\ Ahead \in Seq(Byte) /\ Len(Ahead) = Len(source) - si
         /\ source = Read \o Ahead
  <1>1. source \in Seq(Byte) /\ si \in Nat /\ Len(source) \in Nat /\ si <= Len(source)
        /\ Read \in Seq(Byte)
    BY TypesNow
  <1> DEFINE n == Len(source) - si
  <1>2. n \in Nat /\ si + n = Len(source)
    BY <1>1
  <1> HIDE DEF n
  <1>3. /\ SubSeq(source, si + 1, si + n) \in Seq(Byte)
        /\ Len(SubSeq(source, si + 1, si + n)) = n
        /\ SubSeq(source, 1, si + n) = Read \o SubSeq(source, si + 1, si + n)
    <2>1. si + n <= Len(source)
      BY <1>1, <1>2
    <2> QED
      BY <1>2, <2>1, ReadOn
  <1>4. SubSeq(source, 1, Len(source)) = source
    BY <1>1, SubSeqFull
  <1> QED
    BY <1>2, <1>3, <1>4 DEF Ahead, n

(* Two ways to cut a text at the same place are the same.                  *)
LEMMA SameCut ==
  ASSUME NEW a \in Seq(Byte), NEW b \in Seq(Byte), NEW c \in Seq(Byte), NEW d \in Seq(Byte),
         a \o b = c \o d, Len(a) = Len(c)
  PROVE  a = c /\ b = d
  <1> DEFINE ab == a \o b
             cd == c \o d
  <1>1. /\ Len(ab) = Len(a) + Len(b)
        /\ \A i \in 1..(Len(a) + Len(b)) : ab[i] = IF i <= Len(a) THEN a[i] ELSE b[i - Len(a)]
    BY ConcatProperties, Zenon
  <1>2. /\ Len(cd) = Len(c) + Len(d)
        /\ \A i \in 1..(Len(c) + Len(d)) : cd[i] = IF i <= Len(c) THEN c[i] ELSE d[i - Len(c)]
    BY ConcatProperties, Zenon
  <1>3. ab = cd
    OBVIOUS
  <1>4. Len(a) \in Nat /\ Len(b) \in Nat /\ Len(c) \in Nat /\ Len(d) \in Nat
    OBVIOUS
  <1> HIDE DEF ab, cd
  <1>5. Len(b) = Len(d)
    BY <1>1, <1>2, <1>3, <1>4
  <1>6. \A i \in 1..Len(a) : a[i] = c[i]
    BY <1>1, <1>2, <1>3, <1>4
  <1>7. ASSUME NEW i \in 1..Len(b) PROVE b[i] = d[i]
    <2>1. Len(a) + i \in 1..(Len(a) + Len(b)) /\ ~(Len(a) + i <= Len(a))
          /\ (Len(a) + i) - Len(a) = i
      BY <1>4
    <2> QED
      BY <1>1, <1>2, <1>3, <1>4, <1>5, <2>1
  <1>8. a = c
    BY <1>6, SeqEqual
  <1>9. b = d
    BY <1>5, <1>7, SeqEqual
  <1> QED
    BY <1>8, <1>9

(* Reading the text that is known to come.                                 *)
LEMMA Comes ==
  ASSUME IInv, NEW x \in Seq(Byte), NEW y \in Seq(Byte), Ahead = x \o y
  PROVE  /\ si + Len(x) <= Len(source)
         /\ SubSeq(source, si + 1, si + Len(x)) = x
         /\ source' = source /\ si' = si + Len(x) => Ahead' = y
  <1>1. Ahead \in Seq(Byte) /\ Len(Ahead) = Len(source) - si /\ source \in Seq(Byte)
        /\ si \in Nat /\ Len(source) \in Nat
    BY AheadNow, TypesNow
  <1>2. Len(Ahead) = Len(x) + Len(y) /\ Len(x) \in Nat /\ Len(y) \in Nat
    BY ConcatProperties
  <1>3. si + Len(x) <= Len(source)
    BY <1>1, <1>2
  <1> DEFINE p == SubSeq(source, si + 1, si + Len(x))
             q == SubSeq(source, (si + Len(x)) + 1, Len(source))
  <1>4. p \in Seq(Byte) /\ Len(p) = Len(x)
    BY <1>2, <1>3, ReadOn
  <1>5. q \in Seq(Byte)
    <2>1. \A i \in ((si + Len(x)) + 1)..Len(source) : source[i] \in Byte
      BY <1>1, <1>2
    <2> QED
      BY <1>1, <1>2, <2>1, SubSeqProperties
  <1>6. Ahead = p \o q
    <2>1. si + 1 \in 1..(Len(source) + 1) /\ si + Len(x) \in ((si + 1) - 1)..Len(source)
          /\ Len(source) \in (si + Len(x))..Len(source)
      BY <1>1, <1>2, <1>3
    <2> QED
      BY <1>1, <2>1, ConcatAdjacentSubSeq DEF Ahead
  <1> HIDE DEF p, q
  <1>7. p = x /\ q = y
    BY <1>4, <1>5, <1>6, SameCut
  <1>8. source' = source /\ si' = si + Len(x) => Ahead' = q
    BY DEF Ahead, q
  <1> QED
    BY <1>3, <1>7, <1>8 DEF p

LEMMA NextByteComes ==
  ASSUME IInv, NEW b \in Byte, NEW y \in Seq(Byte), Ahead = <<b>> \o y
  PROVE  /\ ~AtEnd /\ At(si) = b
         /\ source' = source /\ si' = si + 1 => Ahead' = y
  <1>1. <<b>> \in Seq(Byte) /\ Len(<<b>>) = 1 /\ <<b>>[1] = b
    BY Single
  <1> DEFINE x == <<b>>
  <1>2. x \in Seq(Byte) /\ Len(x) = 1 /\ x[1] = b /\ Ahead = x \o y
    BY <1>1
  <1> HIDE DEF x
  <1>3. /\ si + 1 <= Len(source) /\ SubSeq(source, si + 1, si + 1) = x
        /\ source' = source /\ si' = si + 1 => Ahead' = y
    BY <1>2, Comes
  <1>4. si \in Nat /\ Len(source) \in Nat
    BY TypesNow
  <1>5. SubSeq(source, si + 1, si + 1)[1] = source[si + 1]
    BY <1>4
  <1> QED
    BY <1>2, <1>3, <1>4, <1>5 DEF AtEnd, At

LEMMA NothingComes ==
  ASSUME IInv, Ahead = <<>>
  PROVE  AtEnd
  <1>1. Len(Ahead) = Len(source) - si /\ Len(Ahead) = 0 /\ si \in Nat /\ Len(source) \in Nat
    BY AheadNow, TypesNow
  <1> QED
    BY <1>1 DEF AtEnd

(* The first byte of an extension, and what it then still owes.            *)
LEMMA OwedByte ==
  ASSUME IInv, NEW n \in Nat, NEW rest \in Seq(Byte), Owed(n, rest),
         source' = source, si' = si + 1, length' = length + At(si)
  PROVE  /\ At(si) = ByteMax => Owed(n, rest)'
         /\ At(si) # ByteMax => length' = n /\ Ahead' = rest
  <1>1. PICK j \in Nat, r \in 0..(ByteMax - 1) :
          length + (j * ByteMax + r) = n /\ Ahead = Full(j) \o (<<r>> \o rest)
    BY DEF Owed
  <1>2. r \in Byte /\ r \in Nat /\ r # ByteMax
    BY Sizes DEF Byte
  <1>3. <<r>> \in Seq(Byte)
    BY <1>2, Single
  <1>4. <<r>> \o rest \in Seq(Byte)
    BY <1>3, ConcatProperties
  <1>5. CASE j = 0
    <2>1. Full(j) = <<>>
      BY <1>5, FullShape, EmptySeq
    <2>2. Ahead = <<r>> \o rest
      BY <1>1, <1>4, <2>1, ConcatEmptySeq
    <2>3. At(si) = r /\ Ahead' = rest
      BY <1>2, <2>2, NextByteComes
    <2>4. j * ByteMax = 0
      BY <1>5, Sizes
    <2>5. length + r = n
      BY <1>1, <1>2, <2>4, TypesNow
    <2> QED
      BY <1>2, <2>3, <2>5
  <1>6. CASE j # 0
    <2>1. PICK i \in Nat : j = i + 1
      <3>1. j - 1 \in Nat /\ j = (j - 1) + 1
        BY <1>6
      <3> QED
        BY <3>1
    <2>2. Full(j) = <<ByteMax>> \o Full(i)
      <3> DEFINE f == Full(j)
                 g == <<ByteMax>>
                 h == Full(i)
      <3>1. f \in Seq(Byte) /\ Len(f) = i + 1 /\ \A k \in 1..(i + 1) : f[k] = ByteMax
        BY <2>1, FullShape
      <3>2. h \in Seq(Byte) /\ Len(h) = i /\ \A k \in 1..i : h[k] = ByteMax
        BY FullShape
      <3>3. g \in Seq(Byte) /\ Len(g) = 1 /\ g[1] = ByteMax
        BY Sizes, Single
      <3> HIDE DEF f, g, h
      <3>4. /\ g \o h \in Seq(Byte) /\ Len(g \o h) = Len(g) + Len(h)
            /\ \A k \in 1..(Len(g) + Len(h)) :
                 (g \o h)[k] = IF k <= Len(g) THEN g[k] ELSE h[k - Len(g)]
        BY <3>2, <3>3, ConcatProperties, Zenon
      <3>5. \A k \in 1..(i + 1) : (g \o h)[k] = ByteMax
        <4> SUFFICES ASSUME NEW k \in 1..(i + 1) PROVE (g \o h)[k] = ByteMax
          OBVIOUS
        <4>1. CASE k = 1
          BY <3>2, <3>3, <3>4, <4>1
        <4>2. CASE k # 1
          <5>1. k - 1 \in 1..i /\ ~(k <= 1) /\ k \in 1..(1 + i)
            BY <4>2
          <5> QED
            BY <3>2, <3>3, <3>4, <5>1
        <4> QED
          BY <4>1, <4>2
      <3>6. Len(f) = Len(g \o h) /\ \A k \in 1..Len(f) : f[k] = (g \o h)[k]
        BY <3>1, <3>2, <3>3, <3>4, <3>5
      <3>7. f = g \o h
        BY <3>1, <3>4, <3>6, SeqEqual
      <3> QED
        BY <3>7 DEF f, g, h
    <2> DEFINE rr == <<r>> \o rest
               ii == Full(i)
               mm == <<ByteMax>>
    <2>3. rr \in Seq(Byte) /\ ii \in Seq(Byte) /\ mm \in Seq(Byte)
      BY <1>4, FullShape, Single, Sizes
    <2>4. Ahead = (mm \o ii) \o rr
      BY <1>1, <2>2
    <2> HIDE DEF rr, ii
    <2>5. Ahead = mm \o (ii \o rr)
      BY <2>3, <2>4, ConcatAssociative
    <2>6. ii \o rr \in Seq(Byte)
      BY <2>3, ConcatProperties
    <2>7. At(si) = ByteMax /\ Ahead' = ii \o rr
      BY <2>5, <2>6, NextByteComes, Sizes
    <2>8. j * ByteMax = i * ByteMax + ByteMax /\ i * ByteMax \in Nat /\ ByteMax \in Nat
      BY <2>1, Sizes
    <2>9. length' + (i * ByteMax + r) = n
      <3>1. PICK p \in Nat : p = i * ByteMax
        BY <2>8
      <3>2. length + ((p + ByteMax) + r) = n /\ length' = length + ByteMax
        BY <1>1, <2>7, <2>8, <3>1
      <3>3. length' + (p + r) = n
        <4>1. length \in Nat
          BY TypesNow
        <4>2. \A l, m, p1, r1 \in Nat : (l + m) + (p1 + r1) = l + ((p1 + m) + r1)
          OBVIOUS
        <4> QED
          BY <1>2, <2>8, <3>2, <4>1, <4>2
      <3> QED
        BY <3>1, <3>3
    <2>10. Owed(n, rest)'
      BY <2>7, <2>9 DEF Owed, ii, rr
    <2> QED
      BY <2>7, <2>10
  <1> QED
    BY <1>5, <1>6

LEMMA MeaningfulList ==
  ASSUME NEW list \in Meaningful
  PROVE  list \in Seq(LzSequence) /\ Len(list) \in Nat /\ Encode(list) \in Seq(Byte)
  BY ListTypes DEF Meaningful

(* A sequence as it comes.                                                 *)
LEMMA SequenceComes ==
  ASSUME IInv, NEW list \in Meaningful, source = Encode(list), BeforeToken(list), ~AtEnd
  PROVE  \E s \in LzSequence, behind \in Seq(Byte) :
           Inside(list, s, output, behind) /\ Ahead = Written(s) \o behind
  <1>1. PICK k \in 0..Len(list) :
          output = Expanded(list)[k] /\ Encode(list) = Encoded(list)[k] \o Ahead
    BY DEF BeforeToken
  <1>2. list \in Seq(LzSequence) /\ Len(list) \in Nat
    BY MeaningfulList
  <1> DEFINE e == Encoded(list)
  <1>3. e \in [0..Len(list) -> Seq(Byte)]
        /\ \A i \in 1..Len(list) : e[i] = e[i - 1] \o Written(list[i])
    BY <1>2, EncodedDef
  <1>4. Ahead \in Seq(Byte) /\ output \in Seq(Byte)
    BY AheadNow, TypesNow
  <1>5. k # Len(list)
    <2> SUFFICES ASSUME k = Len(list) PROVE FALSE
      OBVIOUS
    <2>1. Encode(list) = Encode(list) \o Ahead /\ Encode(list) \in Seq(Byte)
      BY <1>1, MeaningfulList DEF Encode
    <2>2. Ahead = <<>>
      BY <1>4, <2>1, ConcatEqualIffEmpty
    <2> QED
      BY <2>2, NothingComes
  <1>6. k \in 0..(Len(list) - 1) /\ k + 1 \in 1..Len(list) /\ k + 1 \in 0..Len(list)
        /\ (k + 1) - 1 = k
    BY <1>2, <1>5
  <1>7. PICK behind \in Seq(Byte) : Encode(list) = e[k + 1] \o behind
    BY <1>2, <1>6, Begins
  <1> DEFINE s == list[k + 1]
             w == Written(s)
             b == e[k]
  <1>8. s \in LzSequence
    BY <1>2, <1>6
  <1>9. w \in Seq(Byte) /\ b \in Seq(Byte)
    BY <1>3, <1>8, WrittenType
  <1>10. b \o Ahead = (b \o w) \o behind
    BY <1>1, <1>3, <1>6, <1>7
  <1>11. Inside(list, s, output, behind)
    BY <1>1, <1>6, <1>7 DEF Inside
  <1> HIDE DEF s, w, b
  <1>12. (b \o w) \o behind = b \o (w \o behind) /\ w \o behind \in Seq(Byte)
    BY <1>9, ConcatAssociative, ConcatProperties
  <1>13. Ahead = w \o behind
    <2> DEFINE wb == w \o behind
    <2>1. b \o Ahead = b \o wb /\ wb \in Seq(Byte)
      BY <1>10, <1>12
    <2> HIDE DEF wb
    <2>2. Ahead = wb
      BY <1>4, <1>9, <2>1, SameCut
    <2> QED
      BY <2>2 DEF wb
  <1> QED
    BY <1>8, <1>11, <1>13 DEF w

(* The token, the extension of the literals, the literals and the rest.    *)
LEMMA WrittenComes ==
  ASSUME NEW s \in LzSequence, NEW behind \in Seq(Byte)
  PROVE  /\ CopyPart(s, behind) \in Seq(Byte)
         /\ s.literals \o CopyPart(s, behind) \in Seq(Byte)
         /\ Extension(Len(s.literals)) \o (s.literals \o CopyPart(s, behind)) \in Seq(Byte)
         /\ Written(s) \o behind =
              <<TokenOf(s)>> \o (Extension(Len(s.literals))
                                 \o (s.literals \o CopyPart(s, behind)))
  <1> DEFINE t == <<TokenOf(s)>>
             x == Extension(Len(s.literals))
             l == s.literals
             o == OffsetOf(s.back) \o Extension(s.copy)
             c == CopyPart(s, behind)
  <1>1. t \in Seq(Byte) /\ x \in Seq(Byte) /\ l \in Seq(Byte) /\ o \in Seq(Byte)
    <2>1. s.literals \in Seq(Byte) /\ Len(s.literals) \in Nat /\ TokenOf(s) \in Byte
          /\ OffsetOf(s.back) \in Seq(Byte) /\ s.copy \in Nat
      BY WrittenType
    <2> QED
      BY <2>1, ExtensionType, ConcatProperties, Single
  <1>2. c = IF s.last THEN behind ELSE o \o behind
    BY DEF CopyPart
  <1>3. Written(s) = IF s.last THEN t \o (x \o l) ELSE (t \o (x \o l)) \o o
    BY DEF Written, Opening
  <1> HIDE DEF t, x, l, o, c
  <1>4. c \in Seq(Byte)
    BY <1>1, <1>2, ConcatProperties
  <1>5. l \o c \in Seq(Byte)
    BY <1>1, <1>4, ConcatProperties
  <1>6. x \o (l \o c) \in Seq(Byte)
    BY <1>1, <1>5, ConcatProperties
  <1>7. (t \o (x \o l)) \o c = t \o (x \o (l \o c))
    <2>1. Longer3(t, x, l, c)
      BY <1>1, <1>4, Joined3
    <2> QED
      BY <2>1 DEF Longer3
  <1>8. Written(s) \o behind = (t \o (x \o l)) \o c
    <2> DEFINE p == t \o (x \o l)
    <2>1. p \in Seq(Byte)
      BY <1>1, ConcatProperties
    <2> HIDE DEF p
    <2>2. (p \o o) \o behind = p \o (o \o behind)
      <3>1. Longer2(p, o, behind)
        BY <1>1, <2>1, Joined2
      <3> QED
        BY <3>1 DEF Longer2
    <2>3. CASE s.last
      BY <1>2, <1>3, <2>3 DEF p
    <2>4. CASE ~s.last
      <3>1. Written(s) = p \o o /\ c = o \o behind
        BY <1>2, <1>3, <2>4 DEF p
      <3> QED
        BY <2>2, <3>1 DEF p
    <2> QED
      BY <2>3, <2>4
  <1> QED
    BY <1>4, <1>5, <1>6, <1>7, <1>8 DEF t, x, l, c

LEMMA OwedComes ==
  ASSUME IInv, NEW n \in Nat, NEW rest \in Seq(Byte), Owed(n, rest)
  PROVE  ~AtEnd
  <1> SUFFICES ASSUME AtEnd PROVE FALSE
    OBVIOUS
  <1>1. PICK j \in Nat, r \in 0..(ByteMax - 1) :
          length + (j * ByteMax + r) = n /\ Ahead = Full(j) \o (<<r>> \o rest)
    BY DEF Owed
  <1> DEFINE f == Full(j)
             g == <<r>>
             h == g \o rest
  <1>2. f \in Seq(Byte) /\ g \in Seq(Byte) /\ Len(g) = 1
    <2>1. r \in Byte
      BY Sizes DEF Byte
    <2> QED
      BY <2>1, FullShape, Single
  <1>3. Ahead = f \o h
    BY <1>1
  <1> HIDE DEF f, g
  <1>4. h \in Seq(Byte) /\ Len(h) = 1 + Len(rest)
    BY <1>2, ConcatProperties
  <1> HIDE DEF h
  <1>5. Len(Ahead) = Len(f) + Len(h)
    BY <1>2, <1>3, <1>4, ConcatProperties
  <1>6. Len(f) \in Nat /\ Len(rest) \in Nat
    BY <1>2
  <1>7. Len(Ahead) = Len(source) - si /\ si >= Len(source) /\ si \in Nat /\ Len(source) \in Nat
    BY AheadNow, TypesNow DEF AtEnd
  <1> QED
    BY <1>4, <1>5, <1>6, <1>7

(* A length whose half of the token is read.                               *)
LEMMA OwedFirst ==
  ASSUME IInv, NEW n \in Nat, NEW rest \in Seq(Byte),
         Ahead' = Extension(n) \o rest, length' = Half(n)
  PROVE  /\ Half(n) = Nibble - 1 => Owed(n, rest)'
         /\ Half(n) # Nibble - 1 => length' = n /\ Ahead' = rest
  <1>1. CASE n < Nibble - 1
    <2>1. Half(n) = n /\ Extension(n) = <<>>
      BY <1>1, HalfRange, ExtensionNone
    <2>2. Half(n) # Nibble - 1
      BY <1>1, <2>1, Sizes
    <2>3. Ahead' = rest
      BY <2>1, ConcatEmptySeq
    <2> QED
      BY <2>1, <2>2, <2>3
  <1>2. CASE ~(n < Nibble - 1)
    <2>1. Half(n) = Nibble - 1
      BY <1>2, HalfRange
    <2>2. PICK m \in Nat, r \in 0..(ByteMax - 1) : n = Nibble - 1 + (m * ByteMax + r)
      BY <1>2, ExtensionMore
    <2>3. Extension(n) = Full(m) \o <<r>>
      BY <2>2, ExtensionOf
    <2>4. <<r>> \in Seq(Byte) /\ Full(m) \in Seq(Byte)
      <3>1. r \in Byte
        BY Sizes DEF Byte
      <3> QED
        BY <3>1, Single, FullShape
    <2> DEFINE f == Full(m)
               g == <<r>>
    <2>5. f \in Seq(Byte) /\ g \in Seq(Byte) /\ Ahead' = (f \o g) \o rest
      BY <2>3, <2>4
    <2> HIDE DEF f, g
    <2>6. Ahead' = f \o (g \o rest)
      BY <2>5, ConcatAssociative
    <2>7. length' + (m * ByteMax + r) = n
      BY <2>1, <2>2
    <2>8. Owed(n, rest)'
      BY <2>6, <2>7 DEF Owed, f, g
    <2> QED
      BY <2>1, <2>8
  <1> QED
    BY <1>1, <1>2

LEMMA TokenHalves ==
  ASSUME NEW s \in LzSequence
  PROVE  /\ TokenOf(s) \div Nibble = Half(Len(s.literals))
         /\ TokenOf(s) % Nibble = Half(s.copy)
         /\ Half(Len(s.literals)) \in Nat /\ Half(s.copy) \in Nat
  <1>1. Len(s.literals) \in Nat /\ s.copy \in Nat
    BY WrittenType
  <1>2. Half(Len(s.literals)) \in 0..(Nibble - 1) /\ Half(s.copy) \in 0..(Nibble - 1)
        /\ Half(Len(s.literals)) \in Nat /\ Half(s.copy) \in Nat
    BY <1>1, HalfRange
  <1> QED
    BY <1>2, TwoHalves DEF TokenOf

LEMMA ReadTokenFollows ==
  ASSUME IInv, NEW list \in Meaningful, source = Encode(list), Following(list), ReadToken
  PROVE  Following(list)'
  <1>1. phase = "token" /\ BeforeToken(list)
    BY DEF ReadToken, Following
  <1>2. CASE AtEnd
    <2>1. phase' = "done" /\ output' = output
      BY <1>2 DEF ReadToken
    <2>2. PICK k \in 0..Len(list) :
            output = Expanded(list)[k] /\ Encode(list) = Encoded(list)[k] \o Ahead
      BY <1>1 DEF BeforeToken
    <2>3. list \in Seq(LzSequence) /\ Len(list) \in Nat
      BY MeaningfulList
    <2>4. k = Len(list)
      <3> SUFFICES ASSUME k # Len(list) PROVE FALSE
        OBVIOUS
      <3> DEFINE w == Written(list[k + 1])
                 e == Encoded(list)
      <3>1. k + 1 \in 1..Len(list) /\ k \in 0..Len(list) /\ k + 1 \in 0..Len(list)
            /\ (k + 1) - 1 = k
        BY <2>3
      <3>2. e[k + 1] = e[k] \o w /\ e[k] \in Seq(Byte)
        BY <2>3, <3>1, EncodedDef
      <3>3. PICK b \in Seq(Byte) : Encode(list) = e[k + 1] \o b
        BY <2>3, <3>1, Begins
      <3>4. w \in Seq(Byte) /\ Len(w) > 0
        <4>1. list[k + 1] \in LzSequence /\ <<>> \in Seq(Byte)
          BY <2>3, <3>1
        <4> DEFINE s == list[k + 1]
                   t == TokenOf(s)
                   r == Extension(Len(s.literals)) \o (s.literals \o CopyPart(s, <<>>))
        <4>2. t \in Byte /\ r \in Seq(Byte) /\ w \o <<>> = <<t>> \o r
          <5> HIDE DEF s
          <5>1. s \in LzSequence
            BY <4>1 DEF s
          <5>2. Written(s) \o <<>> = <<t>> \o r /\ r \in Seq(Byte) /\ t \in Byte
            BY <4>1, <5>1, WrittenComes, WrittenType
          <5> QED
            BY <5>2 DEF s
        <4>3. w \in Seq(Byte)
          BY <4>1, WrittenType
        <4> HIDE DEF w, t, r
        <4>4. w = <<t>> \o r
          BY <4>2, <4>3, ConcatEmptySeq
        <4>5. <<t>> \in Seq(Byte) /\ Len(<<t>>) = 1
          BY <4>2, Single
        <4>6. Len(w) = 1 + Len(r)
          BY <4>2, <4>4, <4>5, ConcatProperties
        <4> QED
          BY <4>2, <4>3, <4>6
      <3> HIDE DEF w, e
      <3>5. Ahead = <<>>
        <4>1. Len(Ahead) = Len(source) - si /\ Ahead \in Seq(Byte)
          BY AheadNow
        <4>2. si >= Len(source) /\ si <= Len(source) /\ si \in Nat /\ Len(source) \in Nat
          BY <1>2, TypesNow DEF AtEnd
        <4>3. Len(Ahead) = 0
          BY <4>1, <4>2
        <4> QED
          BY <4>1, <4>3, EmptySeq
      <3>6. Encode(list) = e[k]
        BY <2>2, <3>2, <3>5, ConcatEmptySeq DEF e
      <3>7. Len(e[k + 1]) = Len(e[k]) + Len(w)
        BY <3>2, <3>4, ConcatProperties
      <3>8. e[k + 1] \in Seq(Byte)
        BY <3>2, <3>4, ConcatProperties
      <3>9. Len(e[k]) = Len(e[k + 1]) + Len(b)
        <4> DEFINE d == e[k + 1]
        <4>1. d \in Seq(Byte) /\ e[k] = d \o b
          BY <3>3, <3>6, <3>8
        <4> HIDE DEF d
        <4>2. Len(d \o b) = Len(d) + Len(b)
          BY <4>1, ConcatProperties
        <4> QED
          BY <4>1, <4>2 DEF d
      <3>10. Len(e[k]) \in Nat /\ Len(w) \in Nat /\ Len(b) \in Nat
        BY <3>2, <3>4
      <3> QED
        BY <3>4, <3>7, <3>9, <3>10
    <2>5. output' = Expand(list)
      BY <2>1, <2>2, <2>4 DEF Expand
    <2> QED
      BY <2>1, <2>5 DEF Following
  <1>3. CASE ~AtEnd
    <2>1. PICK s \in LzSequence, behind \in Seq(Byte) :
            Inside(list, s, output, behind) /\ Ahead = Written(s) \o behind
      BY <1>1, <1>3, SequenceComes
    <2>2. PICK out \in Seq(Byte) : out = output
      BY TypesNow
    <2> DEFINE rest == s.literals \o CopyPart(s, behind)
               n == Len(s.literals)
    <2>3. /\ rest \in Seq(Byte) /\ Extension(n) \o rest \in Seq(Byte)
          /\ Ahead = <<TokenOf(s)>> \o (Extension(n) \o rest)
      BY <2>1, WrittenComes
    <2>4. TokenOf(s) \in Byte /\ n \in Nat
      BY WrittenType
    <2>5. /\ token' = At(si) /\ si' = si + 1 /\ source' = source /\ output' = output
          /\ LengthFrom(token' \div Nibble, "moreLiterals", "literals")
      BY <1>3 DEF ReadToken
    <2> HIDE DEF rest
    <2>6. token' = TokenOf(s) /\ Ahead' = Extension(n) \o rest
      <3> DEFINE y == Extension(n) \o rest
      <3>1. y \in Seq(Byte) /\ Ahead = <<TokenOf(s)>> \o y
        BY <2>3
      <3> HIDE DEF y
      <3>2. At(si) = TokenOf(s) /\ Ahead' = y
        BY <2>4, <2>5, <3>1, NextByteComes
      <3> QED
        BY <2>5, <3>2 DEF y
    <2>7. length' = Half(n)
          /\ phase' = IF Half(n) = Nibble - 1 THEN "moreLiterals" ELSE "literals"
      BY <2>5, <2>6, TokenHalves DEF LengthFrom
    <2>8. /\ Half(n) = Nibble - 1 => Owed(n, rest)'
          /\ Half(n) # Nibble - 1 => length' = n /\ Ahead' = rest
      BY <2>3, <2>4, <2>6, <2>7, OwedFirst
    <2>9. Inside(list, s, out, behind) /\ output' = out
      BY <2>1, <2>2, <2>5
    <2>10. CASE Half(n) = Nibble - 1
      <3>1. InExtension(list)'
        BY <2>6, <2>8, <2>9, <2>10 DEF InExtension, rest
      <3> QED
        BY <2>7, <2>10, <3>1 DEF Following
    <2>11. CASE Half(n) # Nibble - 1
      <3>1. BeforeLiterals(list)'
        BY <2>6, <2>8, <2>9, <2>11 DEF BeforeLiterals, rest
      <3> QED
        BY <2>7, <2>11, <3>1 DEF Following
    <2> QED
      BY <2>10, <2>11
  <1> QED
    BY <1>2, <1>3

LEMMA MoreLiteralsFollows ==
  ASSUME IInv, NEW list \in Meaningful, source = Encode(list), Following(list),
         ReadExtension("moreLiterals", "literals")
  PROVE  Following(list)'
  <1>1. phase = "moreLiterals" /\ InExtension(list)
    BY DEF ReadExtension, Following
  <1>2. PICK s \in LzSequence, out \in Seq(Byte), behind \in Seq(Byte) :
          /\ Inside(list, s, out, behind) /\ token = TokenOf(s) /\ output = out
          /\ Owed(Len(s.literals), s.literals \o CopyPart(s, behind))
    BY <1>1 DEF InExtension
  <1> DEFINE rest == s.literals \o CopyPart(s, behind)
             n == Len(s.literals)
  <1>3. rest \in Seq(Byte) /\ n \in Nat /\ Owed(n, rest)
    BY <1>2, WrittenComes, WrittenType
  <1> HIDE DEF rest, n
  <1>4. ~AtEnd
    BY <1>3, OwedComes
  <1>5. /\ length' = length + At(si) /\ si' = si + 1
        /\ phase' = (IF At(si) = ByteMax THEN "moreLiterals" ELSE "literals")
        /\ source' = source /\ output' = output /\ token' = token
    BY <1>4 DEF ReadExtension
  <1>6. /\ At(si) = ByteMax => Owed(n, rest)'
        /\ At(si) # ByteMax => length' = n /\ Ahead' = rest
    BY <1>3, <1>5, OwedByte
  <1>7. CASE At(si) = ByteMax
    <2>1. InExtension(list)'
      BY <1>2, <1>5, <1>6, <1>7 DEF InExtension, rest, n
    <2> QED
      BY <1>5, <1>7, <2>1 DEF Following
  <1>8. CASE At(si) # ByteMax
    <2>1. BeforeLiterals(list)'
      BY <1>2, <1>5, <1>6, <1>8 DEF BeforeLiterals, rest, n
    <2> QED
      BY <1>5, <1>8, <2>1 DEF Following
  <1> QED
    BY <1>7, <1>8

LEMMA MoreCopyFollows ==
  ASSUME IInv, NEW list \in Meaningful, source = Encode(list), Following(list),
         ReadExtension("moreCopy", "copy")
  PROVE  Following(list)'
  <1>1. phase = "moreCopy" /\ InCopyExtension(list)
    BY DEF ReadExtension, Following
  <1>2. PICK s \in LzSequence, out \in Seq(Byte), behind \in Seq(Byte) :
          /\ Inside(list, s, out, behind) /\ output = out \o s.literals
          /\ ~s.last /\ offset = s.back /\ Owed(s.copy, behind)
    BY <1>1 DEF InCopyExtension
  <1> DEFINE n == s.copy
  <1>3. n \in Nat /\ Owed(n, behind)
    BY <1>2, WrittenType
  <1> HIDE DEF n
  <1>4. ~AtEnd
    BY <1>3, OwedComes
  <1>5. /\ length' = length + At(si) /\ si' = si + 1
        /\ phase' = (IF At(si) = ByteMax THEN "moreCopy" ELSE "copy")
        /\ source' = source /\ output' = output /\ offset' = offset
    BY <1>4 DEF ReadExtension
  <1>6. /\ At(si) = ByteMax => Owed(n, behind)'
        /\ At(si) # ByteMax => length' = n /\ Ahead' = behind
    BY <1>3, <1>5, OwedByte
  <1>7. CASE At(si) = ByteMax
    <2>1. InCopyExtension(list)'
      BY <1>2, <1>5, <1>6, <1>7 DEF InCopyExtension, n
    <2> QED
      BY <1>5, <1>7, <2>1 DEF Following
  <1>8. CASE At(si) # ByteMax
    <2>1. BeforeCopy(list)'
      BY <1>2, <1>5, <1>6, <1>8 DEF BeforeCopy, n
    <2> QED
      BY <1>5, <1>8, <2>1 DEF Following
  <1> QED
    BY <1>7, <1>8

LEMMA CopyLiteralsFollows ==
  ASSUME IInv, NEW list \in Meaningful, source = Encode(list), Following(list), CopyLiterals
  PROVE  Following(list)'
  <1>1. phase = "literals" /\ BeforeLiterals(list)
    BY DEF CopyLiterals, Following
  <1>2. PICK s \in LzSequence, out \in Seq(Byte), behind \in Seq(Byte) :
          /\ Inside(list, s, out, behind) /\ token = TokenOf(s) /\ output = out
          /\ length = Len(s.literals) /\ Ahead = s.literals \o CopyPart(s, behind)
    BY <1>1 DEF BeforeLiterals
  <1>3. /\ Len(out) + Len(s.literals) <= Capacity
        /\ s.last => behind = <<>> /\ Expand(list) = out \o s.literals
    BY <1>2, InsideFits
  <1> DEFINE l == s.literals
             c == CopyPart(s, behind)
  <1>4. l \in Seq(Byte) /\ c \in Seq(Byte) /\ Ahead = l \o c
    BY <1>2, WrittenType, WrittenComes
  <1>5. c = IF s.last THEN behind ELSE (OffsetOf(s.back) \o Extension(s.copy)) \o behind
    BY DEF CopyPart
  <1>6. length = Len(l) /\ output = out
    BY <1>2
  <1> HIDE DEF l, c
  <1>7. /\ si + Len(l) <= Len(source) /\ SubSeq(source, si + 1, si + Len(l)) = l
        /\ source' = source /\ si' = si + Len(l) => Ahead' = c
    BY <1>4, Comes
  <1>8. LiteralsFit
    BY <1>3, <1>6, <1>7 DEF LiteralsFit, di, l
  <1>9. /\ output' = out \o l /\ si' = si + Len(l) /\ source' = source /\ token' = token
        /\ phase' = (IF si' = Len(source) THEN "done" ELSE "offset")
    BY <1>6, <1>7, <1>8 DEF CopyLiterals
  <1>10. Ahead' = c
    BY <1>7, <1>9
  <1>11. si \in Nat /\ Len(source) \in Nat /\ Len(Ahead) = Len(source) - si
         /\ Len(l) \in Nat /\ Len(c) \in Nat
    BY <1>4, TypesNow, AheadNow
  <1>12. Len(l \o c) = Len(l) + Len(c)
    BY <1>4, ConcatProperties
  <1>13. si' = Len(source) <=> Len(c) = 0
    BY <1>4, <1>9, <1>11, <1>12
  <1>14. CASE s.last
    <2>1. c = <<>> /\ Len(c) = 0
      BY <1>3, <1>5, <1>14
    <2>2. phase' = "done"
      BY <1>9, <1>13, <2>1
    <2>3. output' = Expand(list)
      BY <1>3, <1>9, <1>14 DEF l
    <2> QED
      BY <2>2, <2>3 DEF Following
  <1>15. CASE ~s.last
    <2> DEFINE o == OffsetOf(s.back)
               x == Extension(s.copy)
    <2>1. o \in Seq(Byte) /\ x \in Seq(Byte)
      BY WrittenType, ExtensionType
    <2>2. Len(o) = 2
      BY DEF OffsetOf
    <2>3. c = (o \o x) \o behind
      BY <1>5, <1>15
    <2> HIDE DEF o, x
    <2> DEFINE w == o \o x
    <2>4. w \in Seq(Byte) /\ Len(w) = Len(o) + Len(x)
      BY <2>1, ConcatProperties
    <2> HIDE DEF w
    <2>5. Len(c) = Len(w) + Len(behind)
      <3>1. c = w \o behind
        BY <2>3 DEF w
      <3> QED
        BY <2>4, <3>1, ConcatProperties
    <2>6. Len(x) \in Nat /\ Len(behind) \in Nat
      BY <2>1
    <2>7. phase' = "offset"
      BY <1>9, <1>13, <2>2, <2>4, <2>5, <2>6
    <2>8. BeforeOffset(list)'
      <3>1. /\ Inside(list, s, out, behind) /\ token' = TokenOf(s)
            /\ output' = out \o s.literals /\ Ahead' = CopyPart(s, behind)
        BY <1>2, <1>9, <1>10 DEF l, c
      <3> QED
        BY <1>15, <3>1 DEF BeforeOffset
    <2> QED
      BY <2>7, <2>8 DEF Following
  <1> QED
    BY <1>14, <1>15

(* The offset is told by its two bytes.                                    *)
LEMMA OffsetTold ==
  ASSUME NEW back \in 0..(ByteMax + 1) * (ByteMax + 1) - 1
  PROVE  /\ back % (ByteMax + 1) \in Byte /\ back \div (ByteMax + 1) \in Byte
         /\ (back % (ByteMax + 1)) + (ByteMax + 1) * (back \div (ByteMax + 1)) = back
  <1> DEFINE B == ByteMax + 1
             d == back \div B
             r == back % B
  <1>1. B \in Nat \ {0} /\ ByteMax \in Nat
    BY Sizes
  <1>2. back \in Nat /\ back <= B * B - 1
    <2>1. B * B \in Nat
      BY <1>1
    <2> QED
      BY <2>1
  <1> HIDE DEF B
  <1>3. d \in Nat /\ r \in 0..(B - 1) /\ back = d * B + r
    <2>1. back = d * B + (back % B)
      BY <1>1, <1>2, DivModExists
    <2> QED
      BY <1>1, <1>2, <2>1, DivModExists
  <1> HIDE DEF d, r
  <1>4. d <= ByteMax
    <2> SUFFICES ASSUME d >= B PROVE FALSE
      BY <1>1, <1>3 DEF B
    <2>1. PICK q \in Nat : d = B + q
      <3>1. d - B \in Nat /\ d = B + (d - B)
        BY <1>1, <1>3
      <3> QED
        BY <3>1
    <2>2. d * B = B * B + q * B /\ q * B \in Nat /\ B * B \in Nat
      BY <1>1, <2>1
    <2> QED
      BY <1>1, <1>2, <1>3, <2>2
  <1>5. r + B * d = back
    <2>1. B * d = d * B /\ B * d \in Nat
      BY <1>1, <1>3
    <2> QED
      BY <1>1, <1>3, <2>1
  <1>6. r \in Byte /\ d \in Byte
    BY <1>1, <1>3, <1>4 DEF Byte, B
  <1> QED
    BY <1>5, <1>6 DEF B, d, r

LEMMA TwoBytesCome ==
  ASSUME IInv, NEW a \in Byte, NEW b \in Byte, NEW y \in Seq(Byte), Ahead = <<a, b>> \o y
  PROVE  /\ ~(si + 2 > Len(source)) /\ At(si) = a /\ At(si + 1) = b
         /\ source' = source /\ si' = si + 2 => Ahead' = y
  <1> DEFINE x == <<a, b>>
  <1>1. x \in Seq(Byte) /\ Len(x) = 2 /\ x[1] = a /\ x[2] = b /\ Ahead = x \o y
    BY Pair
  <1> HIDE DEF x
  <1>2. /\ si + 2 <= Len(source) /\ SubSeq(source, si + 1, si + 2) = x
        /\ source' = source /\ si' = si + 2 => Ahead' = y
    BY <1>1, Comes
  <1>3. si \in Nat /\ Len(source) \in Nat
    BY TypesNow
  <1>4. SubSeq(source, si + 1, si + 2)[1] = source[si + 1]
        /\ SubSeq(source, si + 1, si + 2)[2] = source[(si + 1) + 1]
    BY <1>3
  <1> QED
    BY <1>1, <1>2, <1>3, <1>4 DEF At

LEMMA ReadOffsetFollows ==
  ASSUME IInv, NEW list \in Meaningful, source = Encode(list), Following(list), ReadOffset
  PROVE  Following(list)'
  <1>1. phase = "offset" /\ BeforeOffset(list)
    BY DEF ReadOffset, Following
  <1>2. PICK s \in LzSequence, out \in Seq(Byte), behind \in Seq(Byte) :
          /\ Inside(list, s, out, behind) /\ token = TokenOf(s)
          /\ output = out \o s.literals /\ ~s.last /\ Ahead = CopyPart(s, behind)
    BY <1>1 DEF BeforeOffset
  <1>3. s.back \in 1..Len(out \o s.literals)
    BY <1>2, InsideFits
  <1>4. s.back \in 0..(ByteMax + 1) * (ByteMax + 1) - 1 /\ s.back \in Nat /\ s.copy \in Nat
    BY WrittenType DEF LzSequence
  <1> DEFINE B == ByteMax + 1
             a == s.back % B
             b == s.back \div B
             x == Extension(s.copy)
             y == x \o behind
             n == s.copy
  <1>5. a \in Byte /\ b \in Byte /\ a + B * b = s.back
    BY <1>4, OffsetTold
  <1>6. x \in Seq(Byte)
    BY <1>4, ExtensionType
  <1>7. Ahead = (<<a, b>> \o x) \o behind
    BY <1>2 DEF CopyPart, OffsetOf
  <1>8. n \in Nat /\ x = Extension(n)
    BY <1>4
  <1> HIDE DEF a, b, x, n
  <1>9. Ahead = <<a, b>> \o y
    <2> DEFINE o == <<a, b>>
    <2>1. o \in Seq(Byte) /\ Ahead = (o \o x) \o behind
      BY <1>5, <1>7, Pair
    <2> HIDE DEF o
    <2>2. Longer2(o, x, behind)
      BY <1>6, <2>1, Joined2
    <2> QED
      BY <2>1, <2>2 DEF Longer2, o
  <1>10. y \in Seq(Byte)
    BY <1>6, ConcatProperties
  <1> HIDE DEF y
  <1>11. /\ ~(si + 2 > Len(source)) /\ At(si) = a /\ At(si + 1) = b
         /\ source' = source /\ si' = si + 2 => Ahead' = y
    BY <1>5, <1>9, <1>10, TwoBytesCome
  <1>12. At(si) + (ByteMax + 1) * At(si + 1) = s.back
    BY <1>5, <1>11
  <1>13. OffsetValid(s.back)
    <2>1. s.back \in 1..Len(output) /\ Len(output) \in Nat
      BY <1>2, <1>3, TypesNow
    <2> QED
      BY <2>1 DEF OffsetValid, di
  <1>14. /\ offset' = s.back /\ si' = si + 2 /\ source' = source /\ output' = output
         /\ LengthFrom(token % Nibble, "moreCopy", "copy")
    BY <1>11, <1>12, <1>13 DEF ReadOffset
  <1>15. Ahead' = Extension(n) \o behind
    BY <1>8, <1>11, <1>14 DEF y
  <1>16. length' = Half(n) /\ phase' = IF Half(n) = Nibble - 1 THEN "moreCopy" ELSE "copy"
    <2>1. token % Nibble = Half(n)
      BY <1>2, TokenHalves DEF n
    <2> QED
      BY <1>14, <2>1 DEF LengthFrom
  <1>17. /\ Half(n) = Nibble - 1 => Owed(n, behind)'
         /\ Half(n) # Nibble - 1 => length' = n /\ Ahead' = behind
    BY <1>8, <1>15, <1>16, OwedFirst
  <1>18. CASE Half(n) = Nibble - 1
    <2>1. InCopyExtension(list)'
      BY <1>2, <1>14, <1>17, <1>18 DEF InCopyExtension, n
    <2> QED
      BY <1>16, <1>18, <2>1 DEF Following
  <1>19. CASE Half(n) # Nibble - 1
    <2>1. BeforeCopy(list)'
      BY <1>2, <1>14, <1>17, <1>19 DEF BeforeCopy, n
    <2> QED
      BY <1>16, <1>19, <2>1 DEF Following
  <1> QED
    BY <1>18, <1>19

LEMMA BeginCopyFollows ==
  ASSUME IInv, NEW list \in Meaningful, source = Encode(list), Following(list), BeginCopy
  PROVE  Following(list)'
  <1>1. phase = "copy" /\ BeforeCopy(list)
    BY DEF BeginCopy, Following
  <1>2. PICK s \in LzSequence, out \in Seq(Byte), behind \in Seq(Byte) :
          /\ Inside(list, s, out, behind) /\ output = out \o s.literals
          /\ ~s.last /\ offset = s.back /\ length = s.copy /\ Ahead = behind
    BY <1>1 DEF BeforeCopy
  <1>3. /\ s.back \in 1..Len(out \o s.literals)
        /\ Len(out) + Len(s.literals) + (s.copy + MinMatch) <= Capacity
        /\ Len(out \o s.literals) = Len(out) + Len(s.literals)
        /\ out \o s.literals \in Seq(Byte)
    BY <1>2, InsideFits
  <1>4. s.copy \in Nat /\ Len(s.literals) \in Nat /\ Len(out) \in Nat /\ MinMatch \in Nat
        /\ Capacity \in Nat
    BY WrittenType, Sizes
  <1>5. CopyFits
    <2>1. Len(output) + length + MinMatch <= Capacity
      BY <1>2, <1>3, <1>4
    <2> QED
      BY <2>1 DEF CopyFits, di
  <1>6. length' = length + MinMatch /\ phase' = "copying" /\ source' = source
        /\ si' = si /\ output' = output /\ offset' = offset
    BY <1>5 DEF BeginCopy
  <1>7. Ahead' = behind
    BY <1>2, <1>6 DEF Ahead
  <1>8. output' = (out \o s.literals) \o Copied(out \o s.literals, s.back, 0)
    <2> DEFINE end == out \o s.literals
    <2>1. end \in Seq(Byte) /\ s.back \in 1..Len(end) /\ output' = end
      BY <1>2, <1>3, <1>6
    <2> HIDE DEF end
    <2>2. Copied(end, s.back, 0) \in Seq(Byte) /\ Len(Copied(end, s.back, 0)) = 0
      BY <2>1, CopiedType
    <2>3. Copied(end, s.back, 0) = <<>>
      BY <2>2, EmptySeq
    <2>4. output' = end \o Copied(end, s.back, 0)
      BY <2>1, <2>3, ConcatEmptySeq
    <2> QED
      BY <2>4 DEF end
  <1>9. 0 \in Nat /\ 0 + length' = s.copy + MinMatch
    BY <1>2, <1>4, <1>6
  <1>10. Inside(list, s, out, behind) /\ ~s.last /\ offset' = s.back
    BY <1>2, <1>6
  <1>11. InCopy(list)'
    BY <1>7, <1>8, <1>9, <1>10 DEF InCopy
  <1> QED
    BY <1>6, <1>11 DEF Following

LEMMA CopyByteFollows ==
  ASSUME IInv, NEW list \in Meaningful, source = Encode(list), Following(list), CopyByte
  PROVE  Following(list)'
  <1>1. phase = "copying" /\ length > 0 /\ InCopy(list)
    BY DEF CopyByte, Following
  <1>2. PICK s \in LzSequence, out \in Seq(Byte), behind \in Seq(Byte), n \in Nat :
          /\ Inside(list, s, out, behind)
          /\ output = (out \o s.literals) \o Copied(out \o s.literals, s.back, n)
          /\ ~s.last /\ offset = s.back /\ n + length = s.copy + MinMatch /\ Ahead = behind
    BY <1>1 DEF InCopy
  <1>3. s.back \in 1..Len(out \o s.literals) /\ out \o s.literals \in Seq(Byte)
    BY <1>2, InsideFits
  <1>4. output' = Append(output, output[di - offset + 1]) /\ length' = length - 1
        /\ phase' = phase /\ source' = source /\ si' = si /\ offset' = offset
    BY DEF CopyByte
  <1>5. output' = (out \o s.literals) \o Copied(out \o s.literals, s.back, n + 1)
    <2> DEFINE end == out \o s.literals
    <2>1. end \in Seq(Byte) /\ s.back \in 1..Len(end)
          /\ output = end \o Copied(end, s.back, n)
      BY <1>2, <1>3
    <2> HIDE DEF end
    <2>2. Append(output, output[Len(output) - s.back + 1]) = end \o Copied(end, s.back, n + 1)
      BY <2>1, CopiedMore
    <2>3. output' = end \o Copied(end, s.back, n + 1)
      BY <1>2, <1>4, <2>2 DEF di
    <2> QED
      BY <2>3 DEF end
  <1>6. n + 1 \in Nat /\ (n + 1) + length' = s.copy + MinMatch
    BY <1>1, <1>2, <1>4, TypesNow
  <1>7. Ahead' = behind
    BY <1>2, <1>4 DEF Ahead
  <1>8. Inside(list, s, out, behind) /\ ~s.last /\ offset' = s.back
    BY <1>2, <1>4
  <1>9. InCopy(list)'
    BY <1>5, <1>6, <1>7, <1>8 DEF InCopy
  <1> QED
    BY <1>1, <1>4, <1>9 DEF Following

LEMMA EndCopyFollows ==
  ASSUME IInv, NEW list \in Meaningful, source = Encode(list), Following(list), EndCopy
  PROVE  Following(list)'
  <1>1. phase = "copying" /\ length = 0 /\ InCopy(list)
    BY DEF EndCopy, Following
  <1>2. PICK s \in LzSequence, out \in Seq(Byte), behind \in Seq(Byte), n \in Nat :
          /\ Inside(list, s, out, behind)
          /\ output = (out \o s.literals) \o Copied(out \o s.literals, s.back, n)
          /\ ~s.last /\ offset = s.back /\ n + length = s.copy + MinMatch /\ Ahead = behind
    BY <1>1 DEF InCopy
  <1>3. phase' = "token" /\ source' = source /\ si' = si /\ output' = output
    BY DEF EndCopy
  <1>4. n = s.copy + MinMatch
    BY <1>1, <1>2
  <1>5. s.back \in 1..Len(out \o s.literals)
    BY <1>2, InsideFits
  <1>6. output = Meant(out, s)
    BY <1>2, <1>4, <1>5, MeantCopy
  <1>7. PICK k \in 0..Len(list) :
          Encode(list) = Encoded(list)[k] \o behind /\ Expanded(list)[k] = Meant(out, s)
    BY <1>2, InsideFits
  <1>8. Ahead' = behind
    BY <1>2, <1>3 DEF Ahead
  <1>9. BeforeToken(list)'
    BY <1>3, <1>6, <1>7, <1>8 DEF BeforeToken
  <1> QED
    BY <1>3, <1>9 DEF Following

LEMMA InitFollowed == BlockInit => Followed
  <1> SUFFICES ASSUME BlockInit, NEW list \in Meaningful, source = Encode(list)
               PROVE  Following(list)
    BY DEF Followed
  <1>1. source \in Seq(Byte) /\ si = 0 /\ output = <<>> /\ phase = "token"
    BY Lz4Assumption DEF BlockInit
  <1>2. Ahead = source
    <2>1. 0 + 1 = 1
      OBVIOUS
    <2> QED
      BY <1>1, <2>1, SubSeqFull DEF Ahead
  <1>3. list \in Seq(LzSequence) /\ 0 \in 0..Len(list)
    BY MeaningfulList
  <1>4. Encoded(list)[0] = <<>> /\ Expanded(list)[0] = <<>>
    BY <1>3, EncodedDef, ExpandedDef
  <1>5. Encode(list) = <<>> \o Ahead
    BY <1>1, <1>2, ConcatEmptySeq
  <1>6. BeforeToken(list)
    BY <1>1, <1>3, <1>4, <1>5 DEF BeforeToken
  <1> QED
    BY <1>1, <1>6 DEF Following

LEMMA SourceKept == [BlockNext]_blockVars => source' = source
  BY DEF BlockNext, blockVars, ReadToken, ReadExtension, CopyLiterals, ReadOffset, BeginCopy,
         CopyByte, EndCopy, Refuse

LEMMA NextFollowed == IInv /\ Followed /\ [BlockNext]_blockVars => Followed'
  <1> SUFFICES ASSUME IInv, Followed, [BlockNext]_blockVars, NEW list \in Meaningful,
                      source' = Encode(list)
               PROVE  Following(list)'
    BY DEF Followed
  <1>0. source = Encode(list) /\ Following(list)
    BY SourceKept DEF Followed
  <1>1. CASE ReadToken
    BY <1>0, <1>1, ReadTokenFollows
  <1>2. CASE CopyLiterals
    BY <1>0, <1>2, CopyLiteralsFollows
  <1>3. CASE ReadOffset
    BY <1>0, <1>3, ReadOffsetFollows
  <1>4. CASE BeginCopy
    BY <1>0, <1>4, BeginCopyFollows
  <1>5. CASE CopyByte
    BY <1>0, <1>5, CopyByteFollows
  <1>6. CASE EndCopy
    BY <1>0, <1>6, EndCopyFollows
  <1>7. CASE ReadExtension("moreLiterals", "literals")
    BY <1>0, <1>7, MoreLiteralsFollows
  <1>8. CASE ReadExtension("moreCopy", "copy")
    BY <1>0, <1>8, MoreCopyFollows
  <1>9. CASE UNCHANGED blockVars
    <2>1. /\ source' = source /\ si' = si /\ output' = output /\ phase' = phase
          /\ token' = token /\ length' = length /\ offset' = offset
      BY <1>9 DEF blockVars
    <2>2. Ahead' = Ahead
      BY <2>1 DEF Ahead
    <2>3. \A n, rest : Owed(n, rest) => Owed(n, rest)'
      BY <2>1, <2>2 DEF Owed
    <2>4. BeforeToken(list) => BeforeToken(list)'
      BY <2>1, <2>2 DEF BeforeToken
    <2>5. InExtension(list) => InExtension(list)'
      BY <2>1, <2>3 DEF InExtension
    <2>6. BeforeLiterals(list) => BeforeLiterals(list)'
      BY <2>1, <2>2 DEF BeforeLiterals
    <2>7. BeforeOffset(list) => BeforeOffset(list)'
      BY <2>1, <2>2 DEF BeforeOffset
    <2>8. InCopyExtension(list) => InCopyExtension(list)'
      BY <2>1, <2>3 DEF InCopyExtension
    <2>9. BeforeCopy(list) => BeforeCopy(list)'
      BY <2>1, <2>2 DEF BeforeCopy
    <2>10. InCopy(list) => InCopy(list)'
      BY <2>1, <2>2 DEF InCopy
    <2> QED
      BY <1>0, <2>1, <2>4, <2>5, <2>6, <2>7, <2>8, <2>9, <2>10 DEF Following
  <1> QED
    BY <1>1, <1>2, <1>3, <1>4, <1>5, <1>6, <1>7, <1>8, <1>9 DEF BlockNext

(* No list that a block could have been written from is left out.          *)
NothingLeftOut ==
  \A list \in Seq(LzSequence) :
    IsList(list) /\ Encode(list) \in Blocks =>
      \E m \in Lists : Encode(m) = Encode(list) /\ Expand(m) = Expand(list)

LEMMA AllLists ==
  ASSUME Lists = {list \in Seq(LzSequence) : IsList(list)}
  PROVE  NothingLeftOut
  BY DEF NothingLeftOut

LEMMA ToldRight ==
  ASSUME NothingLeftOut, IInv, Told, Followed, source \in Blocks
  PROVE  DecodedRight
  <1>1. InBounds
    BY DEF IInv
  <1>2. ASSUME phase = "done" PROVE <<source, output>> \in Meaning
    <2>1. PICK list \in Seq(LzSequence) :
            IsList(list) /\ source = Encode(list) /\ output = Expand(list)
      BY <1>2 DEF Told, ToldWhole
    <2>2. PICK m \in Lists : Encode(m) = Encode(list) /\ Expand(m) = Expand(list)
      BY <2>1 DEF NothingLeftOut
    <2>3. output # Meaningless /\ Len(output) <= Capacity
      BY TypesNow, MeaninglessOut DEF IInv, InBounds
    <2> DEFINE p == <<source, output>>
               Pairs == {<<Encode(l), Expand(l)>> : l \in Lists}
    <2>4. p \in Pairs
      BY <2>1, <2>2
    <2>5. p[2] # Meaningless /\ Len(p[2]) <= Capacity
      BY <2>3
    <2> HIDE DEF p, Pairs
    <2>6. p \in {m1 \in Pairs : m1[2] # Meaningless /\ Len(m1[2]) <= Capacity}
      BY <2>4, <2>5
    <2> QED
      BY <2>6 DEF Meaning, Pairs, p
  <1>3. ASSUME phase = "refused" PROVE source \notin WellFormed
    <2> SUFFICES ASSUME source \in WellFormed PROVE FALSE
      OBVIOUS
    <2>1. PICK m \in Meaning : source = m[1]
      BY DEF WellFormed
    <2>2. PICK list \in Lists : m = <<Encode(list), Expand(list)>>
      BY DEF Meaning
    <2>3. m[1] = Encode(list) /\ m[2] = Expand(list)
      BY <2>2
    <2>4. m[2] # Meaningless /\ Len(m[2]) <= Capacity
      BY DEF Meaning
    <2>5. list \in Meaningful /\ source = Encode(list)
      BY <2>1, <2>3, <2>4, ListsAssumption DEF Meaningful
    <2> QED
      BY <1>3, <2>5 DEF Followed, Following
  <1> QED
    BY <1>1, <1>2, <1>3 DEF DecodedRight
-----------------------------------------------------------------------------
(* The theorems.                                                           *)

LEMMA BlockInvariant == BlockSpec => [](IInv /\ Told /\ Followed)
  <1>1. BlockInit => IInv /\ Told /\ Followed
    BY InitIInv, InitTold, InitFollowed
  <1>2. IInv /\ Told /\ Followed /\ [BlockNext]_blockVars => (IInv /\ Told /\ Followed)'
    BY NextIInv, NextTold, NextFollowed
  <1> QED
    BY <1>1, <1>2, PTL DEF BlockSpec

(* Whatever was received: what the decoder is done with, some list of
   sequences was written as and means; and whichever list it was written as
   that means something within the frame, the decoder does not refuse it and
   gives no other meaning.                                                 *)
OneMeaning ==
  /\ phase = "done" => ToldWhole
  /\ \A list \in Meaningful :
       source = Encode(list) => /\ phase # "refused"
                                /\ phase = "done" => output = Expand(list)

(* lz4_decompress_block decodes what lists of sequences mean, whichever the
   blocks are and whatever lists are considered.                           *)
THEOREM BlockOneMeaning == BlockSpec => []OneMeaning
  <1>1. IInv /\ Told /\ Followed => OneMeaning
    <2> SUFFICES ASSUME Told, Followed PROVE OneMeaning
      OBVIOUS
    <2>1. phase = "done" => ToldWhole
      BY DEF Told
    <2>2. \A list \in Meaningful : source = Encode(list) => Following(list)
      BY DEF Followed
    <2>3. \A list : Following(list) => /\ phase # "refused"
                                       /\ phase = "done" => output = Expand(list)
      BY DEF Following
    <2> QED
      BY <2>1, <2>2, <2>3 DEF OneMeaning
  <1> QED
    BY BlockInvariant, <1>1, PTL

(* The decoder takes the blocks that have a meaning within the frame, and no
   other, gives that meaning, and stays within its buffers on the way, when
   no list that a block could have been written from is left out.          *)
THEOREM BlockDecodedRight ==
  ASSUME NothingLeftOut
  PROVE  BlockSpec => []DecodedRight
  <1>1. BlockInit => source \in Blocks
    BY DEF BlockInit
  <1>2. source \in Blocks /\ [BlockNext]_blockVars => (source \in Blocks)'
    BY SourceKept
  <1>3. BlockSpec => [](source \in Blocks)
    BY <1>1, <1>2, PTL DEF BlockSpec
  <1>4. IInv /\ Told /\ Followed /\ source \in Blocks => DecodedRight
    BY ToldRight
  <1> QED
    BY BlockInvariant, <1>3, <1>4, PTL

(* All lists leave none out.                                               *)
COROLLARY AllBlocksDecodedRight ==
  ASSUME Lists = {list \in Seq(LzSequence) : IsList(list)}
  PROVE  BlockSpec => []DecodedRight
  BY AllLists, BlockDecodedRight
=============================================================================
