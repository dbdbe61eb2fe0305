--------------------------- MODULE RamLoaderProofs --------------------------
(***************************************************************************)
(* What RamLoader promises, for every image, frame size, CRC strength,     *)
(* retry count and set of line faults: types, soundness of execution, the  *)
(* abstract upload, and that tool and target agree on success, on the      *)
(* place of every unit and on the frame they are at.  And what             *)
(* RamLoaderTimed promises for every setting of its timers that lets a     *)
(* resent frame arrive in time: that the retries suffice.                  *)
(***************************************************************************)
EXTENDS RamLoaderTimed, SequenceTheorems, TLAPS

(* A position behind the first m of n is m plus its place behind them.     *)
LEMMA BehindFirst ==
  ASSUME NEW m \in Int, NEW n \in Int, NEW i \in Int, m < i, i <= n
  PROVE  i - m \in 1..(n - m) /\ m + (i - m) = i
  OBVIOUS

USE ImageAssumption, ChunkAssumption, BoundAssumption

-----------------------------------------------------------------------------
(* Operators on the wire.                                                  *)

LEMMA SizeType == Size \in Nat \ {0}
  BY DEF Size

(* A function on 1..n is a sequence of length n.                           *)
LEMMA FunctionIsSeq ==
  ASSUME NEW T, NEW n \in Nat, NEW f \in [1..n -> T]
  PROVE  f \in Seq(T) /\ Len(f) = n
<1>1. f \in UNION {[1..k -> T] : k \in Nat}
  BY Zenon
<1>2. Seq(T) = UNION {[1..k -> T] : k \in Nat}
  BY SeqDef, Zenon
<1>3. f \in Seq(T)
  BY <1>1, <1>2, Zenon
<1>4. DOMAIN f = 1..n /\ DOMAIN f = 1..Len(f) /\ Len(f) \in Nat
  BY <1>3, LenProperties, Zenon
<1>. QED
  BY <1>3, <1>4

LEMMA SingletonType ==
  ASSUME NEW T, NEW e \in T
  PROVE  <<e>> \in Seq(T) /\ Len(<<e>>) = 1 /\ <<e>>[1] = e
  OBVIOUS

(* What is left of a sequence once its first n elements are consumed.      *)
LEMMA SuffixType ==
  ASSUME NEW T, NEW q \in Seq(T), NEW n \in 0..Len(q)
  PROVE  SubSeq(q, n + 1, Len(q)) \in Seq(T)
  OBVIOUS

(* A sequence stays a sequence when the line loses one of its elements.    *)
LEMMA WithoutType ==
  ASSUME NEW T, NEW q \in Seq(T), NEW i \in DOMAIN q
  PROVE  Without(q, i) \in Seq(T)
<1>1. i \in 1..Len(q)
  OBVIOUS
<1>2. SubSeq(q, 1, i - 1) \in Seq(T)
  BY <1>1
<1>3. SubSeq(q, i + 1, Len(q)) \in Seq(T)
  BY <1>1
<1>. QED
  BY <1>2, <1>3 DEF Without

(* ... or when one of them is replaced.                                    *)
LEMMA ReplacedType ==
  ASSUME NEW T, NEW q \in Seq(T), NEW i \in DOMAIN q, NEW e \in T
  PROVE  [q EXCEPT ![i] = e] \in Seq(T)
<1>1. i \in 1..Len(q)
  OBVIOUS
<1>. QED
  BY <1>1, ExceptSeq

(* A CRC is a sequence of numbers as long as what it covers.               *)
LEMMA CrcType ==
  ASSUME NEW u \in Seq(Nat)
  PROVE  CrcOf(u) \in Seq(Nat)
<1>1. DOMAIN u = 1..Len(u)
  OBVIOUS
<1>2. \A i \in 1..Len(u) : u[i] % CrcMod \in Nat
  OBVIOUS
<1>. QED
  BY <1>1, <1>2 DEF CrcOf

(* The frame at any offset inside the image has at least one unit, at most
   ChunkSize, and consists of units of the image.                          *)
LEMMA PayloadType ==
  ASSUME NEW o \in 0..(Size - 1)
  PROVE  /\ FrameLength(o) \in Nat \ {0}
         /\ o + FrameLength(o) <= Size
         /\ Payload(o) \in Seq(Nat)
         /\ \A i \in 1..FrameLength(o) : Payload(o)[i] \in Nat
<1>1. FrameLength(o) \in Nat \ {0} /\ o + FrameLength(o) <= Size
  BY SizeType DEF FrameLength
<1>2. \A i \in 1..FrameLength(o) : Image[o + i] \in Nat
  BY <1>1, SizeType DEF Size
<1>3. Payload(o) \in [1..FrameLength(o) -> Nat]
  BY <1>2 DEF Payload
<1>. QED
  BY <1>1, <1>2, <1>3, FunctionIsSeq DEF Payload

(* What the host sends for one frame is a sequence of tokens.              *)
LEMMA FrameTokensType ==
  ASSUME NEW s \in Nat, NEW o \in 0..(Size - 1)
  PROVE  FrameTokens(s, o) \in Seq(Token)
<1>1. FrameToken(TRUE, s, FrameLength(o), CrcOf(Payload(o))) \in Token
  BY PayloadType, CrcType DEF FrameToken, Token
<1>2. \A i \in 1..FrameLength(o) : DataToken(Payload(o)[i]) \in Token
  BY PayloadType DEF DataToken, Token
<1>3. [i \in 1..FrameLength(o) |-> DataToken(Payload(o)[i])] \in Seq(Token)
  <2>1. [i \in 1..FrameLength(o) |-> DataToken(Payload(o)[i])]
          \in [1..FrameLength(o) -> Token]
    BY <1>2
  <2>. QED
    BY <2>1, PayloadType, FunctionIsSeq, Zenon
<1>4. <<FrameToken(TRUE, s, FrameLength(o), CrcOf(Payload(o)))>> \in Seq(Token)
  BY <1>1, SingletonType, Zenon
<1>. QED
  BY <1>3, <1>4, ConcatProperties DEF FrameTokens

(* Whatever follows a frame header is read as so many units.               *)
LEMMA ChunkType ==
  ASSUME NEW n \in Nat, toTarget \in Seq(Token), n < Len(toTarget)
  PROVE  /\ Chunk(n) \in Seq(Nat)
         /\ Len(Chunk(n)) = n
         /\ \A i \in 1..n : Chunk(n)[i] \in Nat
<1>1. \A i \in 1..n : toTarget[i + 1] \in Token
  OBVIOUS
<1>2. \A i \in 1..n : UnitOf(toTarget[i + 1]) \in Nat
  BY <1>1 DEF UnitOf, Token, Garbage
<1>. QED
  BY <1>2 DEF Chunk

-----------------------------------------------------------------------------
(* Type correctness, action by action.                                     *)

LEMMA LineTypes ==
  /\ Ready \in HostLine /\ AbortLine \in HostLine
  /\ \A t \in {"HEADER-ACK", "VERIFIED", "EXEC", "RETURNED"} : Line(t) \in HostLine
  /\ \A t \in {"ACK", "NACK"}, s \in Nat : Status(t, s) \in HostLine
  BY DEF Ready, AbortLine, Line, Status, HostLine

(* What the target prints keeps the line well typed.                       *)
LEMMA SayType ==
  ASSUME TypeOK, NEW lines \in Seq(HostLine), Say(lines)
  PROVE  toHost' \in Seq(HostLine)
<1>1. toHost \o lines \in Seq(HostLine)
  BY ConcatProperties DEF TypeOK
<1>. QED
  BY <1>1 DEF Say

LEMMA SayOneType ==
  ASSUME TypeOK, NEW line \in HostLine, Say(<<line>>)
  PROVE  toHost' \in Seq(HostLine)
  BY SayType, SingletonType

LEMMA SayTwoType ==
  ASSUME TypeOK, NEW first \in HostLine, NEW second \in HostLine,
         Say(<<first, second>>)
  PROVE  toHost' \in Seq(HostLine)
<1>1. <<first, second>> \in Seq(HostLine)
  OBVIOUS
<1>. QED
  BY <1>1, SayType

LEMMA ConsumeType ==
  ASSUME TypeOK, NEW n \in 0..Len(toTarget), Consume(n)
  PROVE  toTarget' \in Seq(Token)
  BY SuffixType DEF TypeOK, Consume

(* Giving up a transfer only changes the phase and the line.               *)
LEMMA AbortType ==
  ASSUME TypeOK, NEW n \in Nat, Abort(n), UNCHANGED <<hostVars, faults, runs>>
  PROVE  TypeOK'
<1>1. toHost' \in Seq(HostLine)
  BY SayTwoType, LineTypes DEF Abort
<1>2. toTarget' \in Seq(Token)
  <2>1. PICK m \in n..Len(toTarget) : Consume(m)
    BY DEF Abort
  <2>2. Len(toTarget) \in Nat
    BY DEF TypeOK
  <2>3. m \in 0..Len(toTarget)
    BY <2>2
  <2>. QED
    BY <2>1, <2>3, ConsumeType
<1>. QED
  BY <1>1, <1>2 DEF TypeOK, Abort, hostVars

(* The frame header at the front of a complete frame.                      *)
LEMMA FrameHead ==
  ASSUME TypeOK, FrameComplete
  PROVE  /\ Head(toTarget) \in Token
         /\ Head(toTarget).kind = "frame"
         /\ Head(toTarget).sequence \in Nat
         /\ Head(toTarget).crc \in Seq(Nat)
         /\ Head(toTarget).length \in Nat \ {0}
         /\ Head(toTarget).length < Len(toTarget)
         /\ Head(toTarget).length + 1 \in 0..Len(toTarget)
<1>1. Head(toTarget) \in Token
  BY DEF TypeOK, FrameComplete
<1>2. /\ Head(toTarget).kind = "frame"
      /\ Head(toTarget).length \in 1..ChunkSize
      /\ Len(toTarget) > Head(toTarget).length
  BY DEF FrameComplete, FrameHeaderValid
<1>3. Len(toTarget) \in Nat
  BY DEF TypeOK
<1>. QED
  BY <1>1, <1>2, <1>3 DEF Token

(* A frame is read off the line and answered, and nothing is stored.       *)
LEMMA FrameAnsweredType ==
  ASSUME TypeOK, FrameComplete,
         NEW line \in HostLine, Say(<<line>>),
         Consume(Head(toTarget).length + 1),
         UNCHANGED <<targetVars, executed, hostVars, faults, runs>>
  PROVE  TypeOK'
<1>1. toHost' \in Seq(HostLine)
  BY SayOneType
<1>2. toTarget' \in Seq(Token)
  BY FrameHead, ConsumeType
<1>. QED
  BY <1>1, <1>2 DEF TypeOK, targetVars, hostVars

(* An accepted frame is stored behind what was stored before it and is
   appended to what has been hashed.                                       *)
LEMMA AcceptFrameEffect ==
  ASSUME TypeOK, AcceptFrame
  PROVE  /\ received' \in 0..Size
         /\ received < received'
         /\ hashed' \in Seq(Nat)
         /\ Len(hashed') = Len(hashed) + (received' - received)
         /\ \A i \in 1..Len(hashed) : hashed'[i] = hashed[i]
         /\ \A i \in 1..(received' - received) :
               hashed'[Len(hashed) + i] = mem'[received + i]
         /\ mem' \in [1..Size -> Nat]
         /\ \A i \in 1..received : mem'[i] = mem[i]
<1>. DEFINE n == Head(toTarget).length
            c == Chunk(n)
<1>1. n \in Nat \ {0} /\ n < Len(toTarget)
  BY FrameHead DEF AcceptFrame
<1>2. c \in Seq(Nat) /\ Len(c) = n /\ \A i \in 1..n : c[i] \in Nat
  BY <1>1, ChunkType DEF TypeOK
<1>3. /\ mem' = [i \in 1..Size |-> IF i \in (received + 1)..(received + n)
                                   THEN c[i - received] ELSE mem[i]]
      /\ hashed' = hashed \o c
      /\ received' = received + n
      /\ n <= Size - received
  BY DEF AcceptFrame, FrameFits
<1>. HIDE DEF n, c
<1>4. received \in 0..Size /\ mem \in [1..Size -> Nat] /\ hashed \in Seq(Nat)
  BY DEF TypeOK
<1>5. received' \in 0..Size /\ received < received' /\ received' - received = n
  BY <1>1, <1>3, <1>4, SizeType
<1>6. /\ hashed' \in Seq(Nat)
      /\ Len(hashed') = Len(hashed) + n
      /\ \A i \in 1..Len(hashed) : hashed'[i] = hashed[i]
      /\ \A i \in 1..n : hashed'[Len(hashed) + i] = c[i]
  <2>1. /\ hashed \o c \in Seq(Nat)
        /\ Len(hashed \o c) = Len(hashed) + Len(c)
        /\ \A i \in 1..Len(hashed) + Len(c) :
              (hashed \o c)[i] = IF i <= Len(hashed) THEN hashed[i]
                                                    ELSE c[i - Len(hashed)]
    BY <1>2, <1>4, ConcatProperties
  <2>2. Len(hashed) \in Nat
    BY <1>4
  <2>3. \A i \in 1..Len(hashed) : i \in 1..Len(hashed) + n /\ i <= Len(hashed)
    BY <1>1, <2>2
  <2>4. \A i \in 1..n : /\ Len(hashed) + i \in 1..Len(hashed) + n
                        /\ ~(Len(hashed) + i <= Len(hashed))
                        /\ (Len(hashed) + i) - Len(hashed) = i
    BY <1>1, <2>2
  <2>. QED
    BY <1>2, <1>3, <2>1, <2>3, <2>4
<1>7. \A i \in (received + 1)..(received + n) : i - received \in 1..n
  BY <1>1, <1>4
<1>8. mem' \in [1..Size -> Nat]
  BY <1>2, <1>3, <1>4, <1>7
<1>9. \A i \in 1..n : mem'[received + i] = c[i]
  <2>. SUFFICES ASSUME NEW i \in 1..n PROVE mem'[received + i] = c[i]
    OBVIOUS
  <2>1. /\ received + i \in 1..Size
        /\ received + i \in (received + 1)..(received + n)
        /\ (received + i) - received = i
    BY <1>1, <1>3, <1>4, SizeType
  <2>. QED
    BY <1>3, <2>1
<1>10. \A i \in 1..received : mem'[i] = mem[i]
  <2>. SUFFICES ASSUME NEW i \in 1..received PROVE mem'[i] = mem[i]
    OBVIOUS
  <2>1. i \in 1..Size /\ i \notin (received + 1)..(received + n)
    BY <1>1, <1>4, SizeType
  <2>. QED
    BY <1>3, <2>1
<1>. QED
  BY <1>5, <1>6, <1>8, <1>9, <1>10

-----------------------------------------------------------------------------
(* Execution is sound.  The digest is compared with what was hashed while
   the jump goes into memory, so the invariant that carries the proof is that
   both hold the same units as long as a transfer is open.                  *)

StoredIsHashed ==
  phase = "frames" =>
    /\ Len(hashed) = received
    /\ \A i \in 1..received : mem[i] = hashed[i]

Inv == TypeOK /\ StoredIsHashed /\ ExecSound

LEMMA InitInv == Init => Inv
<1>. SUFFICES ASSUME Init PROVE Inv
  OBVIOUS
<1>1. mem \in [1..Size -> Nat]
  BY DEF Init, Garbage
<1>2. toHost \in Seq(HostLine)
  BY LineTypes, SingletonType DEF Init
<1>3. hashed \in Seq(Nat) /\ toTarget \in Seq(Token) /\ <<>> \in Seq(Nat)
  BY EmptySeq DEF Init
<1>4. previous \in [length : Nat, crc : Seq(Nat)]
  BY <1>3 DEF Init
<1>5. /\ received \in 0..Size /\ expected \in Nat
      /\ sequence \in Nat /\ offset \in 0..(Size - 1)
  BY SizeType DEF Init
<1>6. attempt \in 0..Retries /\ runs \in 1..MaxRuns
      /\ faults \in Seq(FaultKinds) /\ Len(faults) <= MaxFaults
  BY DEF Init
<1>7. /\ phase \in {"ready", "frames", "running"}
      /\ host \in Waiting \union {"done", "failed"}
      /\ executed \in BOOLEAN
  BY DEF Init, Waiting
<1>8. TypeOK
  BY <1>1, <1>2, <1>3, <1>4, <1>5, <1>6, <1>7 DEF TypeOK
<1>. QED
  BY <1>8 DEF Init, Inv, StoredIsHashed, ExecSound

(* Steps of the target.                                                    *)
LEMMA TargetInv ==
  ASSUME Inv, Target
  PROVE  Inv'
<1>. USE DEF Inv
<1>0. UNCHANGED <<hostVars, faults, runs>>
  BY DEF Target
<1>1. CASE AcceptHeader
  <2>1. toTarget' \in Seq(Token)
    BY <1>1, ConsumeType DEF AcceptHeader, TypeOK
  <2>2. toHost' \in Seq(HostLine)
    BY <1>1, SayOneType, LineTypes DEF AcceptHeader
  <2>3. previous' \in [length : Nat, crc : Seq(Nat)] /\ hashed' \in Seq(Nat)
    BY <1>1, EmptySeq DEF AcceptHeader
  <2>4. received' = 0 /\ Len(hashed') = 0
    BY <1>1 DEF AcceptHeader
  <2>. QED
    BY <1>0, <1>1, <2>1, <2>2, <2>3, <2>4, SizeType
       DEF AcceptHeader, TypeOK, StoredIsHashed, ExecSound, hostVars
<1>2. CASE RejectHeader \/ TransferTimeout \/ InvalidFrame \/ RejectImage
  <2>1. PICK n \in Nat : Abort(n)
    BY <1>2 DEF RejectHeader, TransferTimeout, InvalidFrame, RejectImage
  <2>2. TypeOK'
    BY <1>0, <2>1, AbortType
  <2>. QED
    BY <2>1, <2>2 DEF Abort, StoredIsHashed, ExecSound
<1>3. CASE DuplicateFrame \/ RejectFrame
  <2>1. PICK line \in HostLine : Say(<<line>>)
    <3>1. Head(toTarget).sequence \in Nat /\ expected \in Nat
      BY <1>3, FrameHead DEF DuplicateFrame, RejectFrame, TypeOK
    <3>. QED
      BY <1>3, <3>1, LineTypes DEF DuplicateFrame, RejectFrame
  <2>2. TypeOK'
    BY <1>0, <1>3, <2>1, FrameAnsweredType DEF DuplicateFrame, RejectFrame
  <2>. QED
    BY <1>3, <2>2 DEF DuplicateFrame, RejectFrame, targetVars, StoredIsHashed,
                      ExecSound
<1>4. CASE AcceptFrame
  <2>1. toTarget' \in Seq(Token)
    BY <1>4, FrameHead, ConsumeType DEF AcceptFrame
  <2>2. toHost' \in Seq(HostLine) /\ expected' \in Nat
    BY <1>4, SayOneType, LineTypes DEF AcceptFrame, TypeOK
  <2>3. previous' \in [length : Nat, crc : Seq(Nat)]
    BY <1>4, FrameHead DEF AcceptFrame
  <2>4. TypeOK'
    BY <1>0, <1>4, <2>1, <2>2, <2>3, AcceptFrameEffect
       DEF AcceptFrame, TypeOK, hostVars
  <2>5. StoredIsHashed'
    <3>1. phase = "frames" /\ phase' = "frames"
      BY <1>4 DEF AcceptFrame, FrameComplete
    <3>2. Len(hashed') = received'
      <4>1. Len(hashed) = received /\ received \in Nat
        BY <3>1 DEF StoredIsHashed, TypeOK
      <4>2. received' \in Nat /\ Len(hashed') = Len(hashed) + (received' - received)
        BY <1>4, AcceptFrameEffect, SizeType
      <4>3. \A m, n \in Nat : m + (n - m) = n
        OBVIOUS
      <4>. QED
        BY <4>1, <4>2, <4>3, Zenon
    <3>3. ASSUME NEW i \in 1..received'
          PROVE  mem'[i] = hashed'[i]
      <4>1. received \in Nat /\ received' \in Nat
        BY <1>4, AcceptFrameEffect DEF TypeOK
      <4>2. CASE i \in 1..received
        BY <1>4, <3>1, <4>2, AcceptFrameEffect DEF StoredIsHashed
      <4>3. CASE i \notin 1..received
        <5>1. PICK last \in Nat : last = received'
          BY <4>1
        <5>2. i \in 1..last
          BY <5>1
        <5>3. i \in Int /\ received < i /\ i <= last
          BY <4>1, <4>3, <5>2
        <5>4. i - received \in 1..(last - received) /\ received + (i - received) = i
          BY <4>1, <5>3, BehindFirst
        <5>. QED
          BY <1>4, <3>1, <5>1, <5>4, AcceptFrameEffect DEF StoredIsHashed
      <4>. QED
        BY <4>2, <4>3
    <3>. QED
      BY <3>2, <3>3 DEF StoredIsHashed
  <2>. QED
    BY <1>4, <2>4, <2>5 DEF AcceptFrame, FrameComplete, ExecSound
<1>5. CASE ExecuteImage
  <2>1. toHost' \in Seq(HostLine)
    BY <1>5, SayTwoType, LineTypes DEF ExecuteImage
  <2>2. TypeOK'
    BY <1>0, <1>5, <2>1 DEF ExecuteImage, TypeOK, hostVars
  <2>3. mem = Image
    <3>1. /\ hashed = Image /\ received = Size
          /\ \A i \in 1..Size : mem[i] = Image[i]
      BY <1>5 DEF ExecuteImage, ImageVerified, StoredIsHashed, TypeOK, Size
    <3>2. mem \in Seq(Nat) /\ Len(mem) = Size
      BY FunctionIsSeq, SizeType DEF TypeOK
    <3>. QED
      BY <3>1, <3>2, SeqEqual DEF Size
  <2>. QED
    BY <1>5, <2>2, <2>3 DEF ExecuteImage, StoredIsHashed, ExecSound
<1>6. CASE PayloadReturns
  <2>1. toTarget' \in Seq(Token)
    BY <1>6, ConsumeType DEF PayloadReturns
  <2>2. toHost' \in Seq(HostLine)
    BY <1>6, SayTwoType, LineTypes DEF PayloadReturns
  <2>. QED
    BY <1>0, <1>6, <2>1, <2>2
       DEF PayloadReturns, TypeOK, hostVars, StoredIsHashed, ExecSound
<1>. QED
  BY <1>1, <1>2, <1>3, <1>4, <1>5, <1>6 DEF Target, TargetStep

(* What the tool sends is made of tokens.                                  *)
LEMMA SendType ==
  ASSUME TypeOK, NEW tokens \in Seq(Token), Send(tokens)
  PROVE  toTarget' \in Seq(Token)
  BY ConcatProperties DEF TypeOK, Send

LEMMA NextLineType ==
  ASSUME TypeOK, toHost # <<>>, NextLine
  PROVE  toHost' \in Seq(HostLine)
  BY DEF TypeOK, NextLine

(* There is another frame behind every frame but the last.                 *)
LEMMA NextOffsetType ==
  ASSUME NEW o \in 0..(Size - 1), o + FrameLength(o) # Size
  PROVE  o + ChunkSize \in 0..(Size - 1)
  BY SizeType DEF FrameLength

LEMMA ResendType ==
  ASSUME TypeOK, Resend
  PROVE  attempt' \in 0..Retries /\ toTarget' \in Seq(Token)
<1>1. FrameTokens(sequence, offset) \in Seq(Token)
  BY FrameTokensType DEF TypeOK
<1>2. toTarget' \in Seq(Token)
  BY <1>1, SendType DEF Resend
<1>. QED
  BY <1>2 DEF Resend, TypeOK

LEMMA FailType ==
  ASSUME Inv, Fail, UNCHANGED <<targetVars, faults, runs, executed>>
  PROVE  Inv'
<1>1. toHost' \in Seq(HostLine)
  BY EmptySeq DEF Fail
<1>. QED
  BY <1>1 DEF Fail, Inv, TypeOK, StoredIsHashed, ExecSound, targetVars

(* Steps of the tool.                                                      *)
LEMMA HostInv ==
  ASSUME Inv, Host
  PROVE  Inv'
<1>. USE DEF Inv
<1>0. UNCHANGED <<targetVars, faults, runs, executed>>
  BY DEF Host
<1>1. CASE SendHeader
  <2>1. HeaderToken(TRUE) \in Token
    BY DEF HeaderToken, Token
  <2>2. toTarget' \in Seq(Token)
    BY <1>1, <2>1, SingletonType, SendType DEF SendHeader
  <2>3. toHost' \in Seq(HostLine)
    BY <1>1, NextLineType DEF SendHeader, Heard
  <2>. QED
    BY <1>0, <1>1, <2>2, <2>3
       DEF SendHeader, TypeOK, StoredIsHashed, ExecSound, targetVars, Waiting
<1>2. ASSUME NEW s \in Nat, NEW o \in 0..(Size - 1), SendFrame(s, o), toHost # <<>>
      PROVE  Inv'
  <2>1. toTarget' \in Seq(Token)
    BY <1>2, FrameTokensType, SendType DEF SendFrame
  <2>2. toHost' \in Seq(HostLine)
    BY <1>2, NextLineType DEF SendFrame
  <2>. QED
    BY <1>0, <1>2, <2>1, <2>2
       DEF SendFrame, TypeOK, StoredIsHashed, ExecSound, targetVars, Waiting
<1>3. CASE SendFirstFrame
  <2>1. 0 \in Nat /\ 0 \in 0..(Size - 1)
    BY SizeType
  <2>. QED
    BY <1>2, <1>3, <2>1 DEF SendFirstFrame, Heard
<1>4. CASE SendNextFrame
  <2>1. offset + ChunkSize \in 0..(Size - 1)
    BY <1>4, NextOffsetType DEF SendNextFrame, LastFrame, TypeOK
  <2>2. sequence + 1 \in Nat
    BY DEF TypeOK
  <2>. QED
    BY <1>2, <1>4, <2>1, <2>2 DEF SendNextFrame, AckHeard, Heard
<1>5. CASE AllFramesSent \/ HearVerified \/ IgnoreLine
  <2>1. toHost' \in Seq(HostLine)
    BY <1>5, NextLineType DEF AllFramesSent, HearVerified, IgnoreLine, AckHeard, Heard
  <2>2. host' \in Waiting \union {"done", "failed"}
    BY <1>5 DEF AllFramesSent, HearVerified, IgnoreLine, hostVars, Waiting, TypeOK
  <2>3. UNCHANGED <<sequence, offset, attempt, toTarget>>
    BY <1>5 DEF AllFramesSent, HearVerified, IgnoreLine, hostVars
  <2>. QED
    BY <1>0, <2>1, <2>2, <2>3
       DEF TypeOK, StoredIsHashed, ExecSound, targetVars
<1>6. CASE HearExec
  <2>1. toHost' \in Seq(HostLine)
    BY <1>6, EmptySeq DEF HearExec
  <2>. QED
    BY <1>0, <1>6, <2>1
       DEF HearExec, TypeOK, StoredIsHashed, ExecSound, targetVars
<1>7. ASSUME Resend, toHost' \in Seq(HostLine)
      PROVE  Inv'
  <2>1. attempt' \in 0..Retries /\ toTarget' \in Seq(Token)
    BY <1>7, ResendType
  <2>. QED
    BY <1>0, <1>7, <2>1
       DEF Resend, TypeOK, StoredIsHashed, ExecSound, targetVars
<1>8. CASE HearNack
  <2>1. CASE Resend /\ NextLine
    BY <1>7, <1>8, <2>1, NextLineType DEF HearNack, Heard
  <2>2. CASE Fail
    BY <1>0, <2>2, FailType
  <2>. QED
    BY <1>8, <2>1, <2>2 DEF HearNack
<1>9. CASE HearAbort
  BY <1>0, <1>9, FailType DEF HearAbort
<1>10. CASE HostTimeout
  <2>1. CASE Resend /\ UNCHANGED toHost
    BY <1>7, <2>1 DEF TypeOK
  <2>2. CASE Fail
    BY <1>0, <2>2, FailType
  <2>. QED
    BY <1>10, <2>1, <2>2 DEF HostTimeout
<1>. QED
  BY <1>1, <1>3, <1>4, <1>5, <1>6, <1>8, <1>9, <1>10 DEF Host, HostStep

LEMMA RerunInv ==
  ASSUME Inv, Rerun
  PROVE  Inv'
<1>1. toHost' \in Seq(HostLine)
  BY EmptySeq DEF Rerun
<1>2. 0 \in 0..(Size - 1) /\ 0 \in 0..Retries /\ runs' \in 1..MaxRuns
  BY SizeType DEF Rerun, Inv, TypeOK
<1>. QED
  BY <1>1, <1>2
     DEF Rerun, Inv, TypeOK, StoredIsHashed, ExecSound, targetVars, Waiting

-----------------------------------------------------------------------------
(* Faults of the line: nothing but what it carries changes.                *)

LEMMA ReplaceType ==
  ASSUME TypeOK, NEW i \in DOMAIN toTarget, NEW t \in Token, Replace(i, t)
  PROVE  toTarget' \in Seq(Token)
  BY ReplacedType DEF TypeOK, Replace

LEMMA DamageType ==
  ASSUME TypeOK, DamageData \/ DamageHeader \/ DamageFrame
  PROVE  toTarget' \in Seq(Token)
<1>1. \A i \in DOMAIN toTarget : toTarget[i] \in Token
  BY DEF TypeOK
<1>2. CASE DamageData
  <2>1. PICK i \in DOMAIN toTarget :
          /\ toTarget[i].kind = "data"
          /\ \/ Replace(i, DataToken(Garbage))
             \/ Replace(i, DataToken(toTarget[i].value + CrcMod))
    BY <1>2 DEF DamageData
  <2>2. toTarget[i].value \in Nat
    BY <1>1, <2>1 DEF Token
  <2>3. DataToken(Garbage) \in Token /\ DataToken(toTarget[i].value + CrcMod) \in Token
    BY <2>2 DEF DataToken, Garbage, Token
  <2>. QED
    BY <2>1, <2>3, ReplaceType
<1>3. CASE DamageHeader
  <2>1. HeaderToken(FALSE) \in Token
    BY DEF HeaderToken, Token
  <2>. QED
    BY <1>3, <2>1, ReplaceType DEF DamageHeader
<1>4. CASE DamageFrame
  <2>1. PICK i \in DOMAIN toTarget :
          /\ toTarget[i].kind = "frame"
          /\ \/ Replace(i, [toTarget[i] EXCEPT !.magic = FALSE])
             \/ Replace(i, [toTarget[i] EXCEPT !.crc = <<>>])
             \/ \E s \in 0..Size : Replace(i, [toTarget[i] EXCEPT !.sequence = s])
             \/ \E n \in 0..(ChunkSize + 1) :
                  Replace(i, [toTarget[i] EXCEPT !.length = n])
    BY <1>4, Zenon DEF DamageFrame
  <2>2. toTarget[i] \in [kind : {"frame"}, magic : BOOLEAN, sequence : Nat,
                         length : Nat, crc : Seq(Nat)]
    BY <1>1, <2>1 DEF Token
  <2>3. /\ [toTarget[i] EXCEPT !.magic = FALSE] \in Token
        /\ [toTarget[i] EXCEPT !.crc = <<>>] \in Token
        /\ \A s \in Nat : [toTarget[i] EXCEPT !.sequence = s] \in Token
        /\ \A n \in Nat : [toTarget[i] EXCEPT !.length = n] \in Token
    BY <2>2, EmptySeq DEF Token
  <2>4. 0..Size \subseteq Nat /\ 0..(ChunkSize + 1) \subseteq Nat
    BY SizeType
  <2>. QED
    BY <2>1, <2>3, <2>4, ReplaceType
<1>. QED
  BY <1>2, <1>3, <1>4

LEMMA FaultInv ==
  ASSUME Inv, Fault
  PROVE  Inv'
<1>. USE DEF Inv
<1>1. UNCHANGED <<targetVars, hostVars, runs, executed>>
  BY DEF Fault
<1>f. faults' \in Seq(FaultKinds) /\ Len(faults') <= MaxFaults
  <2>1. PICK kind : Occurs(kind)
    BY DEF Fault, LoseToken, DamageData, DamageHeader, DamageFrame, LoseLine,
           ErodeLine
  <2>2. kind \in FaultKinds /\ faults' = Append(faults, kind)
    BY <2>1 DEF Occurs
  <2>3. faults \in Seq(FaultKinds) /\ Len(faults) < MaxFaults
    BY DEF Fault, TypeOK
  <2>. QED
    BY <2>2, <2>3
<1>2. toTarget' \in Seq(Token) /\ toHost' \in Seq(HostLine)
  <2>1. CASE LoseToken
    BY <2>1, WithoutType DEF LoseToken, TypeOK
  <2>2. CASE DamageData \/ DamageHeader \/ DamageFrame
    BY <2>2, DamageType DEF DamageData, DamageHeader, DamageFrame, TypeOK
  <2>3. CASE LoseLine
    BY <2>3, WithoutType DEF LoseLine, TypeOK
  <2>4. CASE ErodeLine
    <3>1. PICK i \in DOMAIN toHost :
            /\ toHost[i].text = "NACK"
            /\ toHost' = [toHost EXCEPT ![i] = Status("ACK", toHost[i].sequence)]
            /\ UNCHANGED toTarget
      BY <2>4 DEF ErodeLine
    <3>2. toHost[i] \in HostLine /\ toHost \in Seq(HostLine)
      BY DEF TypeOK
    <3>3. toHost[i].sequence \in Nat
      BY <3>1, <3>2 DEF HostLine
    <3>4. Status("ACK", toHost[i].sequence) \in HostLine
      BY <3>3, LineTypes
    <3>5. [toHost EXCEPT ![i] = Status("ACK", toHost[i].sequence)] \in Seq(HostLine)
      BY <3>2, <3>4, ReplacedType
    <3>6. toTarget \in Seq(Token)
      BY DEF TypeOK
    <3>. QED
      BY <3>1, <3>5, <3>6, Zenon
  <2>. QED
    BY <2>1, <2>2, <2>3, <2>4 DEF Fault
<1>. QED
  BY <1>1, <1>f, <1>2 DEF TypeOK, StoredIsHashed, ExecSound, targetVars, hostVars

-----------------------------------------------------------------------------
LEMMA Invariance == Spec => []Inv
<1>1. Inv /\ [Next]_vars => Inv'
  <2>. SUFFICES ASSUME Inv, [Next]_vars PROVE Inv'
    OBVIOUS
  <2>1. CASE UNCHANGED vars
    BY <2>1 DEF vars, Inv, TypeOK, StoredIsHashed, ExecSound
  <2>. QED
    BY <2>1, TargetInv, HostInv, RerunInv, FaultInv DEF Next
<1>. QED
  BY <1>1, InitInv, PTL DEF Spec

(* Every variable keeps its type whatever the line does; in particular a
   transfer never stores more than the image holds, and the tool never sends
   a frame that begins behind its end.                                     *)
THEOREM TypeCorrect == Spec => []TypeOK
<1>1. Inv => TypeOK
  BY DEF Inv
<1>. QED
  BY <1>1, Invariance, PTL

(* The loader jumps only into a memory that holds exactly the image.       *)
THEOREM ExecutionSound == Spec => []ExecSound
<1>1. Inv => ExecSound
  BY DEF Inv
<1>. QED
  BY <1>1, Invariance, PTL

-----------------------------------------------------------------------------
(* The loader implements the abstract upload.                              *)

LEMMA ContentType ==
  ASSUME TypeOK, phase # "ready"
  PROVE  /\ UploadContent \in Seq(Nat)
         /\ Len(UploadContent) = received
         /\ \A i \in 1..received : UploadContent[i] = mem[i]
<1>1. received \in Nat /\ \A i \in 1..received : mem[i] \in Nat
  BY SizeType DEF TypeOK
<1>2. UploadContent = [i \in 1..received |-> mem[i]]
  BY DEF UploadContent
<1>3. [i \in 1..received |-> mem[i]] \in [1..received -> Nat]
  BY <1>1
<1>. QED
  BY <1>1, <1>2, <1>3, FunctionIsSeq

LEMMA UploadInit == Init => Upload!Init
  BY DEF Init, Upload!Init, UploadStage, UploadContent

(* Whatever leaves the target alone is invisible.                          *)
LEMMA UploadStutters ==
  ASSUME UNCHANGED targetVars
  PROVE  UNCHANGED Upload!vars
  BY DEF targetVars, Upload!vars, UploadStage, UploadContent

LEMMA BeginsUpload ==
  ASSUME TypeOK, TypeOK', AcceptHeader
  PROVE  Upload!Begin
<1>1. phase = "ready" /\ phase' = "frames" /\ received' = 0
  BY DEF AcceptHeader
<1>2. UploadStage = "idle" /\ UploadStage' = "receiving"
  BY <1>1 DEF UploadStage
<1>3. UploadContent' \in Seq(Nat) /\ Len(UploadContent') = 0
  BY <1>1, FunctionIsSeq DEF UploadContent
<1>. QED
  BY <1>2, <1>3, EmptySeq DEF Upload!Begin

LEMMA ExtendsUpload ==
  ASSUME TypeOK, TypeOK', AcceptFrame
  PROVE  Upload!Extend
<1>1. phase = "frames" /\ phase' = "frames"
  BY DEF AcceptFrame, FrameComplete
<1>2. UploadStage = "receiving" /\ UploadStage' = "receiving"
  BY <1>1 DEF UploadStage
<1>3. /\ UploadContent \in Seq(Nat) /\ Len(UploadContent) = received
      /\ \A i \in 1..received : UploadContent[i] = mem[i]
  BY <1>1, ContentType
<1>4. /\ Len(UploadContent') = received'
      /\ \A i \in 1..received' : UploadContent'[i] = mem'[i]
  <2>1. UploadContent' = [i \in 1..received' |-> mem'[i]]
    BY <1>1 DEF UploadContent
  <2>2. received' \in Nat /\ \A i \in 1..received' : mem'[i] \in Nat
    <3>1. PICK last \in 0..Size : last = received'
      BY AcceptFrameEffect
    <3>2. \A i \in 1..last : i \in 1..Size
      BY SizeType
    <3>. QED
      BY <3>1, <3>2, SizeType, AcceptFrameEffect
  <2>3. [i \in 1..received' |-> mem'[i]] \in [1..received' -> Nat]
    BY <2>2
  <2>. QED
    BY <2>1, <2>2, <2>3, FunctionIsSeq
<1>5. received < received' /\ received' <= Len(Image)
  BY AcceptFrameEffect, SizeType DEF Size
<1>6. \A i \in 1..received : i \in 1..received' /\ mem'[i] = mem[i]
  <2>1. PICK last \in 0..Size : last = received' /\ received < last
    BY AcceptFrameEffect
  <2>2. \A i \in 1..received : i \in 1..last
    BY <2>1, SizeType DEF TypeOK
  <2>. QED
    BY <2>1, <2>2, AcceptFrameEffect
<1>. QED
  BY <1>2, <1>3, <1>4, <1>5, <1>6 DEF Upload!Extend

LEMMA RunsUpload ==
  ASSUME Inv, Inv', ExecuteImage
  PROVE  Upload!Run
<1>1. phase = "frames" /\ phase' = "running" /\ UNCHANGED <<received, mem>>
  BY DEF ExecuteImage
<1>2. UploadStage = "receiving" /\ UploadStage' = "running"
  BY <1>1 DEF UploadStage
<1>3. UNCHANGED UploadContent
  BY <1>1 DEF UploadContent
<1>4. received = Size
  BY <1>1 DEF ExecuteImage, ImageVerified, Inv, StoredIsHashed, Size
<1>5. mem = Image
  BY <1>1 DEF Inv, ExecSound
<1>6. UploadContent = Image
  <2>1. /\ UploadContent \in Seq(Nat) /\ Len(UploadContent) = Len(Image)
        /\ \A i \in 1..Len(Image) : UploadContent[i] = Image[i]
    BY <1>1, <1>4, <1>5, ContentType DEF Inv, Size
  <2>. QED
    BY <2>1, SeqEqual
<1>. QED
  BY <1>2, <1>3, <1>6 DEF Upload!Run

LEMMA TargetImplements ==
  ASSUME Inv, Inv', Target
  PROVE  [Upload!Next]_(Upload!vars)
<1>. USE DEF Inv
<1>1. CASE AcceptHeader
  BY <1>1, BeginsUpload DEF Upload!Next
<1>2. ASSUME NEW n \in Nat, Abort(n), phase = "ready" \/ phase = "frames"
      PROVE  [Upload!Next]_(Upload!vars)
  <2>1. phase' = "ready"
    BY <1>2 DEF Abort
  <2>2. CASE phase = "ready"
    BY <2>1, <2>2 DEF UploadStage, UploadContent, Upload!vars
  <2>3. CASE phase = "frames"
    BY <2>1, <2>3 DEF UploadStage, UploadContent, Upload!Next, Upload!Discard
  <2>. QED
    BY <1>2, <2>2, <2>3
<1>3. CASE RejectHeader \/ TransferTimeout \/ InvalidFrame \/ RejectImage
  BY <1>2, <1>3 DEF RejectHeader, TransferTimeout, InvalidFrame, RejectImage
<1>4. CASE DuplicateFrame \/ RejectFrame
  BY <1>4, UploadStutters DEF DuplicateFrame, RejectFrame
<1>5. CASE AcceptFrame
  BY <1>5, ExtendsUpload DEF Upload!Next
<1>6. CASE ExecuteImage
  BY <1>6, RunsUpload DEF Upload!Next
<1>7. CASE PayloadReturns
  BY <1>7 DEF PayloadReturns, UploadStage, UploadContent, Upload!Next, Upload!Return
<1>. QED
  BY <1>1, <1>3, <1>4, <1>5, <1>6, <1>7 DEF Target, TargetStep

(* Every behaviour of loader, tool and line is an abstract upload.         *)
THEOREM Refinement == Spec => ImplementsUpload
<1>1. Inv /\ Inv' /\ [Next]_vars => [Upload!Next]_(Upload!vars)
  <2>. SUFFICES ASSUME Inv, Inv', [Next]_vars
                PROVE  [Upload!Next]_(Upload!vars)
    OBVIOUS
  <2>1. CASE Target
    BY <2>1, TargetImplements
  <2>2. CASE Host \/ Rerun \/ Fault \/ UNCHANGED vars
    <3>1. UNCHANGED targetVars
      BY <2>2 DEF Host, Rerun, Fault, vars, targetVars
    <3>. QED
      BY <3>1, UploadStutters
  <2>. QED
    BY <2>1, <2>2 DEF Next
<1>. QED
  BY <1>1, UploadInit, Invariance, PTL DEF Spec, ImplementsUpload, Upload!Spec

-----------------------------------------------------------------------------
(* Where the elements of a changed sequence come from.                     *)

LEMMA ConcatElement ==
  ASSUME NEW T, NEW q \in Seq(T), NEW r \in Seq(T), NEW i \in DOMAIN (q \o r)
  PROVE  \/ i \in DOMAIN q /\ (q \o r)[i] = q[i]
         \/ i - Len(q) \in DOMAIN r /\ i > Len(q) /\ (q \o r)[i] = r[i - Len(q)]
<1>1. Len(q) \in Nat /\ Len(r) \in Nat /\ DOMAIN q = 1..Len(q) /\ DOMAIN r = 1..Len(r)
  OBVIOUS
<1>2. i \in 1..(Len(q) + Len(r))
  BY ConcatProperties
<1>3. (q \o r)[i] = IF i <= Len(q) THEN q[i] ELSE r[i - Len(q)]
  BY <1>1, <1>2, ConcatProperties
<1>. QED
  BY <1>1, <1>2, <1>3

LEMMA TailElement ==
  ASSUME NEW T, NEW q \in Seq(T), q # <<>>, NEW i \in DOMAIN Tail(q)
  PROVE  i \in Nat \ {0} /\ i + 1 \in DOMAIN q /\ Tail(q)[i] = q[i + 1]
  OBVIOUS

LEMMA SuffixLength ==
  ASSUME NEW T, NEW q \in Seq(T), NEW n \in 0..Len(q)
  PROVE  /\ SubSeq(q, n + 1, Len(q)) \in Seq(T)
         /\ Len(SubSeq(q, n + 1, Len(q))) = Len(q) - n
  OBVIOUS

LEMMA SuffixElement ==
  ASSUME NEW T, NEW q \in Seq(T), NEW n \in 0..Len(q),
         NEW i \in DOMAIN SubSeq(q, n + 1, Len(q))
  PROVE  /\ i \in Nat /\ i + n \in DOMAIN q
         /\ SubSeq(q, n + 1, Len(q))[i] = q[i + n]
<1>1. Len(q) \in Nat /\ DOMAIN q = 1..Len(q)
  OBVIOUS
<1>2. i \in 1..(Len(q) - n)
  BY <1>1
<1>3. SubSeq(q, n + 1, Len(q))[i] = q[n + i]
  BY <1>1, <1>2
<1>4. n + i = i + n /\ i + n \in 1..Len(q)
  BY <1>1, <1>2
<1>. QED
  BY <1>1, <1>2, <1>3, <1>4

(* Behind a lost element every element moves up by one place.              *)
LEMMA WithoutElement ==
  ASSUME NEW T, NEW q \in Seq(T), NEW k \in DOMAIN q, NEW i \in DOMAIN Without(q, k)
  PROVE  \/ i < k /\ i \in DOMAIN q /\ Without(q, k)[i] = q[i]
         \/ i >= k /\ i + 1 \in DOMAIN q /\ Without(q, k)[i] = q[i + 1]
<1>1. k \in 1..Len(q) /\ Len(q) \in Nat /\ DOMAIN q = 1..Len(q)
  OBVIOUS
<1>. DEFINE a == SubSeq(q, 1, k - 1)
            b == SubSeq(q, k + 1, Len(q))
<1>2. a \in Seq(T) /\ Len(a) = k - 1 /\ \A j \in 1..(k - 1) : a[j] = q[j]
  BY <1>1
<1>3. b \in Seq(T) /\ Len(b) = Len(q) - k /\ \A j \in 1..(Len(q) - k) : b[j] = q[k + j]
  <2>1. b \in Seq(T) /\ Len(b) = Len(q) - k
    BY <1>1, SuffixLength
  <2>2. ASSUME NEW j \in 1..(Len(q) - k) PROVE b[j] = q[k + j]
    <3>1. j \in DOMAIN b
      BY <2>1
    <3>0. k \in 0..Len(q)
      BY <1>1
    <3>2. j \in Nat /\ k \in 0..Len(q) /\ b[j] = q[j + k]
      BY <3>0, <3>1, SuffixElement, Zenon
    <3>3. k + j = j + k
      BY <1>1, <3>2
    <3>. QED
      BY <3>2, <3>3
  <2>. QED
    BY <2>1, <2>2
<1>4. Without(q, k) = a \o b
  BY DEF Without
<1>. HIDE DEF a, b
<1>5. i \in DOMAIN (a \o b)
  BY <1>4
<1>6. \/ i \in DOMAIN a /\ (a \o b)[i] = a[i]
      \/ i - Len(a) \in DOMAIN b /\ i > Len(a) /\ (a \o b)[i] = b[i - Len(a)]
  BY <1>2, <1>3, <1>5, ConcatElement
<1>7. DOMAIN a = 1..(k - 1) /\ DOMAIN b = 1..(Len(q) - k)
  BY <1>2, <1>3
<1>8. CASE i \in DOMAIN a /\ (a \o b)[i] = a[i]
  BY <1>1, <1>2, <1>4, <1>7, <1>8
<1>9. CASE i - Len(a) \in DOMAIN b /\ i > Len(a) /\ (a \o b)[i] = b[i - Len(a)]
  <2>1. i \in 1..(Len(a) + Len(b))
    BY <1>2, <1>3, <1>5, ConcatProperties
  <2>2. i \in Int /\ Len(a) \in Int
    BY <1>1, <1>2, <1>3, <2>1
  <2>3. i - (k - 1) \in 1..(Len(q) - k) /\ k + (i - (k - 1)) = i + 1
    BY <1>1, <1>2, <1>7, <1>9, <2>2
  <2>4. (a \o b)[i] = q[i + 1]
    BY <1>2, <1>3, <1>9, <2>3
  <2>5. i + 1 \in 1..Len(q) /\ i >= k
    BY <1>1, <2>2, <2>3
  <2>. QED
    BY <1>1, <1>4, <2>4, <2>5
<1>. QED
  BY <1>6, <1>8, <1>9

-----------------------------------------------------------------------------
(* What the target says and reads, action by action.                       *)

(* A line that waits for the tool was there before, or was just printed to a
   tool that listens.                                                      *)
LEMMA SaidLine ==
  ASSUME TypeOK, NEW lines \in Seq(HostLine), Say(lines), NEW i \in DOMAIN toHost'
  PROVE  \/ i \in DOMAIN toHost /\ toHost'[i] = toHost[i]
         \/ /\ host \notin {"done", "failed"}
            /\ toHost' = toHost \o lines
            /\ i > Len(toHost) /\ i - Len(toHost) \in DOMAIN lines
            /\ toHost'[i] = lines[i - Len(toHost)]
<1>1. CASE host \in {"done", "failed"}
  BY <1>1 DEF Say
<1>2. CASE host \notin {"done", "failed"}
  <2>1. toHost' = toHost \o lines /\ toHost \in Seq(HostLine)
    BY <1>2 DEF Say, TypeOK
  <2>2. i \in DOMAIN (toHost \o lines)
    BY <2>1
  <2>3. \/ i \in DOMAIN toHost /\ (toHost \o lines)[i] = toHost[i]
        \/ /\ i - Len(toHost) \in DOMAIN lines /\ i > Len(toHost)
           /\ (toHost \o lines)[i] = lines[i - Len(toHost)]
    BY <2>1, <2>2, ConcatElement
  <2>. QED
    BY <1>2, <2>1, <2>3
<1>. QED
  BY <1>1, <1>2

(* ... so a text that was not just printed was there before.               *)
LEMMA SaidText ==
  ASSUME TypeOK, NEW lines \in Seq(HostLine), Say(lines), NEW i \in DOMAIN toHost',
         \A j \in DOMAIN lines : lines[j].text # toHost'[i].text
  PROVE  i \in DOMAIN toHost /\ toHost'[i] = toHost[i]
  BY SaidLine

(* A frame is answered by one line that numbers a frame stored by then.    *)
Answers ==
  /\ phase = "frames" /\ phase' = "frames"
  /\ expected' \in {expected, expected + 1}
  /\ Consume(Head(toTarget).length + 1)
  /\ \E t \in {"ACK", "NACK"}, s \in Nat :
       Say(<<Status(t, s)>>) /\ (t = "ACK" => s < expected')
  /\ executed' = executed

LEMMA FrameAnswered ==
  ASSUME TypeOK, DuplicateFrame \/ RejectFrame \/ AcceptFrame
  PROVE  Answers
<1>1. expected \in Nat /\ phase = "frames" /\ Head(toTarget).sequence \in Nat
  BY FrameHead DEF TypeOK, FrameComplete, DuplicateFrame, RejectFrame, AcceptFrame
<1>2. CASE DuplicateFrame
  <2>1. Head(toTarget).sequence < expected
    BY <1>1, <1>2 DEF DuplicateFrame, IsDuplicate
  <2>. QED
    BY <1>1, <1>2, <2>1 DEF DuplicateFrame, Answers, targetVars
<1>3. CASE RejectFrame
  BY <1>1, <1>3 DEF RejectFrame, Answers, targetVars
<1>4. CASE AcceptFrame
  <2>1. expected' = expected + 1 /\ expected < expected'
    BY <1>1, <1>4 DEF AcceptFrame
  <2>2. phase' = phase /\ executed' = executed
    BY <1>4 DEF AcceptFrame
  <2>3. Consume(Head(toTarget).length + 1) /\ Say(<<Status("ACK", expected)>>)
    BY <1>4 DEF AcceptFrame
  <2>. QED
    BY <1>1, <2>1, <2>2, <2>3 DEF Answers
<1>. QED
  BY <1>2, <1>3, <1>4

(* Every step of the target is one of these five.                          *)
LEMMA TargetCases ==
  ASSUME TypeOK, Target
  PROVE  \/ AcceptHeader
         \/ \E n \in Nat : Abort(n)
         \/ Answers
         \/ ExecuteImage
         \/ PayloadReturns
<1>1. CASE RejectHeader \/ TransferTimeout \/ InvalidFrame \/ RejectImage
  BY <1>1 DEF RejectHeader, TransferTimeout, InvalidFrame, RejectImage
<1>2. CASE DuplicateFrame \/ RejectFrame \/ AcceptFrame
  BY <1>2, FrameAnswered
<1>. QED
  BY <1>1, <1>2 DEF Target, TargetStep

(* Every step of the tool hears the first line, drops all of them, or leaves
   them where they are.                                                    *)
LEMMA HostHears ==
  ASSUME Host
  PROVE  \/ toHost # <<>> /\ Head(toHost) # AbortLine /\ NextLine
         \/ toHost' = <<>> /\ host' \in {"failed", "done"}
         \/ Resend /\ UNCHANGED toHost
<1>1. CASE SendHeader \/ SendFirstFrame \/ SendNextFrame \/ AllFramesSent \/ HearVerified
  BY <1>1 DEF SendHeader, SendFirstFrame, SendNextFrame, AllFramesSent, HearVerified,
              SendFrame, AckHeard, Heard, AbortLine, Ready, Line, Status
<1>2. CASE HearExec \/ HearAbort
  BY <1>2 DEF HearExec, HearAbort, Fail
<1>3. CASE HearNack
  BY <1>3 DEF HearNack, Fail, Heard, AbortLine, Line, Status
<1>4. CASE IgnoreLine
  BY <1>4 DEF IgnoreLine, Expecting
<1>5. CASE HostTimeout
  BY <1>5 DEF HostTimeout, Fail
<1>. QED
  BY <1>1, <1>2, <1>3, <1>4, <1>5 DEF Host, HostStep

-----------------------------------------------------------------------------
(* Success is told only to a run whose image was executed.  EXEC may be on
   its way for long, so the invariant speaks of the line as well.          *)

ExecTold == \A i \in DOMAIN toHost : toHost[i].text = "EXEC" => executed

TellsSound == ExecTold /\ HostSound

LEMMA InitTells == Init => TellsSound
  BY DEF Init, TellsSound, ExecTold, HostSound, Ready, Line

(* Lines that do not say EXEC leave what is told as it is.                 *)
LEMMA SaysNoExec ==
  ASSUME TypeOK, ExecTold, NEW lines \in Seq(HostLine), Say(lines),
         \A j \in DOMAIN lines : lines[j].text # "EXEC",
         executed' = executed
  PROVE  ExecTold'
<1>. SUFFICES ASSUME NEW i \in DOMAIN toHost', toHost'[i].text = "EXEC"
              PROVE  executed'
  BY DEF ExecTold
<1>1. i \in DOMAIN toHost /\ toHost'[i] = toHost[i]
  BY SaidText
<1>. QED
  BY <1>1 DEF ExecTold

LEMMA SomeLines ==
  ASSUME NEW a \in HostLine, NEW b \in HostLine
  PROVE  /\ <<a>> \in Seq(HostLine) /\ <<a, b>> \in Seq(HostLine)
         /\ \A j \in DOMAIN <<a>> : <<a>>[j] = a
         /\ \A j \in DOMAIN <<a, b>> : j \in {1, 2} /\ <<a, b>>[j] \in {a, b}
  OBVIOUS

LEMMA SaysOneElse ==
  ASSUME TypeOK, ExecTold, executed' = executed,
         NEW a \in HostLine, a.text # "EXEC", Say(<<a>>)
  PROVE  ExecTold'
<1>1. <<a>> \in Seq(HostLine) /\ \A j \in DOMAIN <<a>> : <<a>>[j].text # "EXEC"
  BY SomeLines
<1>. QED
  BY <1>1, SaysNoExec

LEMMA SaysTwoElse ==
  ASSUME TypeOK, ExecTold, executed' = executed,
         NEW a \in HostLine, NEW b \in HostLine,
         a.text # "EXEC", b.text # "EXEC", Say(<<a, b>>)
  PROVE  ExecTold'
<1>1. <<a, b>> \in Seq(HostLine)
  BY SomeLines
<1>2. \A j \in DOMAIN <<a, b>> : <<a, b>>[j].text # "EXEC"
  <2>1. \A j \in DOMAIN <<a, b>> : <<a, b>>[j] \in {a, b}
    BY SomeLines
  <2>. QED
    BY <2>1
<1>. QED
  BY <1>1, <1>2, SaysNoExec

LEMMA TargetTells ==
  ASSUME TypeOK, TellsSound, Target
  PROVE  TellsSound'
<1>1. host' = host
  BY DEF Target, hostVars
<1>2. CASE AcceptHeader
  <2>1. Say(<<Line("HEADER-ACK")>>) /\ executed' = executed
    BY <1>2 DEF AcceptHeader
  <2>2. ExecTold'
    <3>1. Line("HEADER-ACK") \in HostLine /\ Line("HEADER-ACK").text # "EXEC"
      BY LineTypes DEF Line
    <3>. QED
      BY <2>1, <3>1, SaysOneElse DEF TellsSound
  <2>. QED
    BY <1>1, <2>1, <2>2 DEF TellsSound, HostSound
<1>3. CASE \E n \in Nat : Abort(n)
  <2>1. Say(<<AbortLine, Ready>>) /\ executed' = executed
    BY <1>3 DEF Abort
  <2>2. ExecTold'
    <3>1. AbortLine.text # "EXEC" /\ Ready.text # "EXEC"
      BY DEF AbortLine, Ready, Line
    <3>. QED
      BY <2>1, <3>1, LineTypes, SaysTwoElse DEF TellsSound
  <2>. QED
    BY <1>1, <2>1, <2>2 DEF TellsSound, HostSound
<1>4. CASE Answers
  <2>1. PICK t \in {"ACK", "NACK"}, s \in Nat : Say(<<Status(t, s)>>)
    BY <1>4 DEF Answers
  <2>2. executed' = executed
    BY <1>4 DEF Answers
  <2>3. Status(t, s).text # "EXEC"
    BY DEF Status
  <2>4. ExecTold'
    BY <2>1, <2>2, <2>3, LineTypes, SaysOneElse DEF TellsSound
  <2>. QED
    BY <1>1, <2>2, <2>4 DEF TellsSound, HostSound
<1>5. CASE ExecuteImage
  BY <1>5 DEF ExecuteImage, TellsSound, ExecTold, HostSound
<1>6. CASE PayloadReturns
  <2>1. Say(<<Line("RETURNED"), Ready>>) /\ executed' = executed
    BY <1>6 DEF PayloadReturns
  <2>2. ExecTold'
    <3>1. /\ Line("RETURNED") \in HostLine /\ Line("RETURNED").text # "EXEC"
          /\ Ready.text # "EXEC"
      BY LineTypes DEF Ready, Line
    <3>. QED
      BY <2>1, <3>1, LineTypes, SaysTwoElse DEF TellsSound
  <2>. QED
    BY <1>1, <2>1, <2>2 DEF TellsSound, HostSound
<1>. QED
  BY <1>2, <1>3, <1>4, <1>5, <1>6, TargetCases

LEMMA HostTells ==
  ASSUME TypeOK, TellsSound, Host
  PROVE  TellsSound'
<1>1. executed' = executed
  BY DEF Host
<1>2. ExecTold'
  <2>1. CASE toHost # <<>> /\ NextLine
    BY <1>1, <2>1, TailElement DEF NextLine, TypeOK, TellsSound, ExecTold
  <2>2. CASE toHost' = <<>>
    BY <2>2 DEF ExecTold
  <2>3. CASE UNCHANGED toHost
    BY <1>1, <2>3 DEF TellsSound, ExecTold
  <2>. QED
    BY <2>1, <2>2, <2>3, HostHears
<1>3. HostSound'
  <2>. SUFFICES ASSUME host' = "done" PROVE executed
    BY <1>1 DEF HostSound
  <2>1. host = "done" \/ HearExec
    BY DEF Host, HostStep, HostTimeout, SendHeader, SendFirstFrame, SendNextFrame,
           SendFrame, AllFramesSent, HearVerified, HearNack, HearAbort, IgnoreLine,
           Resend, Fail, hostVars
  <2>2. CASE HearExec
    <3>1. toHost # <<>> /\ Head(toHost) = Line("EXEC") /\ toHost \in Seq(HostLine)
      BY <2>2 DEF HearExec, Heard, TypeOK
    <3>2. 1 \in DOMAIN toHost /\ toHost[1].text = "EXEC"
      BY <3>1 DEF Line
    <3>. QED
      BY <3>2 DEF TellsSound, ExecTold
  <2>. QED
    BY <2>1, <2>2 DEF TellsSound, HostSound
<1>. QED
  BY <1>2, <1>3 DEF TellsSound

(* The line forges no EXEC.                                                *)
LEMMA FaultTells ==
  ASSUME TypeOK, TellsSound, Fault
  PROVE  TellsSound'
<1>1. executed' = executed /\ host' = host
  BY DEF Fault, hostVars
<1>2. CASE UNCHANGED toHost
  BY <1>1, <1>2 DEF TellsSound, ExecTold, HostSound
<1>3. CASE LoseLine
  <2>1. PICK k \in DOMAIN toHost : toHost' = Without(toHost, k)
    BY <1>3 DEF LoseLine
  <2>2. \A i \in DOMAIN toHost' : \E j \in DOMAIN toHost : toHost'[i] = toHost[j]
    <3>1. toHost \in Seq(HostLine)
      BY DEF TypeOK
    <3>2. \A i \in DOMAIN Without(toHost, k) :
            \E j \in DOMAIN toHost : Without(toHost, k)[i] = toHost[j]
      BY <3>1, WithoutElement
    <3>. QED
      BY <2>1, <3>2
  <2>. QED
    BY <1>1, <2>2 DEF TellsSound, ExecTold, HostSound
<1>4. CASE ErodeLine
  <2>1. PICK k \in DOMAIN toHost :
          toHost' = [toHost EXCEPT ![k] = Status("ACK", toHost[k].sequence)]
    BY <1>4 DEF ErodeLine
  <2>2. \A i \in DOMAIN toHost' :
          i \in DOMAIN toHost /\ (toHost'[i] = toHost[i] \/ toHost'[i].text = "ACK")
    BY <2>1 DEF TypeOK, Status
  <2>. QED
    BY <1>1, <2>2 DEF TellsSound, ExecTold, HostSound
<1>. QED
  BY <1>2, <1>3, <1>4
     DEF Fault, LoseToken, DamageData, DamageHeader, DamageFrame

LEMMA TellsInvariance == Spec => [](TypeOK /\ TellsSound)
<1>1. TypeOK /\ TellsSound /\ [Next]_vars => TellsSound'
  <2>. SUFFICES ASSUME TypeOK, TellsSound, [Next]_vars PROVE TellsSound'
    OBVIOUS
  <2>1. CASE Rerun
    BY <2>1 DEF Rerun, TellsSound, ExecTold, HostSound
  <2>2. CASE UNCHANGED vars
    BY <2>2 DEF vars, TellsSound, ExecTold, HostSound
  <2>. QED
    BY <2>1, <2>2, TargetTells, HostTells, FaultTells DEF Next
<1>. QED
  BY <1>1, InitTells, TypeCorrect, PTL DEF Spec

(* The tool reports success only if its own run made the target execute the
   image, whatever the line loses and damages: no line of an earlier run, of
   a rejected image or of a damaged answer passes for the last marker.     *)
THEOREM SuccessEarned == Spec => []HostSound
<1>1. TellsSound => HostSound
  BY DEF TellsSound
<1>. QED
  BY <1>1, TellsInvariance, PTL

-----------------------------------------------------------------------------
(* Everything stored lies in its place.  A frame names its place only by its
   number, so the invariant follows the numbers: the tool sends frame s from
   place s * ChunkSize, every frame on the line is one it sent, and the target
   expects the frame that belongs where it has stored up to.               *)

Slot(s) == s * ChunkSize

SentFromSlot == offset = Slot(sequence)

FromSlot(t) ==
  /\ Slot(t.sequence) \in 0..(Size - 1)
  /\ t.length = FrameLength(Slot(t.sequence))
  /\ t.crc = CrcOf(Payload(Slot(t.sequence)))

FramesIntact ==
  \A i \in DOMAIN toTarget : toTarget[i].kind = "frame" => FromSlot(toTarget[i])

AtSlot == phase = "frames" => received = Size \/ received = Slot(expected)

InPlace ==
  phase # "ready" => \A i \in 1..received : mem[i] % CrcMod = Image[i] % CrcMod

HeadersKept == OnlyFaults(FaultKinds \ {"frame"})

PlaceInv == SentFromSlot /\ (HeadersKept => FramesIntact /\ AtSlot /\ InPlace)

LEMMA SlotNext ==
  ASSUME NEW s \in Nat
  PROVE  Slot(s) \in Nat /\ Slot(s + 1) = Slot(s) + ChunkSize /\ Slot(0) = 0
  BY DEF Slot

(* The faults of a step are those before it and perhaps one more.          *)
LEMMA FaultsKept ==
  ASSUME TypeOK, NEW kinds, OnlyFaults(kinds)',
         faults' = faults \/ \E k : Occurs(k)
  PROVE  /\ OnlyFaults(kinds)
         /\ \A k : Occurs(k) => k \in kinds
<1>1. faults \in Seq(FaultKinds)
  BY DEF TypeOK
<1>2. ASSUME NEW k, Occurs(k) PROVE OnlyFaults(kinds) /\ k \in kinds
  <2>1. faults' = Append(faults, k) /\ k \in FaultKinds
    BY <1>2 DEF Occurs
  <2>2. \A i \in DOMAIN faults' : faults'[i] \in kinds
    BY DEF OnlyFaults
  <2>3. /\ Len(faults) + 1 \in DOMAIN faults' /\ faults'[Len(faults) + 1] = k
        /\ \A i \in DOMAIN faults : i \in DOMAIN faults' /\ faults'[i] = faults[i]
    BY <1>1, <2>1
  <2>. QED
    BY <2>2, <2>3 DEF OnlyFaults
<1>. QED
  BY <1>2 DEF OnlyFaults

LEMMA InitPlace == Init => PlaceInv
<1>. SUFFICES ASSUME Init PROVE PlaceInv
  OBVIOUS
<1>1. SentFromSlot
  BY SlotNext DEF Init, SentFromSlot
<1>2. FramesIntact /\ AtSlot /\ InPlace
  BY DEF Init, FramesIntact, AtSlot, InPlace
<1>. QED
  BY <1>1, <1>2 DEF PlaceInv

(* What the tool sends for frame s from its place is intact.               *)
LEMMA FrameTokensIntact ==
  ASSUME NEW s \in Nat, Slot(s) \in 0..(Size - 1),
         NEW i \in DOMAIN FrameTokens(s, Slot(s)),
         FrameTokens(s, Slot(s))[i].kind = "frame"
  PROVE  FromSlot(FrameTokens(s, Slot(s))[i])
<1>. DEFINE o == Slot(s)
            head == FrameToken(TRUE, s, FrameLength(o), CrcOf(Payload(o)))
            body == [j \in 1..FrameLength(o) |-> DataToken(Payload(o)[j])]
<1>1. head \in Token
  BY PayloadType, CrcType DEF FrameToken, Token
<1>2. <<head>> \in Seq(Token) /\ Len(<<head>>) = 1 /\ <<head>>[1] = head
  BY <1>1, SingletonType, Zenon
<1>3. body \in [1..FrameLength(o) -> Token]
  BY PayloadType DEF DataToken, Token
<1>4. body \in Seq(Token) /\ Len(body) = FrameLength(o)
  <2>1. FrameLength(o) \in Nat
    BY PayloadType
  <2>. QED
    BY <1>3, <2>1, FunctionIsSeq, Zenon
<1>5. \A j \in DOMAIN body : body[j].kind = "data"
  BY DEF DataToken
<1>6. FrameTokens(s, o) = <<head>> \o body
  BY DEF FrameTokens
<1>7. FromSlot(head)
  BY DEF FromSlot, FrameToken
<1>. HIDE DEF head, body
<1>8. i \in DOMAIN (<<head>> \o body)
  BY <1>6
<1>9. \/ i \in DOMAIN <<head>> /\ (<<head>> \o body)[i] = <<head>>[i]
      \/ i - Len(<<head>>) \in DOMAIN body
           /\ (<<head>> \o body)[i] = body[i - Len(<<head>>)]
  BY <1>2, <1>4, <1>8, ConcatElement
<1>10. (<<head>> \o body)[i] = head
  BY <1>2, <1>5, <1>6, <1>9
<1>. QED
  BY <1>6, <1>7, <1>10

(* The line carries an intact frame if it carried it before.               *)
LEMMA FramesRemain ==
  ASSUME FramesIntact,
         \A i \in DOMAIN toTarget' :
           toTarget'[i].kind = "frame" =>
             \E j \in DOMAIN toTarget : toTarget'[i] = toTarget[j]
  PROVE  FramesIntact'
<1>. SUFFICES ASSUME NEW i \in DOMAIN toTarget', toTarget'[i].kind = "frame"
              PROVE  FromSlot(toTarget'[i])
  BY DEF FramesIntact, FromSlot
<1>. QED
  BY DEF FramesIntact

LEMMA ConsumeIntact ==
  ASSUME TypeOK, FramesIntact, NEW n \in 0..Len(toTarget), Consume(n)
  PROVE  FramesIntact'
<1>1. \A i \in DOMAIN toTarget' : \E j \in DOMAIN toTarget : toTarget'[i] = toTarget[j]
  BY SuffixElement DEF TypeOK, Consume
<1>. QED
  BY <1>1, FramesRemain

LEMMA SendIntact ==
  ASSUME TypeOK, FramesIntact, NEW tokens \in Seq(Token), Send(tokens),
         \A i \in DOMAIN tokens : tokens[i].kind = "frame" => FromSlot(tokens[i])
  PROVE  FramesIntact'
<1>. SUFFICES ASSUME NEW i \in DOMAIN toTarget', toTarget'[i].kind = "frame"
              PROVE  FromSlot(toTarget'[i])
  BY DEF FramesIntact, FromSlot
<1>1. toTarget \in Seq(Token) /\ toTarget' = toTarget \o tokens
  BY DEF TypeOK, Send
<1>2. \/ i \in DOMAIN toTarget /\ toTarget'[i] = toTarget[i]
      \/ i - Len(toTarget) \in DOMAIN tokens /\ toTarget'[i] = tokens[i - Len(toTarget)]
  BY <1>1, ConcatElement
<1>. QED
  BY <1>2 DEF FramesIntact

(* A frame that matches its CRC is as good as what the image has there.    *)
LEMMA FrameInPlace ==
  ASSUME TypeOK, FramesIntact, AtSlot, InPlace, AcceptFrame
  PROVE  AtSlot' /\ InPlace'
<1>. DEFINE h == Head(toTarget)
            n == h.length
            c == Chunk(n)
<1>1. /\ phase = "frames" /\ phase' = "frames" /\ received < Size
      /\ toTarget # <<>> /\ h.kind = "frame"
  BY DEF AcceptFrame, FrameComplete, FrameHeaderValid
<1>2. FromSlot(h)
  <2>1. 1 \in DOMAIN toTarget /\ toTarget[1] = h
    BY <1>1 DEF TypeOK
  <2>. QED
    BY <1>1, <2>1 DEF FramesIntact
<1>3. /\ h.sequence = expected /\ CrcOf(c) = h.crc
      /\ received' = received + n /\ expected' = expected + 1
  BY DEF AcceptFrame, FrameFits, FrameCrcMatches
<1>4. received = Slot(expected) /\ received \in 0..(Size - 1) /\ n = FrameLength(received)
  <2>1. received \in 0..Size /\ Size \in Nat
    BY SizeType DEF TypeOK
  <2>2. received = Slot(expected)
    BY <1>1, <2>1 DEF AtSlot
  <2>3. n = FrameLength(Slot(h.sequence))
    BY <1>2 DEF FromSlot
  <2>4. n = FrameLength(received)
    BY <1>3, <2>2, <2>3
  <2>5. received \in 0..(Size - 1)
    BY <1>1, <2>1
  <2>. QED
    BY <2>2, <2>4, <2>5
<1>5. AtSlot'
  <2>0. expected \in Nat /\ Size \in Nat /\ ChunkSize \in Nat
    BY SizeType DEF TypeOK
  <2>1. received' = Size \/ received' = Slot(expected + 1)
    <3>1. Slot(expected + 1) = received + ChunkSize
      BY <1>4, <2>0, SlotNext
    <3>2. received' = received + FrameLength(received)
      BY <1>3, <1>4
    <3>3. received + FrameLength(received) = received + ChunkSize
            \/ received + FrameLength(received) = Size
      BY <1>4, <2>0 DEF FrameLength
    <3>. QED
      BY <3>1, <3>2, <3>3
  <2>. QED
    BY <1>3, <2>1 DEF AtSlot, Slot, Size
<1>6. n \in Nat \ {0} /\ c \in Seq(Nat) /\ Len(c) = n
  BY FrameHead, ChunkType DEF AcceptFrame, TypeOK
<1>7. ASSUME NEW i \in 1..n
      PROVE  mem'[received + i] % CrcMod = Image[received + i] % CrcMod
  <2>1. CrcOf(c) = CrcOf(Payload(received))
    BY <1>2, <1>3, <1>4 DEF FromSlot
  <2>2. CrcOf(c)[i] = c[i] % CrcMod
    BY <1>6 DEF CrcOf
  <2>3. CrcOf(Payload(received))[i] = Image[received + i] % CrcMod
    BY <1>4, PayloadType DEF CrcOf, Payload
  <2>4. mem'[received + i] = c[i]
    <3>1. /\ received + i \in 1..Size
          /\ received + i \in (received + 1)..(received + n)
          /\ (received + i) - received = i
      <4>1. received + FrameLength(received) <= Size /\ Size \in Nat
        BY <1>4, PayloadType, SizeType
      <4>2. PICK m \in Nat : m = n /\ i \in 1..m /\ received + m <= Size
        BY <1>4, <1>6, <4>1
      <4>3. received \in Nat
        BY <1>4
      <4>4. received + i \in 1..Size /\ received + i \in (received + 1)..(received + m)
            /\ (received + i) - received = i
        BY <4>1, <4>2, <4>3
      <4>. QED
        BY <4>2, <4>4
    <3>2. mem' = [k \in 1..Size |-> IF k \in (received + 1)..(received + n)
                                    THEN c[k - received] ELSE mem[k]]
      BY DEF AcceptFrame
    <3>. HIDE DEF c, n
    <3>. QED
      BY <3>1, <3>2
  <2>. QED
    BY <2>1, <2>2, <2>3, <2>4
<1>8. InPlace'
  <2>. SUFFICES ASSUME NEW i \in 1..received'
                PROVE  mem'[i] % CrcMod = Image[i] % CrcMod
    BY DEF InPlace
  <2>. HIDE DEF n
  <2>1. i \in Int /\ 1 <= i /\ i <= received + n
    BY <1>3, <1>4, <1>6
  <2>2. CASE i <= received
    <3>1. i \in 1..received /\ mem'[i] = mem[i]
      BY <1>4, <2>1, <2>2, AcceptFrameEffect
    <3>. QED
      BY <1>1, <3>1 DEF InPlace
  <2>3. CASE received < i
    <3>1. i - received \in 1..n /\ received + (i - received) = i
      BY <1>4, <1>6, <2>1, <2>3
    <3>. QED
      BY <1>7, <3>1
  <2>. QED
    BY <1>4, <2>1, <2>2, <2>3
<1>. QED
  BY <1>5, <1>8

LEMMA TargetPlace ==
  ASSUME TypeOK, PlaceInv, Target
  PROVE  PlaceInv'
<1>1. UNCHANGED <<hostVars, faults>>
  BY DEF Target
<1>2. SentFromSlot'
  BY <1>1 DEF hostVars, PlaceInv, SentFromSlot, Slot
<1>3. SUFFICES ASSUME HeadersKept PROVE FramesIntact' /\ AtSlot' /\ InPlace'
  BY <1>1, <1>2 DEF PlaceInv, HeadersKept, OnlyFaults
<1>4. FramesIntact /\ AtSlot /\ InPlace
  BY <1>3 DEF PlaceInv
<1>5. Len(toTarget) \in Nat
  BY DEF TypeOK
<1>6. CASE AcceptHeader
  <2>1. 1 \in 0..Len(toTarget) /\ Consume(1)
    BY <1>5, <1>6 DEF AcceptHeader, TypeOK
  <2>2. received' = 0 /\ expected' = 0
    BY <1>6 DEF AcceptHeader
  <2>. QED
    BY <1>4, <2>1, <2>2, ConsumeIntact, SlotNext DEF AtSlot, InPlace, Slot
<1>7. CASE \E n \in Nat : Abort(n)
  <2>0. PICK n \in Nat : Abort(n)
    BY <1>7
  <2>1. PICK m \in n..Len(toTarget) : phase' = "ready" /\ Consume(m)
    BY <2>0 DEF Abort
  <2>2. m \in 0..Len(toTarget)
    BY <1>5, <2>1
  <2>. QED
    BY <1>4, <2>1, <2>2, ConsumeIntact DEF AtSlot, InPlace
<1>8. CASE DuplicateFrame \/ RejectFrame
  <2>1. UNCHANGED targetVars /\ Consume(Head(toTarget).length + 1) /\ FrameComplete
    BY <1>8 DEF DuplicateFrame, RejectFrame
  <2>. QED
    BY <1>4, <2>1, FrameHead, ConsumeIntact DEF targetVars, AtSlot, InPlace, Slot
<1>9. CASE AcceptFrame
  <2>1. Consume(Head(toTarget).length + 1) /\ FrameComplete
    BY <1>9 DEF AcceptFrame
  <2>. QED
    BY <1>4, <1>9, <2>1, FrameHead, ConsumeIntact, FrameInPlace
<1>10. CASE ExecuteImage
  BY <1>4, <1>10 DEF ExecuteImage, FramesIntact, FromSlot, AtSlot, InPlace
<1>11. CASE PayloadReturns
  <2>1. PICK m \in 0..Len(toTarget) : phase' = "ready" /\ Consume(m)
    BY <1>11 DEF PayloadReturns
  <2>. QED
    BY <1>4, <2>1, ConsumeIntact DEF AtSlot, InPlace
<1>12. CASE RejectHeader \/ TransferTimeout \/ InvalidFrame \/ RejectImage
  BY <1>7, <1>12 DEF RejectHeader, TransferTimeout, InvalidFrame, RejectImage
<1>. QED
  BY <1>6, <1>8, <1>9, <1>10, <1>11, <1>12 DEF Target, TargetStep

LEMMA OneToken ==
  ASSUME NEW a \in Token
  PROVE  /\ <<a>> \in Seq(Token) /\ DOMAIN <<a>> = {1}
         /\ \A i \in DOMAIN <<a>> : <<a>>[i] = a
  OBVIOUS

(* The tool sends each frame from its place.                               *)
LEMMA HostPlace ==
  ASSUME TypeOK, PlaceInv, Host
  PROVE  PlaceInv'
<1>1. UNCHANGED <<targetVars, faults>>
  BY DEF Host
<1>2. sequence \in Nat /\ offset \in 0..(Size - 1) /\ offset = Slot(sequence)
  BY DEF TypeOK, PlaceInv, SentFromSlot
<1>3. HeadersKept' = HeadersKept
  BY <1>1 DEF HeadersKept, OnlyFaults
<1>4. (AtSlot /\ InPlace) = (AtSlot /\ InPlace)'
  BY <1>1 DEF targetVars, AtSlot, InPlace, Slot
<1>5. ASSUME NEW s \in Nat, Slot(s) \in 0..(Size - 1), Send(FrameTokens(s, Slot(s))),
             FramesIntact
      PROVE  FramesIntact'
  <2>1. FrameTokens(s, Slot(s)) \in Seq(Token)
    BY <1>5, FrameTokensType
  <2>2. \A i \in DOMAIN FrameTokens(s, Slot(s)) :
          FrameTokens(s, Slot(s))[i].kind = "frame"
            => FromSlot(FrameTokens(s, Slot(s))[i])
    BY <1>5, FrameTokensIntact
  <2>. QED
    BY <1>5, <2>1, <2>2, SendIntact
<1>6. ASSUME NEW s \in Nat, Slot(s) \in 0..(Size - 1), SendFrame(s, Slot(s))
      PROVE  PlaceInv'
  <2>1. SentFromSlot' /\ (FramesIntact => FramesIntact')
    BY <1>5, <1>6 DEF SendFrame, SentFromSlot, Slot
  <2>. QED
    BY <1>3, <1>4, <2>1 DEF PlaceInv
<1>7. CASE SendFirstFrame
  <2>1. Slot(0) = 0 /\ 0 \in 0..(Size - 1) /\ 0 \in Nat
    BY SlotNext, SizeType
  <2>. QED
    BY <1>6, <1>7, <2>1 DEF SendFirstFrame
<1>8. CASE SendNextFrame
  <2>1. Slot(sequence + 1) = offset + ChunkSize /\ sequence + 1 \in Nat
    BY <1>2, SlotNext
  <2>2. offset + ChunkSize \in 0..(Size - 1)
    BY <1>2, <1>8, NextOffsetType DEF SendNextFrame, LastFrame
  <2>. QED
    BY <1>6, <1>8, <2>1, <2>2 DEF SendNextFrame
<1>9. ASSUME UNCHANGED <<sequence, offset, toTarget>> PROVE PlaceInv'
  BY <1>3, <1>4, <1>9 DEF PlaceInv, SentFromSlot, FramesIntact, FromSlot, Slot
<1>10. CASE SendHeader
  <2>1. Send(<<HeaderToken(TRUE)>>) /\ UNCHANGED <<sequence, offset>>
    BY <1>10 DEF SendHeader
  <2>2. HeaderToken(TRUE) \in Token /\ HeaderToken(TRUE).kind # "frame"
    BY DEF HeaderToken, Token
  <2>3. /\ <<HeaderToken(TRUE)>> \in Seq(Token)
        /\ \A i \in DOMAIN <<HeaderToken(TRUE)>> :
              <<HeaderToken(TRUE)>>[i] = HeaderToken(TRUE)
    BY <2>2, OneToken, Zenon
  <2>4. FramesIntact => FramesIntact'
    BY <2>1, <2>2, <2>3, SendIntact
  <2>5. SentFromSlot'
    BY <1>2, <2>1 DEF SentFromSlot, Slot
  <2>. QED
    BY <1>3, <1>4, <2>4, <2>5 DEF PlaceInv
<1>11. ASSUME Resend PROVE PlaceInv'
  <2>1. FramesIntact => FramesIntact'
    BY <1>2, <1>5, <1>11 DEF Resend
  <2>2. SentFromSlot'
    BY <1>2, <1>11 DEF Resend, SentFromSlot, Slot
  <2>. QED
    BY <1>3, <1>4, <2>1, <2>2 DEF PlaceInv
<1>12. CASE AllFramesSent \/ HearVerified \/ HearExec \/ HearAbort \/ IgnoreLine
  BY <1>9, <1>12 DEF AllFramesSent, HearVerified, HearExec, HearAbort, IgnoreLine,
                     Fail, hostVars
<1>13. CASE HearNack \/ HostTimeout
  BY <1>9, <1>11, <1>13 DEF HearNack, HostTimeout, Fail
<1>. QED
  BY <1>7, <1>8, <1>10, <1>12, <1>13 DEF Host, HostStep

(* The line loses frames and damages data, but no frame header.            *)
LEMMA FaultPlace ==
  ASSUME TypeOK, PlaceInv, Fault
  PROVE  PlaceInv'
<1>1. UNCHANGED <<targetVars, hostVars>>
  BY DEF Fault
<1>2. SentFromSlot'
  BY <1>1 DEF hostVars, PlaceInv, SentFromSlot, Slot
<1>3. SUFFICES ASSUME HeadersKept' PROVE FramesIntact' /\ AtSlot' /\ InPlace'
  BY <1>2 DEF PlaceInv
<1>4. \E k : Occurs(k)
  BY DEF Fault, LoseToken, DamageData, DamageHeader, DamageFrame, LoseLine, ErodeLine
<1>5. HeadersKept /\ ~Occurs("frame")
  BY <1>3, <1>4, FaultsKept DEF HeadersKept
<1>6. FramesIntact /\ AtSlot /\ InPlace
  BY <1>5 DEF PlaceInv
<1>7. AtSlot' /\ InPlace'
  BY <1>1, <1>6 DEF targetVars, AtSlot, InPlace, Slot
<1>8. toTarget \in Seq(Token)
  BY DEF TypeOK
<1>9. CASE LoseToken
  <2>1. PICK k \in DOMAIN toTarget : toTarget' = Without(toTarget, k)
    BY <1>9 DEF LoseToken
  <2>2. \A i \in DOMAIN Without(toTarget, k) :
          \E j \in DOMAIN toTarget : Without(toTarget, k)[i] = toTarget[j]
    BY <1>8, WithoutElement
  <2>. QED
    BY <1>6, <1>7, <2>1, <2>2, FramesRemain
<1>10. CASE DamageData \/ DamageHeader
  <2>0. PICK k \in DOMAIN toTarget : \E t : t.kind # "frame" /\ Replace(k, t)
    BY <1>10 DEF DamageData, DamageHeader, DataToken, HeaderToken
  <2>1. PICK t : k \in DOMAIN toTarget /\ t.kind # "frame" /\ Replace(k, t)
    BY <2>0
  <2>2. \A i \in DOMAIN toTarget' :
          i \in DOMAIN toTarget /\ (toTarget'[i] = toTarget[i] \/ toTarget'[i] = t)
    BY <2>1 DEF Replace
  <2>3. \A i \in DOMAIN toTarget' :
          toTarget'[i].kind = "frame" =>
            \E j \in DOMAIN toTarget : toTarget'[i] = toTarget[j]
    BY <2>1, <2>2
  <2>. QED
    BY <1>6, <1>7, <2>3, FramesRemain
<1>11. CASE LoseLine \/ ErodeLine
  BY <1>6, <1>7, <1>11 DEF LoseLine, ErodeLine, FramesIntact, FromSlot
<1>. QED
  BY <1>5, <1>9, <1>10, <1>11 DEF Fault, DamageFrame

LEMMA PlaceInvariance == Spec => [](TypeOK /\ PlaceInv)
<1>1. TypeOK /\ PlaceInv /\ [Next]_vars => PlaceInv'
  <2>. SUFFICES ASSUME TypeOK, PlaceInv, [Next]_vars PROVE PlaceInv'
    OBVIOUS
  <2>1. CASE Rerun
    <3>1. SentFromSlot'
      BY <2>1, SlotNext DEF Rerun, SentFromSlot, Slot
    <3>. QED
      BY <2>1, <3>1 DEF Rerun, PlaceInv, targetVars, HeadersKept, OnlyFaults,
                        FramesIntact, FromSlot, AtSlot, InPlace, Slot
  <2>2. CASE UNCHANGED vars
    BY <2>2 DEF vars, PlaceInv, SentFromSlot, HeadersKept, OnlyFaults, FramesIntact,
                FromSlot, AtSlot, InPlace, Slot
  <2>. QED
    BY <2>1, <2>2, TargetPlace, HostPlace, FaultPlace DEF Next
<1>. QED
  BY <1>1, InitPlace, TypeCorrect, PTL DEF Spec

(* As long as frame headers arrive intact, everything in memory has the CRC
   of the part of the image that belongs there, before the image CRC and the
   digest are looked at.                                                   *)
THEOREM EachInItsPlace == Spec => []StoredInPlace
<1>1. PlaceInv => StoredInPlace
  BY DEF PlaceInv, StoredInPlace, HeadersKept, InPlace
<1>. QED
  BY <1>1, PlaceInvariance, PTL

-----------------------------------------------------------------------------
(* The tool never runs ahead of the target.  An ACK names a frame but no
   transfer, so what carries the proof is that there is one transfer at a
   time: the right to open one is a READY that no ABORT stands before, then
   the header sent for it, then the open transfer.  A lost ABORT would give it
   twice, which is why no line but an ACK or NACK may be lost once the tool
   has been started again; its first run sends one header whatever is lost. *)

HeaderAt(i) == toTarget[i].kind = "header" /\ toTarget[i].valid
NoHeader == \A i \in DOMAIN toTarget : ~HeaderAt(i)
OneHeader == \A i, j \in DOMAIN toTarget : HeaderAt(i) /\ HeaderAt(j) => i = j

FreshReady(p) ==
  toHost[p].text = "READY" /\ \A q \in 1..(p - 1) : toHost[q].text # "ABORT"

(* Behind the first p lines nothing is said of a transfer.                 *)
OfTransfer == {"HEADER-ACK", "ACK", "NACK"}
Still(p) == \A q \in DOMAIN toHost : q > p => toHost[q].text \notin OfTransfer

AtRest == phase = "ready" /\ NoHeader

NoLineLost == OnlyFaults(FaultKinds \ {"line"})
Followed == runs > 1 => NoLineLost

(* A header on the line finds the target at rest, and the tool that sent it
   still waits for its answer, or has given up or was started again since. *)
OneTransfer ==
  /\ OneHeader
  /\ phase # "ready" => NoHeader
  /\ ~NoHeader => host \in {"ready", "header-ack", "failed"} /\ Still(0)

FirstRun == host = "ready" => AtRest /\ Still(0)

ReadyAtRest ==
  \A p \in DOMAIN toHost : FreshReady(p) =>
    /\ AtRest /\ Still(p)
    /\ \A q \in DOMAIN toHost : FreshReady(q) => p = q

AcksStored ==
  phase = "frames" =>
    /\ \A q \in DOMAIN toHost :
         toHost[q].text = "ACK" => toHost[q].sequence < expected
    /\ host = "ack" => sequence <= expected

TurnsInv ==
  /\ Followed => OneTransfer
  /\ runs = 1 => FirstRun
  /\ NoLineLost => ReadyAtRest
  /\ TransfersTold => AcksStored

LEMMA InitTurns == Init => TurnsInv
<1>. SUFFICES ASSUME Init PROVE TurnsInv
  OBVIOUS
<1>1. NoHeader /\ OneHeader
  BY DEF Init, NoHeader, OneHeader
<1>2. DOMAIN toHost = {1} /\ toHost[1] = Ready
  BY DEF Init
<1>3. Still(0) /\ Still(1)
  BY <1>2 DEF Still, OfTransfer, Ready, Line
<1>. QED
  BY <1>1, <1>2, <1>3
     DEF Init, TurnsInv, OneTransfer, FirstRun, AtRest, ReadyAtRest, AcksStored

-----------------------------------------------------------------------------
(* What becomes of the headers on the line.                                *)

FewerHeaders == (NoHeader => NoHeader') /\ (OneHeader => OneHeader')

LEMMA ConsumedHeaders ==
  ASSUME TypeOK, NEW n \in 0..Len(toTarget), Consume(n)
  PROVE  FewerHeaders
<1>1. \A i \in DOMAIN toTarget' :
        i \in Nat /\ i + n \in DOMAIN toTarget /\ toTarget'[i] = toTarget[i + n]
  BY SuffixElement DEF TypeOK, Consume
<1>2. \A i \in DOMAIN toTarget' :
        i + n \in DOMAIN toTarget /\ (HeaderAt(i)' <=> HeaderAt(i + n))
  BY <1>1 DEF HeaderAt
<1>3. \A i, j \in DOMAIN toTarget' : i + n = j + n => i = j
  BY <1>1
<1>. QED
  BY <1>2, <1>3 DEF FewerHeaders, NoHeader, OneHeader

(* Behind a header that opens a transfer there is no other.                *)
LEMMA HeaderConsumed ==
  ASSUME TypeOK, OneHeader, toTarget # <<>>, HeaderAt(1), Consume(1)
  PROVE  NoHeader'
<1>1. 1 \in 0..Len(toTarget) /\ 1 \in DOMAIN toTarget
  BY DEF TypeOK
<1>2. \A i \in DOMAIN toTarget' :
        i \in Nat /\ i + 1 \in DOMAIN toTarget /\ toTarget'[i] = toTarget[i + 1]
  BY <1>1, SuffixElement DEF TypeOK, Consume
<1>3. ASSUME NEW i \in DOMAIN toTarget', HeaderAt(i)' PROVE FALSE
  <2>1. i + 1 \in DOMAIN toTarget /\ HeaderAt(i + 1)
    BY <1>2, <1>3 DEF HeaderAt
  <2>2. i + 1 = 1
    BY <1>1, <2>1 DEF OneHeader
  <2>3. i \in DOMAIN toTarget' /\ i = 0 /\ toTarget' \in Seq(Token)
    BY <1>1, <1>2, <1>3, <2>2, ConsumeType
  <2>. QED
    BY <2>3
<1>. QED
  BY <1>3 DEF NoHeader

LEMMA SentHeaders ==
  ASSUME TypeOK, NEW tokens \in Seq(Token), Send(tokens),
         \A i \in DOMAIN tokens : tokens[i].kind # "header"
  PROVE  FewerHeaders
<1>1. toTarget \in Seq(Token) /\ toTarget' = toTarget \o tokens
  BY DEF TypeOK, Send
<1>2. ASSUME NEW i \in DOMAIN toTarget', HeaderAt(i)'
      PROVE  i \in DOMAIN toTarget /\ HeaderAt(i)
  <2>1. \/ i \in DOMAIN toTarget /\ toTarget'[i] = toTarget[i]
        \/ i - Len(toTarget) \in DOMAIN tokens
             /\ toTarget'[i] = tokens[i - Len(toTarget)]
    BY <1>1, ConcatElement
  <2>. QED
    BY <1>2, <2>1 DEF HeaderAt
<1>. QED
  BY <1>2 DEF FewerHeaders, NoHeader, OneHeader

LEMMA SameHeaders ==
  ASSUME UNCHANGED toTarget
  PROVE  FewerHeaders
  BY DEF FewerHeaders, NoHeader, OneHeader, HeaderAt

LEMMA LostHeaders ==
  ASSUME TypeOK, NEW k \in DOMAIN toTarget, toTarget' = Without(toTarget, k)
  PROVE  FewerHeaders
<1>1. toTarget \in Seq(Token) /\ k \in Nat
  BY DEF TypeOK
<1>2. ASSUME NEW i \in DOMAIN toTarget'
      PROVE  \/ i < k /\ i \in DOMAIN toTarget /\ (HeaderAt(i)' <=> HeaderAt(i))
             \/ i >= k /\ i + 1 \in DOMAIN toTarget /\ (HeaderAt(i)' <=> HeaderAt(i + 1))
  BY <1>1, WithoutElement DEF HeaderAt
<1>3. \A i \in DOMAIN toTarget' : i \in Nat
  <2>1. toTarget' \in Seq(Token)
    BY <1>1, WithoutType
  <2>. QED
    BY <2>1
<1>4. NoHeader => NoHeader'
  BY <1>2 DEF NoHeader
<1>5. ASSUME OneHeader, NEW i \in DOMAIN toTarget', NEW j \in DOMAIN toTarget',
             HeaderAt(i)', HeaderAt(j)'
      PROVE  i = j
  <2>1. i \in Nat /\ j \in Nat
    BY <1>3
  <2>2. \/ i < k /\ i \in DOMAIN toTarget /\ HeaderAt(i)
        \/ i >= k /\ i + 1 \in DOMAIN toTarget /\ HeaderAt(i + 1)
    BY <1>2, <1>5
  <2>3. \/ j < k /\ j \in DOMAIN toTarget /\ HeaderAt(j)
        \/ j >= k /\ j + 1 \in DOMAIN toTarget /\ HeaderAt(j + 1)
    BY <1>2, <1>5
  <2>4. (i < k /\ j < k /\ i = j) \/ (i < k /\ j >= k /\ i = j + 1)
          \/ (i >= k /\ j < k /\ i + 1 = j) \/ (i >= k /\ j >= k /\ i + 1 = j + 1)
    BY <1>5, <2>2, <2>3 DEF OneHeader
  <2>. QED
    BY <1>1, <2>1, <2>4
<1>. QED
  BY <1>4, <1>5 DEF FewerHeaders, OneHeader

LEMMA DamagedHeaders ==
  ASSUME TypeOK, NEW k \in DOMAIN toTarget, NEW t, Replace(k, t),
         ~(t.kind = "header" /\ t.valid)
  PROVE  FewerHeaders
<1>1. \A i \in DOMAIN toTarget' :
        i \in DOMAIN toTarget /\ (toTarget'[i] = toTarget[i] \/ toTarget'[i] = t)
  BY DEF Replace
<1>. QED
  BY <1>1 DEF FewerHeaders, NoHeader, OneHeader, HeaderAt

-----------------------------------------------------------------------------
(* What becomes of the lines the tool has not heard yet.                   *)

(* Everything said was said before, in the same order, and no ABORT is gone. *)
LinesKept ==
  /\ Still(0) => Still(0)'
  /\ \A q \in DOMAIN toHost' : toHost'[q].text = "ACK" =>
       \E r \in DOMAIN toHost : toHost'[q] = toHost[r]
  /\ ReadyAtRest /\ (AtRest => AtRest') => ReadyAtRest'

LEMMA LinesDropped ==
  ASSUME toHost' = <<>>
  PROVE  LinesKept
  BY DEF LinesKept, Still, ReadyAtRest

LEMMA LinesSame ==
  ASSUME UNCHANGED toHost
  PROVE  LinesKept
  BY DEF LinesKept, Still, ReadyAtRest, FreshReady

LEMMA FirstHeard ==
  ASSUME TypeOK, toHost # <<>>, NextLine, Head(toHost) # AbortLine
  PROVE  /\ Still(1) => Still(0)'
         /\ \A p \in DOMAIN toHost' :
              /\ p \in Nat \ {0} /\ p + 1 \in DOMAIN toHost
              /\ toHost'[p] = toHost[p + 1]
              /\ FreshReady(p)' => FreshReady(p + 1)
              /\ Still(p + 1) => Still(p)'
<1>1. toHost \in Seq(HostLine) /\ toHost' = Tail(toHost)
  BY DEF TypeOK, NextLine
<1>2. \A p \in DOMAIN toHost' :
        p \in Nat \ {0} /\ p + 1 \in DOMAIN toHost /\ toHost'[p] = toHost[p + 1]
  BY <1>1, TailElement
<1>3. toHost[1].text # "ABORT"
  BY <1>1 DEF HostLine, AbortLine, Line
<1>4. ASSUME NEW p \in DOMAIN toHost', FreshReady(p)'
      PROVE  FreshReady(p + 1)
  <2>1. p \in Nat \ {0} /\ toHost[p + 1].text = "READY"
    BY <1>2, <1>4 DEF FreshReady
  <2>2. ASSUME NEW q \in 1..((p + 1) - 1) PROVE toHost[q].text # "ABORT"
    <3>1. CASE q = 1
      BY <1>3, <3>1
    <3>2. CASE q # 1
      <4>1. q - 1 \in 1..(p - 1) /\ (q - 1) + 1 = q
        BY <2>1, <3>2
      <4>2. q - 1 \in DOMAIN toHost'
        <5>1. DOMAIN toHost' = 1..(Len(toHost) - 1) /\ Len(toHost) \in Nat
          BY <1>1
        <5>. QED
          BY <2>1, <4>1, <5>1
      <4>3. toHost'[q - 1] = toHost[q]
        BY <1>2, <4>1, <4>2
      <4>4. toHost'[q - 1].text # "ABORT"
        BY <1>4, <4>1 DEF FreshReady
      <4>. QED
        BY <4>3, <4>4
    <3>. QED
      BY <3>1, <3>2
  <2>. QED
    BY <2>1, <2>2 DEF FreshReady
<1>5. ASSUME NEW p \in Nat, Still(p + 1) PROVE Still(p)'
  <2>. SUFFICES ASSUME NEW q \in DOMAIN toHost', q > p
                PROVE  toHost'[q].text \notin OfTransfer
    BY DEF Still
  <2>1. q + 1 \in DOMAIN toHost /\ q + 1 > p + 1 /\ toHost'[q] = toHost[q + 1]
    BY <1>2
  <2>. QED
    BY <1>5, <2>1 DEF Still
<1>6. 0 \in Nat /\ 0 + 1 = 1
  OBVIOUS
<1>7. Still(1) => Still(0)'
  BY <1>5, <1>6
<1>. QED
  BY <1>2, <1>4, <1>5, <1>7

LEMMA LinesHeard ==
  ASSUME TypeOK, toHost # <<>>, NextLine, Head(toHost) # AbortLine
  PROVE  LinesKept
<1>1. Still(0) => Still(1)
  BY DEF Still, TypeOK
<1>2. Still(0) => Still(0)'
  BY <1>1, FirstHeard
<1>3. \A q \in DOMAIN toHost' : \E r \in DOMAIN toHost : toHost'[q] = toHost[r]
  BY FirstHeard
<1>4. ASSUME ReadyAtRest, AtRest => AtRest' PROVE ReadyAtRest'
  <2>1. ASSUME NEW p \in DOMAIN toHost', FreshReady(p)' PROVE AtRest' /\ Still(p)'
    BY <1>4, <2>1, FirstHeard DEF ReadyAtRest
  <2>2. ASSUME NEW p \in DOMAIN toHost', FreshReady(p)',
               NEW q \in DOMAIN toHost', FreshReady(q)'
        PROVE  p = q
    <3>1. p \in Nat /\ q \in Nat /\ p + 1 = q + 1
      BY <1>4, <2>2, FirstHeard DEF ReadyAtRest
    <3>. QED
      BY <3>1
  <2>. QED
    BY <2>1, <2>2 DEF ReadyAtRest
<1>. QED
  BY <1>2, <1>3, <1>4 DEF LinesKept

(* Whatever is lost, nothing is said that was not said before.             *)
LEMMA LineLost ==
  ASSUME TypeOK, NEW k \in DOMAIN toHost, toHost' = Without(toHost, k)
  PROVE  \A q \in DOMAIN toHost' :
           /\ q \in Nat \ {0}
           /\ \/ q < k /\ q \in DOMAIN toHost /\ toHost'[q] = toHost[q]
              \/ q >= k /\ q + 1 \in DOMAIN toHost /\ toHost'[q] = toHost[q + 1]
<1>1. toHost \in Seq(HostLine) /\ toHost' \in Seq(HostLine)
  BY WithoutType DEF TypeOK
<1>2. \A q \in DOMAIN toHost' : q \in Nat \ {0}
  BY <1>1
<1>. QED
  BY <1>1, <1>2, WithoutElement

LEMMA StillLost ==
  ASSUME TypeOK, NEW k \in DOMAIN toHost, toHost' = Without(toHost, k)
  PROVE  /\ Still(0) => Still(0)'
         /\ \A q \in DOMAIN toHost' : \E r \in DOMAIN toHost : toHost'[q] = toHost[r]
<1>1. \A q \in DOMAIN toHost' : \E r \in DOMAIN toHost : r > 0 /\ toHost'[q] = toHost[r]
  BY LineLost
<1>. QED
  BY <1>1 DEF Still

(* Where the lines behind the lost one were before.                        *)
LEMMA WithoutLength ==
  ASSUME NEW T, NEW q \in Seq(T), NEW k \in DOMAIN q
  PROVE  Len(Without(q, k)) = Len(q) - 1 /\ DOMAIN Without(q, k) = 1..(Len(q) - 1)
<1>. DEFINE a == SubSeq(q, 1, k - 1)
            b == SubSeq(q, k + 1, Len(q))
            w == Without(q, k)
<1>1. k \in 1..Len(q) /\ k \in 0..Len(q) /\ Len(q) \in Nat
  OBVIOUS
<1>2. a \in Seq(T) /\ Len(a) = k - 1
  BY <1>1
<1>3. b \in Seq(T) /\ Len(b) = Len(q) - k
  BY <1>1, SuffixLength
<1>4. w = a \o b
  BY DEF Without
<1>. HIDE DEF a, b, w
<1>5. w \in Seq(T) /\ Len(w) = Len(a) + Len(b)
  BY <1>2, <1>3, <1>4, ConcatProperties
<1>6. Len(w) = Len(q) - 1
  BY <1>1, <1>2, <1>3, <1>5
<1>7. DOMAIN w = 1..(Len(q) - 1)
  BY <1>5, <1>6
<1>. QED
  BY <1>6, <1>7 DEF w

(* A READY that no ABORT stands before stood so before any other line was
   lost.                                                                   *)
LEMMA ReadyLost ==
  ASSUME TypeOK, NEW k \in DOMAIN toHost, toHost' = Without(toHost, k),
         toHost[k].text # "ABORT",
         NEW p \in DOMAIN toHost', FreshReady(p)',
         NEW r \in DOMAIN toHost, toHost'[p] = toHost[r],
         (p < k /\ r = p) \/ (p >= k /\ r = p + 1)
  PROVE  FreshReady(r)
<1>1. /\ k \in 1..Len(toHost) /\ Len(toHost) \in Nat /\ r \in 1..Len(toHost)
      /\ DOMAIN toHost' = 1..(Len(toHost) - 1)
      /\ p \in 1..(Len(toHost) - 1)
  <2>1. toHost \in Seq(HostLine) /\ DOMAIN toHost = 1..Len(toHost)
    BY DEF TypeOK
  <2>2. DOMAIN toHost' = 1..(Len(toHost) - 1)
    BY <2>1, WithoutLength
  <2>. QED
    BY <2>1, <2>2
<1>2. toHost[r].text = "READY"
  BY DEF FreshReady
<1>3. ASSUME NEW q \in 1..(r - 1) PROVE toHost[q].text # "ABORT"
  <2>1. CASE q = k
    BY <2>1
  <2>2. CASE q < k
    <3>1. q \in 1..(p - 1) /\ q \in DOMAIN toHost'
      BY <1>1, <2>2
    <3>2. toHost'[q] = toHost[q]
      BY <1>1, <2>2, <3>1, LineLost
    <3>. QED
      BY <3>1, <3>2 DEF FreshReady
  <2>3. CASE q > k
    <3>1. q - 1 \in 1..(p - 1) /\ q - 1 \in DOMAIN toHost' /\ q - 1 >= k /\ (q - 1) + 1 = q
      BY <1>1, <2>3
    <3>2. toHost'[q - 1] = toHost[q]
      <4>1. PICK m \in DOMAIN toHost' : m = q - 1
        BY <3>1
      <4>2. m >= k /\ k \in Nat /\ m \in Nat /\ m + 1 = q
        BY <1>1, <3>1, <4>1
      <4>3. toHost'[m] = toHost[m + 1]
        BY <4>2, LineLost
      <4>. QED
        BY <4>1, <4>2, <4>3
    <3>. QED
      BY <3>1, <3>2 DEF FreshReady
  <2>. QED
    BY <1>1, <2>1, <2>2, <2>3
<1>. QED
  BY <1>2, <1>3 DEF FreshReady

LEMMA LinesLost ==
  ASSUME TypeOK, NEW k \in DOMAIN toHost, toHost' = Without(toHost, k),
         toHost[k].text # "ABORT"
  PROVE  LinesKept
<1>0. k \in Nat
  BY DEF TypeOK
<1>1. ASSUME NEW p \in DOMAIN toHost', FreshReady(p)'
      PROVE  /\ p \in Nat
             /\ \E r \in DOMAIN toHost :
                  /\ (p < k /\ r = p) \/ (p >= k /\ r = p + 1)
                  /\ FreshReady(r)
                  /\ Still(r) => Still(p)'
  <2>1. PICK r \in DOMAIN toHost :
          /\ toHost'[p] = toHost[r]
          /\ (p < k /\ r = p) \/ (p >= k /\ r = p + 1)
    BY LineLost
  <2>2. FreshReady(r)
    BY <1>1, <2>1, ReadyLost
  <2>3. p \in Nat
    BY LineLost
  <2>4. ASSUME Still(r), NEW q \in DOMAIN toHost', q > p
        PROVE  toHost'[q].text \notin OfTransfer
    <3>1. PICK s \in DOMAIN toHost :
            /\ toHost'[q] = toHost[s]
            /\ (q < k /\ s = q) \/ (q >= k /\ s = q + 1)
      BY LineLost
    <3>2. q \in Nat
      BY LineLost
    <3>3. s > r
      BY <1>0, <2>1, <2>3, <2>4, <3>1, <3>2
    <3>. QED
      BY <2>4, <3>1, <3>3 DEF Still
  <2>. QED
    BY <2>1, <2>2, <2>3, <2>4 DEF Still
<1>2. ASSUME ReadyAtRest, AtRest => AtRest' PROVE ReadyAtRest'
  <2>1. ASSUME NEW p \in DOMAIN toHost', FreshReady(p)' PROVE AtRest' /\ Still(p)'
    BY <1>1, <1>2, <2>1 DEF ReadyAtRest
  <2>2. ASSUME NEW p \in DOMAIN toHost', FreshReady(p)',
               NEW q \in DOMAIN toHost', FreshReady(q)'
        PROVE  p = q
    <3>1. PICK r \in DOMAIN toHost :
            ((p < k /\ r = p) \/ (p >= k /\ r = p + 1)) /\ FreshReady(r)
      BY <1>1, <2>2
    <3>2. PICK s \in DOMAIN toHost :
            ((q < k /\ s = q) \/ (q >= k /\ s = q + 1)) /\ FreshReady(s)
      BY <1>1, <2>2
    <3>3. r = s
      BY <1>2, <3>1, <3>2 DEF ReadyAtRest
    <3>4. p \in Nat /\ q \in Nat
      BY <1>1, <2>2
    <3>. QED
      BY <1>0, <3>1, <3>2, <3>3, <3>4
  <2>. QED
    BY <2>1, <2>2 DEF ReadyAtRest
<1>. QED
  BY <1>2, StillLost DEF LinesKept

(* A NACK that becomes an ACK stays a line of its transfer.                *)
LEMMA LinesEroded ==
  ASSUME TypeOK, NEW k \in DOMAIN toHost, toHost[k].text = "NACK",
         toHost' = [toHost EXCEPT ![k] = Status("ACK", toHost[k].sequence)]
  PROVE  /\ Still(0) => Still(0)'
         /\ ReadyAtRest /\ (AtRest => AtRest') => ReadyAtRest'
<1>1. DOMAIN toHost' = DOMAIN toHost
  OBVIOUS
<1>2. toHost'[k].text = "ACK" /\ \A q \in DOMAIN toHost : q # k => toHost'[q] = toHost[q]
  BY DEF Status
<1>3. \A q \in DOMAIN toHost :
        /\ toHost'[q].text = "READY" <=> toHost[q].text = "READY"
        /\ toHost'[q].text = "ABORT" <=> toHost[q].text = "ABORT"
        /\ toHost'[q].text \in OfTransfer <=> toHost[q].text \in OfTransfer
  BY <1>2 DEF OfTransfer
<1>4. \A p \in DOMAIN toHost : \A q \in 1..(p - 1) : q \in DOMAIN toHost
  <2>1. DOMAIN toHost = 1..Len(toHost) /\ Len(toHost) \in Nat
    BY DEF TypeOK
  <2>. QED
    BY <2>1
<1>5. \A p \in DOMAIN toHost : FreshReady(p)' <=> FreshReady(p)
  BY <1>3, <1>4 DEF FreshReady
<1>6. \A p : Still(p)' <=> Still(p)
  BY <1>1, <1>3 DEF Still
<1>. QED
  BY <1>1, <1>5, <1>6 DEF ReadyAtRest

(* What the target adds to them.                                           *)
LEMMA SaidStill ==
  ASSUME TypeOK, NEW lines \in Seq(HostLine), Say(lines),
         \A j \in DOMAIN lines : lines[j].text \notin OfTransfer,
         NEW p, Still(p)
  PROVE  Still(p)'
<1>. SUFFICES ASSUME NEW q \in DOMAIN toHost', q > p
              PROVE  toHost'[q].text \notin OfTransfer
  BY DEF Still
<1>. QED
  BY SaidLine DEF Still

(* A READY that no ABORT stands before is an old one, or is printed without
   an ABORT.                                                               *)
LEMMA SaidReady ==
  ASSUME TypeOK, NEW lines \in Seq(HostLine), Say(lines),
         NEW p \in DOMAIN toHost', FreshReady(p)'
  PROVE  \/ p \in DOMAIN toHost /\ FreshReady(p)
         \/ /\ p > Len(toHost) /\ p - Len(toHost) \in DOMAIN lines
            /\ toHost' = toHost \o lines
            /\ lines[p - Len(toHost)].text = "READY"
            /\ \A j \in 1..((p - Len(toHost)) - 1) : lines[j].text # "ABORT"
<1>1. toHost \in Seq(HostLine) /\ Len(toHost) \in Nat /\ Len(lines) \in Nat
  BY DEF TypeOK
<1>2. CASE p \in DOMAIN toHost /\ toHost'[p] = toHost[p]
  <2>1. toHost' = toHost \o lines
    BY <1>1, <1>2 DEF Say, TypeOK
  <2>2. ASSUME NEW q \in 1..(p - 1) PROVE toHost[q].text # "ABORT"
    <3>1. q \in 1..Len(toHost)
      BY <1>1, <1>2
    <3>2. toHost'[q] = toHost[q]
      BY <1>1, <2>1, <3>1, ConcatProperties
    <3>. QED
      BY <3>2 DEF FreshReady
  <2>. QED
    BY <1>2, <2>2 DEF FreshReady
<1>3. CASE /\ toHost' = toHost \o lines /\ p > Len(toHost)
           /\ p - Len(toHost) \in DOMAIN lines
           /\ toHost'[p] = lines[p - Len(toHost)]
  <2>1. p - Len(toHost) \in 1..Len(lines) /\ p \in 1..(Len(toHost) + Len(lines))
    <3>1. p \in 1..(Len(toHost) + Len(lines))
      BY <1>1, <1>3, ConcatProperties
    <3>. QED
      BY <1>1, <1>3, <3>1
  <2>2. ASSUME NEW j \in 1..((p - Len(toHost)) - 1) PROVE lines[j].text # "ABORT"
    <3>1. /\ Len(toHost) + j \in 1..(p - 1)
          /\ Len(toHost) + j \in 1..(Len(toHost) + Len(lines))
          /\ ~(Len(toHost) + j <= Len(toHost))
          /\ (Len(toHost) + j) - Len(toHost) = j
      BY <1>1, <2>1
    <3>2. toHost'[Len(toHost) + j] = lines[j]
      BY <1>1, <1>3, <3>1, ConcatProperties
    <3>. QED
      BY <3>1, <3>2 DEF FreshReady
  <2>3. lines[p - Len(toHost)].text = "READY"
    BY <1>3 DEF FreshReady
  <2>. QED
    BY <1>3, <2>2, <2>3
<1>. QED
  BY <1>2, <1>3, SaidLine

-----------------------------------------------------------------------------
(* Steps of the target.                                                    *)

(* The lines of an aborted, an executed and a returning transfer.          *)
LEMMA TwoLines ==
  ASSUME NEW a \in HostLine, NEW b \in HostLine
  PROVE  /\ <<a, b>> \in Seq(HostLine)
         /\ DOMAIN <<a, b>> = {1, 2} /\ <<a, b>>[1] = a /\ <<a, b>>[2] = b
  OBVIOUS

LEMMA OneLine ==
  ASSUME NEW a \in HostLine
  PROVE  /\ <<a>> \in Seq(HostLine)
         /\ DOMAIN <<a>> = {1} /\ <<a>>[1] = a
  OBVIOUS

LEMMA HeaderTurns ==
  ASSUME TypeOK, TurnsInv, AcceptHeader, UNCHANGED <<hostVars, faults, runs>>
  PROVE  TurnsInv'
<1>1. HeaderAt(1) /\ toTarget # <<>> /\ phase = "ready" /\ phase' = "frames" /\ Consume(1)
  BY DEF AcceptHeader, HeaderAt, TypeOK
<1>2. ~NoHeader
  BY <1>1 DEF NoHeader, TypeOK
<1>3. /\ Line("HEADER-ACK") \in HostLine
      /\ Line("HEADER-ACK").text \notin {"READY", "ABORT", "ACK"}
  BY LineTypes DEF Line
<1>4. Say(<<Line("HEADER-ACK")>>)
  BY DEF AcceptHeader
<1>5. Followed => OneHeader /\ NoHeader'
  BY <1>1, HeaderConsumed DEF TurnsInv, OneTransfer
<1>6. UNCHANGED <<host, sequence, runs, faults>>
  BY DEF hostVars
<1>7. Followed => OneTransfer'
  BY <1>5 DEF OneTransfer, OneHeader, NoHeader
<1>8. runs = 1 => host # "ready"
  BY <1>2 DEF TurnsInv, FirstRun, AtRest
<1>9. ASSUME NoLineLost PROVE ReadyAtRest'
  <2>1. \A p \in DOMAIN toHost : ~FreshReady(p)
    BY <1>2, <1>9 DEF TurnsInv, ReadyAtRest, AtRest
  <2>2. ASSUME NEW p \in DOMAIN toHost', FreshReady(p)' PROVE FALSE
    <3>1. \A j \in DOMAIN <<Line("HEADER-ACK")>> :
            <<Line("HEADER-ACK")>>[j].text # "READY"
      BY <1>3, OneLine
    <3>2. <<Line("HEADER-ACK")>> \in Seq(HostLine)
      BY <1>3, OneLine
    <3>. QED
      BY <1>4, <2>1, <2>2, <3>1, <3>2, SaidReady
  <2>. QED
    BY <2>2 DEF ReadyAtRest
<1>10. ASSUME Followed PROVE AcksStored'
  <2>1. host # "ack" /\ Still(0)
    BY <1>2, <1>10 DEF TurnsInv, OneTransfer
  <2>2. ASSUME NEW q \in DOMAIN toHost' PROVE toHost'[q].text # "ACK"
    <3>1. <<Line("HEADER-ACK")>> \in Seq(HostLine)
            /\ \A j \in DOMAIN <<Line("HEADER-ACK")>> :
                 <<Line("HEADER-ACK")>>[j].text # "ACK"
      BY <1>3, OneLine
    <3>2. \A r \in DOMAIN toHost : toHost[r].text # "ACK"
      BY <2>1 DEF Still, OfTransfer, TypeOK
    <3>. QED
      BY <1>4, <3>1, <3>2, SaidLine
  <2>. QED
    BY <1>6, <2>1, <2>2 DEF AcksStored
<1>11. Followed' = Followed /\ NoLineLost' = NoLineLost /\ TransfersTold' = TransfersTold
  BY <1>6 DEF Followed, NoLineLost, TransfersTold, OnlyFaults
<1>12. TransfersTold => Followed
  BY DEF TransfersTold, Followed, NoLineLost
<1>. QED
  BY <1>6, <1>7, <1>8, <1>9, <1>10, <1>11, <1>12 DEF TurnsInv, FirstRun

LEMMA AbortTurns ==
  ASSUME TypeOK, TurnsInv, NEW n \in Nat, Abort(n), UNCHANGED <<hostVars, faults, runs>>
  PROVE  TurnsInv'
<1>1. phase' = "ready" /\ Say(<<AbortLine, Ready>>)
  BY DEF Abort
<1>2. FewerHeaders
  <2>1. PICK m \in n..Len(toTarget) : Consume(m)
    BY DEF Abort
  <2>2. m \in 0..Len(toTarget)
    BY DEF TypeOK
  <2>. QED
    BY <2>1, <2>2, ConsumedHeaders
<1>3. UNCHANGED <<host, sequence, runs, faults>>
  BY DEF hostVars
<1>4. /\ <<AbortLine, Ready>> \in Seq(HostLine)
      /\ DOMAIN <<AbortLine, Ready>> = {1, 2}
      /\ <<AbortLine, Ready>>[1].text = "ABORT"
      /\ <<AbortLine, Ready>>[2].text = "READY"
  <2>1. AbortLine.text = "ABORT" /\ Ready.text = "READY"
    BY DEF AbortLine, Ready, Line
  <2>. QED
    BY <2>1, LineTypes, TwoLines
<1>5. \A p : Still(p) => Still(p)'
  <2>1. \A j \in DOMAIN <<AbortLine, Ready>> :
          <<AbortLine, Ready>>[j].text \notin OfTransfer
    BY <1>4 DEF OfTransfer
  <2>. QED
    BY <1>1, <1>4, <2>1, SaidStill
<1>6. \A p \in DOMAIN toHost' : FreshReady(p)' => p \in DOMAIN toHost /\ FreshReady(p)
  <2>. SUFFICES ASSUME NEW p \in DOMAIN toHost', FreshReady(p)'
                PROVE  p \in DOMAIN toHost /\ FreshReady(p)
    OBVIOUS
  <2>1. CASE /\ p - Len(toHost) \in DOMAIN <<AbortLine, Ready>>
             /\ <<AbortLine, Ready>>[p - Len(toHost)].text = "READY"
             /\ \A j \in 1..((p - Len(toHost)) - 1) :
                  <<AbortLine, Ready>>[j].text # "ABORT"
    <3>1. p - Len(toHost) = 2
      BY <1>4, <2>1
    <3>2. 1 \in 1..((p - Len(toHost)) - 1)
      BY <3>1
    <3>. QED
      BY <1>4, <2>1, <3>2
  <2>. QED
    BY <1>1, <1>4, <2>1, SaidReady
<1>7. Followed => OneTransfer'
  BY <1>1, <1>2, <1>3, <1>5 DEF TurnsInv, OneTransfer, FewerHeaders
<1>8. runs = 1 => FirstRun'
  BY <1>1, <1>2, <1>3, <1>5 DEF TurnsInv, FirstRun, AtRest, FewerHeaders
<1>9. NoLineLost => ReadyAtRest'
  BY <1>1, <1>2, <1>5, <1>6 DEF TurnsInv, ReadyAtRest, AtRest, FewerHeaders
<1>10. AcksStored'
  BY <1>1 DEF AcksStored
<1>. QED
  BY <1>3, <1>7, <1>8, <1>9, <1>10
     DEF TurnsInv, Followed, NoLineLost, OnlyFaults

(* While a transfer is open or the image runs, no READY waits to be heard,
   no header is on the line, and the tool in its first run waits for another
   line.                                                                   *)
LEMMA TransferAlone ==
  ASSUME TurnsInv, phase # "ready"
  PROVE  /\ Followed => NoHeader
         /\ runs = 1 => host # "ready"
         /\ NoLineLost => \A p \in DOMAIN toHost : ~FreshReady(p)
  BY DEF TurnsInv, OneTransfer, FirstRun, ReadyAtRest, AtRest

LEMMA AnswerTurns ==
  ASSUME TypeOK, TurnsInv, Answers, FrameComplete, UNCHANGED <<hostVars, faults, runs>>
  PROVE  TurnsInv'
<1>1. phase = "frames" /\ phase' = "frames"
  BY DEF Answers
<1>2. UNCHANGED <<host, sequence, runs, faults>>
  BY DEF hostVars
<1>3. FewerHeaders
  BY FrameHead, ConsumedHeaders DEF Answers
<1>4. PICK t \in {"ACK", "NACK"}, s \in Nat :
        Say(<<Status(t, s)>>) /\ (t = "ACK" => s < expected')
  BY DEF Answers
<1>5. Status(t, s) \in HostLine /\ Status(t, s).text = t /\ Status(t, s).sequence = s
  BY LineTypes DEF Status
<1>6. /\ <<Status(t, s)>> \in Seq(HostLine)
      /\ \A j \in DOMAIN <<Status(t, s)>> : <<Status(t, s)>>[j] = Status(t, s)
  BY <1>5, OneLine
<1>7. Followed => OneTransfer'
  BY <1>1, <1>3, TransferAlone DEF OneTransfer, FewerHeaders, OneHeader, NoHeader
<1>8. runs = 1 => FirstRun'
  BY <1>1, <1>2, TransferAlone DEF FirstRun
<1>9. ASSUME NoLineLost PROVE ReadyAtRest'
  <2>1. \A j \in DOMAIN <<Status(t, s)>> : <<Status(t, s)>>[j].text # "READY"
    BY <1>5, <1>6
  <2>2. ASSUME NEW p \in DOMAIN toHost', FreshReady(p)' PROVE FALSE
    BY <1>1, <1>4, <1>6, <1>9, <2>1, <2>2, TransferAlone, SaidReady
  <2>. QED
    BY <2>2 DEF ReadyAtRest
<1>10. ASSUME TransfersTold PROVE AcksStored'
  <2>1. expected \in Nat /\ expected' \in Nat /\ expected <= expected' /\ sequence \in Nat
    BY DEF Answers, TypeOK
  <2>2. AcksStored
    BY <1>10 DEF TurnsInv
  <2>3. ASSUME NEW q \in DOMAIN toHost', toHost'[q].text = "ACK"
        PROVE  toHost'[q].sequence < expected'
    <3>1. \/ q \in DOMAIN toHost /\ toHost'[q] = toHost[q]
          \/ toHost'[q] = Status(t, s)
      BY <1>4, <1>6, SaidLine
    <3>2. CASE q \in DOMAIN toHost /\ toHost'[q] = toHost[q]
      <4>1. toHost[q] \in HostLine
        BY <3>2 DEF TypeOK
      <4>2. toHost[q].sequence \in Nat /\ toHost[q].sequence < expected
        BY <1>1, <2>2, <2>3, <3>2, <4>1 DEF AcksStored, HostLine
      <4>. QED
        BY <2>1, <3>2, <4>2
    <3>3. CASE toHost'[q] = Status(t, s)
      BY <1>4, <1>5, <2>3, <3>3
    <3>. QED
      BY <3>1, <3>2, <3>3
  <2>4. host = "ack" => sequence <= expected'
    BY <1>1, <2>1, <2>2 DEF AcksStored
  <2>. QED
    BY <1>2, <2>3, <2>4 DEF AcksStored
<1>. QED
  BY <1>2, <1>7, <1>8, <1>9, <1>10
     DEF TurnsInv, Followed, NoLineLost, TransfersTold, OnlyFaults

LEMMA ExecuteTurns ==
  ASSUME TypeOK, TurnsInv, ExecuteImage, UNCHANGED <<hostVars, faults, runs>>
  PROVE  TurnsInv'
<1>1. /\ phase = "frames" /\ phase' = "running" /\ UNCHANGED toTarget
      /\ Say(<<Line("VERIFIED"), Line("EXEC")>>)
  BY DEF ExecuteImage
<1>2. UNCHANGED <<host, runs, faults>>
  BY DEF hostVars
<1>3. Followed => OneTransfer'
  BY <1>1, TransferAlone DEF OneTransfer, OneHeader, NoHeader, HeaderAt
<1>4. runs = 1 => FirstRun'
  BY <1>1, <1>2, TransferAlone DEF FirstRun
<1>5. ASSUME NoLineLost PROVE ReadyAtRest'
  <2>1. /\ <<Line("VERIFIED"), Line("EXEC")>> \in Seq(HostLine)
        /\ \A j \in DOMAIN <<Line("VERIFIED"), Line("EXEC")>> :
              <<Line("VERIFIED"), Line("EXEC")>>[j].text # "READY"
    <3>1. Line("VERIFIED").text # "READY" /\ Line("EXEC").text # "READY"
      BY DEF Line
    <3>. QED
      BY <3>1, LineTypes, TwoLines
  <2>2. ASSUME NEW p \in DOMAIN toHost', FreshReady(p)' PROVE FALSE
    BY <1>1, <1>5, <2>1, <2>2, TransferAlone, SaidReady
  <2>. QED
    BY <2>2 DEF ReadyAtRest
<1>6. AcksStored'
  BY <1>1 DEF AcksStored
<1>. QED
  BY <1>2, <1>3, <1>4, <1>5, <1>6 DEF TurnsInv, Followed, NoLineLost, OnlyFaults

LEMMA ReturnTurns ==
  ASSUME TypeOK, TurnsInv, PayloadReturns, UNCHANGED <<hostVars, faults, runs>>
  PROVE  TurnsInv'
<1>1. /\ phase = "running" /\ phase' = "ready"
      /\ Say(<<Line("RETURNED"), Ready>>)
  BY DEF PayloadReturns
<1>2. FewerHeaders
  BY ConsumedHeaders DEF PayloadReturns
<1>3. UNCHANGED <<host, runs, faults>>
  BY DEF hostVars
<1>4. Followed => NoHeader'
  BY <1>1, <1>2, TransferAlone DEF FewerHeaders
<1>5. Followed => OneTransfer'
  BY <1>4 DEF OneTransfer, OneHeader, NoHeader
<1>6. runs = 1 => FirstRun'
  BY <1>1, <1>3, TransferAlone DEF FirstRun
<1>7. ASSUME NoLineLost PROVE ReadyAtRest'
  <2>1. /\ <<Line("RETURNED"), Ready>> \in Seq(HostLine)
        /\ DOMAIN <<Line("RETURNED"), Ready>> = {1, 2}
        /\ <<Line("RETURNED"), Ready>>[1].text = "RETURNED"
    <3>1. Line("RETURNED").text = "RETURNED"
      BY DEF Line
    <3>. QED
      BY <3>1, LineTypes, TwoLines
  <2>2. ASSUME NEW p \in DOMAIN toHost', FreshReady(p)'
        PROVE  /\ p = Len(toHost) + 2
               /\ toHost' = toHost \o <<Line("RETURNED"), Ready>>
    <3>1. Len(toHost) \in Nat /\ p \in Nat
      <4>1. toHost' \in Seq(HostLine)
        BY <1>1, <2>1, SayType
      <4>2. toHost \in Seq(HostLine)
        BY DEF TypeOK
      <4>. QED
        BY <2>2, <4>1, <4>2
    <3>2. /\ p - Len(toHost) \in {1, 2}
          /\ <<Line("RETURNED"), Ready>>[p - Len(toHost)].text = "READY"
          /\ toHost' = toHost \o <<Line("RETURNED"), Ready>>
      BY <1>1, <1>7, <2>1, <2>2, TransferAlone, SaidReady
    <3>3. p - Len(toHost) = 2
      BY <2>1, <3>2
    <3>. QED
      BY <3>1, <3>2, <3>3
  <2>3. ASSUME NEW p \in DOMAIN toHost', FreshReady(p)' PROVE Still(p)'
    <3>1. /\ toHost' = toHost \o <<Line("RETURNED"), Ready>> /\ p = Len(toHost) + 2
          /\ toHost \in Seq(HostLine)
      BY <2>2, <2>3 DEF TypeOK
    <3>2. Len(toHost') = Len(toHost) + 2 /\ toHost' \in Seq(HostLine)
      BY <2>1, <3>1, ConcatProperties, LineTypes
    <3>3. \A q \in DOMAIN toHost' : ~(q > p)
      BY <3>1, <3>2
    <3>. QED
      BY <3>3 DEF Still
  <2>4. AtRest'
    BY <1>1, <1>4, <1>7 DEF AtRest, Followed
  <2>. QED
    BY <2>2, <2>3, <2>4 DEF ReadyAtRest
<1>8. AcksStored'
  BY <1>1 DEF AcksStored
<1>. QED
  BY <1>3, <1>5, <1>6, <1>7, <1>8 DEF TurnsInv, Followed, NoLineLost, OnlyFaults

LEMMA TargetTurns ==
  ASSUME TypeOK, TurnsInv, Target
  PROVE  TurnsInv'
<1>1. UNCHANGED <<hostVars, faults, runs>>
  BY DEF Target
<1>2. CASE RejectHeader \/ TransferTimeout \/ InvalidFrame \/ RejectImage
  <2>1. PICK n \in Nat : Abort(n)
    BY <1>2 DEF RejectHeader, TransferTimeout, InvalidFrame, RejectImage
  <2>. QED
    BY <1>1, <2>1, AbortTurns
<1>3. CASE DuplicateFrame \/ RejectFrame \/ AcceptFrame
  <2>1. Answers /\ FrameComplete
    BY <1>3, FrameAnswered DEF DuplicateFrame, RejectFrame, AcceptFrame
  <2>. QED
    BY <1>1, <2>1, AnswerTurns
<1>. QED
  BY <1>1, <1>2, <1>3, HeaderTurns, ExecuteTurns, ReturnTurns DEF Target, TargetStep

-----------------------------------------------------------------------------
(* Steps of the tool, of the operator and of the line.                     *)

(* The tool that sends no header keeps at rest what is at rest.            *)
LEMMA StillHost ==
  ASSUME TypeOK, TurnsInv, UNCHANGED <<targetVars, faults, runs>>,
         FewerHeaders, LinesKept,
         host' # "ready" \/ host = "ready",
         Followed /\ ~NoHeader => host' \in {"ready", "header-ack", "failed"},
         TransfersTold /\ phase = "frames" /\ host' = "ack" => sequence' <= expected
  PROVE  TurnsInv'
<1>1. UNCHANGED <<phase, expected>>
  BY DEF targetVars
<1>2. Followed => OneTransfer'
  BY <1>1 DEF TurnsInv, OneTransfer, FewerHeaders, LinesKept
<1>3. runs = 1 => FirstRun'
  BY <1>1 DEF TurnsInv, FirstRun, AtRest, FewerHeaders, LinesKept
<1>4. NoLineLost => ReadyAtRest'
  BY <1>1 DEF TurnsInv, AtRest, FewerHeaders, LinesKept
<1>5. TransfersTold => AcksStored'
  <2>. SUFFICES ASSUME TransfersTold, phase = "frames" PROVE AcksStored'
    BY <1>1 DEF AcksStored
  <2>1. \A r \in DOMAIN toHost : toHost[r].text = "ACK" => toHost[r].sequence < expected
    BY DEF TurnsInv, AcksStored
  <2>2. \A q \in DOMAIN toHost' : toHost'[q].text = "ACK" => toHost'[q].sequence < expected
    BY <2>1 DEF LinesKept
  <2>. QED
    BY <1>1, <2>2 DEF AcksStored
<1>. QED
  BY <1>2, <1>3, <1>4, <1>5 DEF TurnsInv, Followed, NoLineLost, TransfersTold, OnlyFaults

LEMMA FrameTokensNoHeader ==
  ASSUME NEW s \in Nat, NEW o \in 0..(Size - 1), NEW i \in DOMAIN FrameTokens(s, o)
  PROVE  FrameTokens(s, o)[i].kind # "header"
<1>. DEFINE head == FrameToken(TRUE, s, FrameLength(o), CrcOf(Payload(o)))
            body == [j \in 1..FrameLength(o) |-> DataToken(Payload(o)[j])]
<1>1. head \in Token
  BY PayloadType, CrcType DEF FrameToken, Token
<1>2. <<head>> \in Seq(Token) /\ Len(<<head>>) = 1 /\ <<head>>[1] = head
  BY <1>1, SingletonType, Zenon
<1>3. body \in [1..FrameLength(o) -> Token]
  BY PayloadType DEF DataToken, Token
<1>4. body \in Seq(Token)
  <2>1. FrameLength(o) \in Nat
    BY PayloadType
  <2>. QED
    BY <1>3, <2>1, FunctionIsSeq, Zenon
<1>5. \A j \in DOMAIN body : body[j].kind = "data"
  BY DEF DataToken
<1>6. FrameTokens(s, o) = <<head>> \o body
  BY DEF FrameTokens
<1>7. head.kind = "frame"
  BY DEF FrameToken
<1>. HIDE DEF head, body
<1>8. i \in DOMAIN (<<head>> \o body)
  BY <1>6
<1>9. \/ i \in DOMAIN <<head>> /\ (<<head>> \o body)[i] = <<head>>[i]
      \/ i - Len(<<head>>) \in DOMAIN body
           /\ (<<head>> \o body)[i] = body[i - Len(<<head>>)]
  BY <1>2, <1>4, <1>8, ConcatElement
<1>. QED
  BY <1>2, <1>5, <1>6, <1>7, <1>9

LEMMA FramesSent ==
  ASSUME TypeOK, NEW s \in Nat, NEW o \in 0..(Size - 1), Send(FrameTokens(s, o))
  PROVE  FewerHeaders
  BY FrameTokensType, FrameTokensNoHeader, SentHeaders

(* The header goes out when the READY it answers is the only right to open a
   transfer.                                                               *)
LEMMA SendHeaderTurns ==
  ASSUME TypeOK, TurnsInv, SendHeader, UNCHANGED <<targetVars, faults, runs>>
  PROVE  TurnsInv'
<1>1. /\ host = "ready" /\ host' = "header-ack" /\ NextLine
      /\ toHost # <<>> /\ Head(toHost) = Ready
      /\ Send(<<HeaderToken(TRUE)>>)
  BY DEF SendHeader, Heard
<1>2. toHost \in Seq(HostLine) /\ runs \in Nat \ {0}
  BY DEF TypeOK
<1>3. 1 \in DOMAIN toHost /\ FreshReady(1) /\ Head(toHost) # AbortLine
  BY <1>1, <1>2 DEF FreshReady, Ready, AbortLine, Line
<1>4. UNCHANGED <<phase, expected>>
  BY DEF targetVars
<1>5. ASSUME Followed PROVE AtRest /\ Still(1)
  <2>1. CASE runs = 1
    BY <1>1, <1>2, <2>1 DEF TurnsInv, FirstRun, Still
  <2>2. CASE runs # 1
    BY <1>2, <1>3, <1>5, <2>2 DEF TurnsInv, ReadyAtRest, Followed
  <2>. QED
    BY <2>1, <2>2
<1>6. ASSUME NoHeader PROVE OneHeader'
  <2>1. HeaderToken(TRUE) \in Token
    BY DEF HeaderToken, Token
  <2>2. <<HeaderToken(TRUE)>> \in Seq(Token) /\ DOMAIN <<HeaderToken(TRUE)>> = {1}
    BY <2>1, OneToken, Zenon
  <2>3. toTarget \in Seq(Token) /\ toTarget' = toTarget \o <<HeaderToken(TRUE)>>
    BY <1>1 DEF TypeOK, Send
  <2>4. ASSUME NEW i \in DOMAIN toTarget', HeaderAt(i)'
        PROVE  i = Len(toTarget) + 1
    <3>1. \/ i \in DOMAIN toTarget /\ toTarget'[i] = toTarget[i]
          \/ i - Len(toTarget) \in DOMAIN <<HeaderToken(TRUE)>> /\ i > Len(toTarget)
      BY <2>2, <2>3, ConcatElement
    <3>2. i \in Nat /\ Len(toTarget) \in Nat
      <4>1. toTarget' \in Seq(Token)
        BY <2>2, <2>3, ConcatProperties
      <4>. QED
        BY <2>3, <4>1
    <3>. QED
      BY <1>6, <2>2, <2>4, <3>1, <3>2 DEF NoHeader, HeaderAt
  <2>. QED
    BY <2>4 DEF OneHeader
<1>7. Still(1) => Still(0)'
  BY <1>1, <1>3, FirstHeard
<1>8. Followed => OneTransfer'
  BY <1>1, <1>4, <1>5, <1>6, <1>7 DEF OneTransfer, AtRest
<1>9. FirstRun'
  BY <1>1 DEF FirstRun
<1>10. ASSUME NoLineLost PROVE ReadyAtRest'
  <2>1. ASSUME NEW p \in DOMAIN toHost', FreshReady(p)' PROVE FALSE
    <3>1. p \in Nat \ {0} /\ p + 1 \in DOMAIN toHost /\ FreshReady(p + 1)
      BY <1>1, <1>3, <2>1, FirstHeard
    <3>2. p + 1 = 1
      BY <1>3, <1>10, <3>1 DEF TurnsInv, ReadyAtRest
    <3>. QED
      BY <3>1, <3>2
  <2>. QED
    BY <2>1 DEF ReadyAtRest
<1>11. Followed => AcksStored'
  BY <1>4, <1>5 DEF AtRest, AcksStored
<1>12. TransfersTold => Followed
  BY DEF TransfersTold, Followed, NoLineLost
<1>. QED
  BY <1>8, <1>9, <1>10, <1>11, <1>12
     DEF TurnsInv, Followed, NoLineLost, TransfersTold, OnlyFaults

LEMMA HostTurns ==
  ASSUME TypeOK, TurnsInv, Host
  PROVE  TurnsInv'
<1>1. UNCHANGED <<targetVars, faults, runs>>
  BY DEF Host
<1>2. sequence \in Nat /\ offset \in 0..(Size - 1) /\ expected \in Nat
      /\ toHost \in Seq(HostLine)
  BY DEF TypeOK
<1>3. TransfersTold => Followed
  BY DEF TransfersTold, Followed, NoLineLost
<1>4. TransfersTold /\ phase = "frames" /\ host = "ack" => sequence <= expected
  BY DEF TurnsInv, AcksStored
(* A first line of a transfer tells that no header is on the line.         *)
<1>5. ASSUME Followed, toHost # <<>>, Head(toHost).text \in OfTransfer PROVE NoHeader
  BY <1>2, <1>5 DEF TurnsInv, OneTransfer, Still
<1>6. ASSUME Followed, host \notin {"ready", "header-ack", "failed"} PROVE NoHeader
  BY <1>6 DEF TurnsInv, OneTransfer
<1>7. ASSUME Resend, LinesKept, host = "ack" PROVE TurnsInv'
  <2>1. FewerHeaders /\ host' = host /\ sequence' = sequence
    BY <1>2, <1>7, FramesSent DEF Resend
  <2>. QED
    BY <1>1, <1>4, <1>6, <1>7, <2>1, StillHost
<1>8. ASSUME toHost # <<>>, NextLine, Head(toHost) # AbortLine PROVE LinesKept
  BY <1>8, LinesHeard
<1>9. CASE SendHeader
  BY <1>1, <1>9, SendHeaderTurns
<1>10. CASE SendFirstFrame
  <2>1. /\ host' = "ack" /\ sequence' = 0 /\ NextLine /\ Send(FrameTokens(0, 0))
        /\ toHost # <<>> /\ Head(toHost) = Line("HEADER-ACK")
    BY <1>10 DEF SendFirstFrame, SendFrame, Heard
  <2>2. Head(toHost) # AbortLine /\ Head(toHost).text \in OfTransfer
    BY <2>1 DEF Line, AbortLine, OfTransfer
  <2>3. FewerHeaders
    <3>1. 0 \in 0..(Size - 1) /\ 0 \in Nat
      BY SizeType
    <3>. QED
      BY <2>1, <3>1, FramesSent
  <2>4. Followed => NoHeader
    BY <1>5, <2>1, <2>2
  <2>5. LinesKept
    BY <1>8, <2>1, <2>2
  <2>6. sequence' <= expected
    BY <1>2, <2>1
  <2>. QED
    BY <1>1, <2>1, <2>3, <2>4, <2>5, <2>6, StillHost
<1>11. ASSUME AckHeard
       PROVE  /\ toHost # <<>> /\ Head(toHost) # AbortLine
              /\ Followed => NoHeader
              /\ TransfersTold /\ phase = "frames" => sequence < expected
  <2>1. toHost # <<>> /\ Head(toHost) = Status("ACK", sequence)
    BY <1>11 DEF AckHeard, Heard
  <2>2. Head(toHost).text = "ACK" /\ Head(toHost).sequence = sequence
    BY <2>1 DEF Status
  <2>3. Head(toHost) # AbortLine /\ Head(toHost).text \in OfTransfer
    BY <2>2 DEF AbortLine, Line, OfTransfer
  <2>4. 1 \in DOMAIN toHost /\ toHost[1] = Head(toHost)
    BY <1>2, <2>1
  <2>5. TransfersTold /\ phase = "frames" => sequence < expected
    BY <2>2, <2>4 DEF TurnsInv, AcksStored
  <2>. QED
    BY <1>5, <2>1, <2>3, <2>5
<1>12. CASE SendNextFrame
  <2>1. /\ AckHeard /\ host' = "ack" /\ sequence' = sequence + 1 /\ NextLine
        /\ Send(FrameTokens(sequence + 1, offset + ChunkSize)) /\ ~LastFrame
    BY <1>12 DEF SendNextFrame, SendFrame
  <2>2. LinesKept
    BY <1>8, <1>11, <2>1
  <2>3. FewerHeaders
    <3>1. offset + ChunkSize \in 0..(Size - 1) /\ sequence + 1 \in Nat
      BY <1>2, <2>1, NextOffsetType DEF LastFrame
    <3>. QED
      BY <2>1, <3>1, FramesSent
  <2>4. TransfersTold /\ phase = "frames" => sequence' <= expected
    BY <1>2, <1>11, <2>1
  <2>5. Followed => NoHeader
    BY <1>11, <2>1
  <2>. QED
    BY <1>1, <2>1, <2>2, <2>3, <2>4, <2>5, StillHost
<1>13. CASE AllFramesSent
  <2>1. AckHeard /\ host' = "verified" /\ NextLine /\ UNCHANGED toTarget
    BY <1>13 DEF AllFramesSent
  <2>2. LinesKept
    BY <1>8, <1>11, <2>1
  <2>3. Followed => NoHeader
    BY <1>11, <2>1
  <2>. QED
    BY <1>1, <2>1, <2>2, <2>3, SameHeaders, StillHost
<1>14. CASE HearVerified
  <2>1. /\ host \in {"verified", "ack"} /\ host' = "exec" /\ NextLine
        /\ UNCHANGED toTarget
        /\ toHost # <<>> /\ Head(toHost) = Line("VERIFIED")
    BY <1>14 DEF HearVerified, AwaitsVerified, Heard
  <2>2. LinesKept
    BY <1>8, <2>1 DEF Line, AbortLine
  <2>3. Followed => NoHeader
    BY <1>6, <2>1
  <2>. QED
    BY <1>1, <2>1, <2>2, <2>3, SameHeaders, StillHost
<1>15. CASE HearExec
  <2>1. /\ host = "exec" /\ host' = "done" /\ toHost' = <<>> /\ UNCHANGED toTarget
    BY <1>15 DEF HearExec
  <2>2. Followed => NoHeader
    BY <1>6, <2>1
  <2>. QED
    BY <1>1, <2>1, <2>2, LinesDropped, SameHeaders, StillHost
<1>16. ASSUME Fail PROVE TurnsInv'
  BY <1>1, <1>16, LinesDropped, SameHeaders, StillHost DEF Fail
<1>17. CASE HearNack
  <2>1. host = "ack" /\ toHost # <<>> /\ Head(toHost) # AbortLine
    BY <1>17 DEF HearNack, Heard, Status, AbortLine, Line
  <2>. QED
    BY <1>7, <1>8, <1>16, <1>17, <2>1 DEF HearNack
<1>18. CASE HearAbort
  BY <1>16, <1>18 DEF HearAbort
<1>19. CASE IgnoreLine
  <2>1. /\ toHost # <<>> /\ Head(toHost) # AbortLine /\ NextLine
        /\ UNCHANGED <<host, sequence, toTarget>>
    BY <1>19 DEF IgnoreLine, Expecting, hostVars
  <2>2. LinesKept
    BY <1>8, <2>1
  <2>3. Followed /\ ~NoHeader => host \in {"ready", "header-ack", "failed"}
    BY <1>6
  <2>. QED
    BY <1>1, <1>4, <2>1, <2>2, <2>3, SameHeaders, StillHost
<1>20. CASE HostTimeout
  BY <1>7, <1>16, <1>20, LinesSame DEF HostTimeout
<1>. QED
  BY <1>9, <1>10, <1>12, <1>13, <1>14, <1>15, <1>17, <1>18, <1>19, <1>20
     DEF Host, HostStep

(* A run that is not the first forgets what was said before it.            *)
LEMMA RerunTurns ==
  ASSUME TypeOK, TurnsInv, Rerun
  PROVE  TurnsInv'
<1>1. /\ host \in {"failed", "done"} /\ host' = "ready" /\ toHost' = <<>>
      /\ runs' = runs + 1 /\ UNCHANGED <<phase, toTarget, faults>>
  BY DEF Rerun, targetVars
<1>2. runs \in Nat \ {0} /\ runs' > 1 /\ runs' # 1
  BY <1>1 DEF TypeOK
<1>3. Followed' => Followed
  BY <1>1, <1>2 DEF Followed, NoLineLost, OnlyFaults
<1>4. Still(0)' /\ ReadyAtRest' /\ AcksStored'
  BY <1>1 DEF Still, ReadyAtRest, AcksStored
<1>5. Followed' => OneTransfer'
  BY <1>1, <1>3, <1>4 DEF TurnsInv, OneTransfer, OneHeader, NoHeader, HeaderAt
<1>. QED
  BY <1>2, <1>4, <1>5 DEF TurnsInv

LEMMA FaultTurns ==
  ASSUME TypeOK, TurnsInv, Fault
  PROVE  TurnsInv'
<1>1. UNCHANGED <<targetVars, hostVars, runs>>
  BY DEF Fault
<1>2. UNCHANGED <<phase, expected, host, sequence, runs>>
  BY <1>1 DEF targetVars, hostVars
<1>3. \E k : Occurs(k)
  BY DEF Fault, LoseToken, DamageData, DamageHeader, DamageFrame, LoseLine, ErodeLine
<1>4. \A kinds : OnlyFaults(kinds)' => OnlyFaults(kinds) /\ \A k : Occurs(k) => k \in kinds
  BY <1>3, FaultsKept
<1>5. NoLineLost' => NoLineLost /\ ~Occurs("line")
  BY <1>4 DEF NoLineLost
<1>6. Followed' => Followed
  BY <1>2, <1>5 DEF Followed
<1>7. TransfersTold' => TransfersTold /\ ~Occurs("erode")
  BY <1>2, <1>4 DEF TransfersTold
<1>8. FewerHeaders
  <2>1. CASE LoseToken
    BY <2>1, LostHeaders DEF LoseToken
  <2>2. CASE DamageData
    BY <2>2, DamagedHeaders DEF DamageData, DataToken
  <2>3. CASE DamageHeader
    BY <2>3, DamagedHeaders DEF DamageHeader, HeaderToken
  <2>4. CASE DamageFrame
    <3>0. PICK k \in DOMAIN toTarget :
                \E t : Replace(k, t) /\ t.kind = "frame"
      <4>1. PICK k \in DOMAIN toTarget :
              /\ toTarget[k].kind = "frame"
              /\ \/ Replace(k, [toTarget[k] EXCEPT !.magic = FALSE])
                 \/ Replace(k, [toTarget[k] EXCEPT !.crc = <<>>])
                 \/ \E s \in 0..Size : Replace(k, [toTarget[k] EXCEPT !.sequence = s])
                 \/ \E n \in 0..(ChunkSize + 1) :
                      Replace(k, [toTarget[k] EXCEPT !.length = n])
        BY <2>4, Zenon DEF DamageFrame
      <4>2. toTarget[k] \in [kind : {"frame"}, magic : BOOLEAN, sequence : Nat,
                             length : Nat, crc : Seq(Nat)]
        <5>1. toTarget[k] \in Token
          BY DEF TypeOK
        <5>. QED
          BY <4>1, <5>1 DEF Token
      <4>3. /\ [toTarget[k] EXCEPT !.magic = FALSE].kind = "frame"
            /\ [toTarget[k] EXCEPT !.crc = <<>>].kind = "frame"
            /\ \A s : [toTarget[k] EXCEPT !.sequence = s].kind = "frame"
            /\ \A n : [toTarget[k] EXCEPT !.length = n].kind = "frame"
        BY <4>2
      <4>. QED
        BY <4>1, <4>3, Zenon
    <3>1. PICK t : k \in DOMAIN toTarget /\ Replace(k, t) /\ t.kind = "frame"
      BY <3>0
    <3>. QED
      BY <3>1, DamagedHeaders
  <2>5. CASE LoseLine \/ ErodeLine
    BY <2>5, SameHeaders DEF LoseLine, ErodeLine
  <2>. QED
    BY <2>1, <2>2, <2>3, <2>4, <2>5 DEF Fault
<1>9. /\ Still(0) => Still(0)'
      /\ ~Occurs("line") /\ ReadyAtRest => ReadyAtRest'
      /\ ~Occurs("erode") =>
           \A q \in DOMAIN toHost' : \E r \in DOMAIN toHost : toHost'[q] = toHost[r]
  <2>1. AtRest => AtRest'
    BY <1>2, <1>8 DEF AtRest, FewerHeaders
  <2>2. CASE UNCHANGED toHost
    BY <2>1, <2>2, LinesSame DEF LinesKept
  <2>3. CASE LoseLine
    <3>1. PICK k \in DOMAIN toHost :
            /\ Occurs(IF toHost[k].text \in {"ACK", "NACK"} THEN "reply" ELSE "line")
            /\ toHost' = Without(toHost, k)
      BY <2>3 DEF LoseLine
    <3>2. ~Occurs("line") => toHost[k].text # "ABORT"
      BY <3>1
    <3>3. ~Occurs("line") /\ ReadyAtRest => ReadyAtRest'
      BY <2>1, <3>1, <3>2, LinesLost DEF LinesKept
    <3>. QED
      BY <3>1, <3>3, StillLost
  <2>4. CASE ErodeLine
    <3>1. PICK k \in DOMAIN toHost :
            /\ toHost[k].text = "NACK"
            /\ toHost' = [toHost EXCEPT ![k] = Status("ACK", toHost[k].sequence)]
      BY <2>4 DEF ErodeLine
    <3>. QED
      BY <2>1, <2>4, <3>1, LinesEroded DEF ErodeLine
  <2>. QED
    BY <2>2, <2>3, <2>4 DEF Fault, LoseToken, DamageData, DamageHeader, DamageFrame
<1>10. Followed' => OneTransfer'
  BY <1>2, <1>6, <1>8, <1>9 DEF TurnsInv, OneTransfer, FewerHeaders
<1>11. runs = 1 => FirstRun'
  BY <1>2, <1>8, <1>9 DEF TurnsInv, FirstRun, AtRest, FewerHeaders
<1>12. NoLineLost' => ReadyAtRest'
  BY <1>5, <1>9 DEF TurnsInv
<1>13. TransfersTold' => AcksStored'
  BY <1>2, <1>7, <1>9 DEF TurnsInv, AcksStored
<1>. QED
  BY <1>2, <1>10, <1>11, <1>12, <1>13 DEF TurnsInv

LEMMA TurnsInvariance == Spec => [](TypeOK /\ TurnsInv)
<1>1. TypeOK /\ TurnsInv /\ [Next]_vars => TurnsInv'
  <2>. SUFFICES ASSUME TypeOK, TurnsInv, [Next]_vars PROVE TurnsInv'
    OBVIOUS
  <2>1. CASE UNCHANGED vars
    BY <2>1 DEF vars, TurnsInv, Followed, NoLineLost, TransfersTold, OnlyFaults,
                OneTransfer, OneHeader, NoHeader, HeaderAt, FirstRun, AtRest, Still,
                ReadyAtRest, FreshReady, AcksStored
  <2>. QED
    BY <2>1, TargetTurns, HostTurns, RerunTurns, FaultTurns DEF Next
<1>. QED
  BY <1>1, InitTurns, TypeCorrect, PTL DEF Spec

(* Lost, repeated and late ACK and NACK lines never make the tool skip a
   frame: while a transfer is open, the frame it is sending is one the target
   expects or has just stored.                                             *)
THEOREM NeverAhead == Spec => []HostInSync
<1>1. TurnsInv => HostInSync
  BY DEF TurnsInv, HostInSync, AcksStored
<1>. QED
  BY <1>1, TurnsInvariance, PTL

-----------------------------------------------------------------------------
(* With the timers of RamLoaderTimed every step is still one of RamLoader. *)

LEMMA TimedStep ==
  ASSUME TimedNext
  PROVE  Next \/ UNCHANGED vars
<1>1. CASE TimedTarget
  BY <1>1 DEF TimedTarget, Next, Target
<1>2. CASE TimedReturn
  BY <1>2 DEF TimedReturn, Next, Target
<1>3. CASE TimedHost
  BY <1>3 DEF TimedHost, Next, Host
<1>4. CASE TimedRerun \/ TimedFault
  BY <1>4 DEF TimedRerun, TimedFault, Next
<1>5. CASE Tick
  BY <1>5 DEF Tick
<1>. QED
  BY <1>1, <1>2, <1>3, <1>4, <1>5 DEF TimedNext

(* The timed loader and tool are a special case of the untimed ones, so
   whatever holds of Spec holds of them.                                   *)
THEOREM TimersOnlyRestrict == TimedSpec => Spec
<1>1. TimedInit => Init
  BY DEF TimedInit
<1>2. [TimedNext]_timedVars => [Next]_vars
  BY TimedStep DEF timedVars
<1>. QED
  BY <1>1, <1>2, PTL DEF TimedSpec, Spec

-----------------------------------------------------------------------------
(* The retries suffice.  While the line only damages data and loses ACKs
   and NACKs, no more often than the tool may resend, tool and target move in
   lock step: the line carries what one of them says to the other, or nothing
   because an answer was lost, and every resend has been paid by a fault.  *)

Calm == OnlyFaults({"reply", "data"}) /\ Len(faults) <= Retries /\ runs = 1

Hearing == hostClock = 0 /\ targetClock = 0

(* What the target says behind the answer to the last frame.               *)
Verified == Line("VERIFIED")
Executed == Line("EXEC")
Returned == Line("RETURNED")
Outcome ==
  CASE phase = "frames" -> <<>>
    [] phase = "running" -> <<Verified, Executed>>
    [] OTHER -> <<Verified, Executed, Returned, Ready>>

HashedRight == Len(hashed) = received /\ \A i \in 1..received : hashed[i] = Image[i]

(* The frame the tool is at has not been stored yet, or was the last one.  *)
Unstored == expected = sequence /\ received = offset
Stored ==
  /\ expected = sequence + 1 /\ received = offset + FrameLength(offset)
  /\ previous = [length |-> FrameLength(offset), crc |-> CrcOf(Payload(offset))]

Receiving == phase = "frames" /\ received < Size /\ HashedRight
Finished == received = Size /\ (phase = "frames" => HashedRight)

ThisFrame == FrameToken(TRUE, sequence, FrameLength(offset), CrcOf(Payload(offset)))
Undamaged == \A i \in 1..FrameLength(offset) : toTarget[i + 1].value = Payload(offset)[i]
FrameOnLine ==
  /\ Len(toTarget) = FrameLength(offset) + 1 /\ toTarget[1] = ThisFrame
  /\ \A i \in 1..FrameLength(offset) :
       /\ toTarget[i + 1].kind = "data"
       /\ toTarget[i + 1].value \in {Payload(offset)[i], Garbage}

(* The stages of an upload.  Asking: READY is on the line.  Opening: the
   header is.  Opened: HEADER-ACK is.                                      *)
Asking ==
  /\ host = "ready" /\ phase = "ready" /\ Hearing
  /\ toTarget = <<>> /\ toHost = <<Ready>>
Opening ==
  /\ host = "header-ack" /\ phase = "ready" /\ Hearing
  /\ toTarget = <<HeaderToken(TRUE)>> /\ toHost = <<>>
Opened ==
  /\ host = "header-ack" /\ Receiving /\ received = 0 /\ expected = 0 /\ Hearing
  /\ toTarget = <<>> /\ toHost = <<Line("HEADER-ACK")>>

(* A frame is on the line, or its answer, or the answer was lost.          *)
Sent ==
  /\ host = "ack" /\ Receiving /\ (Unstored \/ Stored) /\ Hearing
  /\ FrameOnLine /\ toHost = <<>>
  /\ attempt <= Len(faults) /\ (~Undamaged => attempt < Len(faults))
Acked ==
  /\ host = "ack" /\ (Receiving \/ Finished) /\ Stored /\ Hearing
  /\ toTarget = <<>> /\ toHost = <<Status("ACK", sequence)>> \o Outcome
  /\ attempt <= Len(faults)
Nacked ==
  /\ host = "ack" /\ Receiving /\ (Unstored \/ Stored) /\ Hearing
  /\ toTarget = <<>> /\ toHost = <<Status("NACK", expected)>>
  /\ attempt < Len(faults)
Unheard ==
  /\ host = "ack" /\ Receiving /\ (Unstored \/ Stored)
  /\ targetClock \in 0..hostClock /\ hostClock \in 0..AckTimeout
  /\ toTarget = <<>> /\ toHost = <<>>
  /\ attempt < Len(faults)

(* The last frame is stored; then the image was executed as well.          *)
Verifying ==
  /\ host = "verified" \/ (host = "ack" /\ LastFrame)
  /\ Finished /\ Hearing /\ toTarget = <<>> /\ toHost = Outcome
Executing ==
  /\ host = "exec" /\ phase # "frames" /\ Hearing
  /\ toTarget = <<>> /\ toHost = Tail(Outcome)

LockStep ==
  \/ Asking \/ Opening \/ Opened \/ Sent \/ Acked \/ Nacked \/ Unheard
  \/ Verifying \/ Executing \/ host = "done"

(* A lost or damaged unit is zero, and no unit of the image has its CRC.   *)
GarbageSeen == \A i \in 1..Size : Image[i] % CrcMod # Garbage % CrcMod

-----------------------------------------------------------------------------
LEMMA OutcomeType ==
  /\ Outcome \in Seq(HostLine)
  /\ phase = "frames" => Outcome = <<>>
  /\ phase = "running" => Outcome = <<Verified, Executed>>
  /\ phase \notin {"frames", "running"} =>
       Outcome = <<Verified, Executed>> \o <<Returned, Ready>>
  /\ phase # "frames" =>
       /\ Outcome # <<>> /\ Head(Outcome) = Verified
       /\ Tail(Outcome) # <<>> /\ Head(Tail(Outcome)) = Executed
       /\ Tail(Outcome) \in Seq(HostLine)
  /\ \A i \in DOMAIN Outcome : Outcome[i].text \notin {"ACK", "NACK"}
  /\ \A i \in DOMAIN Tail(Outcome) :
       phase # "frames" => Tail(Outcome)[i].text \notin {"ACK", "NACK"}
<1>1. /\ Verified \in HostLine /\ Executed \in HostLine /\ Returned \in HostLine
      /\ Ready \in HostLine
      /\ \A l \in {Verified, Executed, Returned, Ready} : l.text \notin {"ACK", "NACK"}
  BY LineTypes DEF Verified, Executed, Returned, Ready, Line
<1>. HIDE DEF Verified, Executed, Returned, Ready
<1>2. CASE phase = "frames"
  <2>1. Outcome = <<>>
    BY <1>2 DEF Outcome
  <2>. QED
    BY <1>2, <2>1
<1>3. CASE phase = "running"
  <2>1. Outcome = <<Verified, Executed>>
    BY <1>3 DEF Outcome
  <2>2. /\ Outcome \in Seq(HostLine) /\ Outcome # <<>> /\ Head(Outcome) = Verified
        /\ Tail(Outcome) = <<Executed>>
    BY <1>1, <2>1
  <2>. QED
    BY <1>1, <1>3, <2>1, <2>2
<1>4. CASE phase \notin {"frames", "running"}
  <2>1. Outcome = <<Verified, Executed, Returned, Ready>>
    BY <1>4 DEF Outcome
  <2>2. /\ Outcome \in Seq(HostLine) /\ Outcome # <<>> /\ Head(Outcome) = Verified
        /\ Tail(Outcome) = <<Executed, Returned, Ready>>
    BY <1>1, <2>1
  <2>3. Outcome = <<Verified, Executed>> \o <<Returned, Ready>>
    BY <1>1, <2>1
  <2>. QED
    BY <1>1, <1>4, <2>1, <2>2, <2>3
<1>. QED
  BY <1>2, <1>3, <1>4

(* Hearing the one element at the front, or losing it, leaves the rest.    *)
LEMMA FrontAndRest ==
  ASSUME NEW T, NEW a \in T, NEW s \in Seq(T)
  PROVE  /\ <<a>> \o s \in Seq(T)
         /\ <<a>> \o s # <<>>
         /\ Head(<<a>> \o s) = a
         /\ Tail(<<a>> \o s) = s
         /\ Without(<<a>> \o s, 1) = s
         /\ DOMAIN (<<a>> \o s) = 1..(Len(s) + 1)
         /\ (<<a>> \o s)[1] = a
         /\ \A i \in 2..(Len(s) + 1) : i - 1 \in DOMAIN s /\ (<<a>> \o s)[i] = s[i - 1]
<1>. DEFINE q == <<a>> \o s
<1>1. /\ q \in Seq(T) /\ Len(q) = Len(s) + 1 /\ Len(s) \in Nat
      /\ \A i \in 1..(Len(s) + 1) : q[i] = IF i <= 1 THEN a ELSE s[i - 1]
  <2>1. <<a>> \in Seq(T) /\ Len(<<a>>) = 1 /\ <<a>>[1] = a
    OBVIOUS
  <2>2. /\ q \in Seq(T) /\ Len(q) = 1 + Len(s)
        /\ \A i \in 1..(1 + Len(s)) : q[i] = IF i <= 1 THEN <<a>>[i] ELSE s[i - 1]
    BY <2>1, ConcatProperties
  <2>3. Len(s) \in Nat
    OBVIOUS
  <2>. QED
    BY <2>1, <2>2, <2>3
<1>. HIDE DEF q
<1>2. q # <<>> /\ Head(q) = a /\ q[1] = a /\ DOMAIN q = 1..(Len(s) + 1)
  BY <1>1
<1>3. \A i \in 2..(Len(s) + 1) : i - 1 \in DOMAIN s /\ q[i] = s[i - 1]
  BY <1>1
<1>4. Tail(q) = s
  <2>1. /\ Tail(q) \in Seq(T) /\ Len(Tail(q)) = Len(s)
        /\ \A i \in 1..Len(Tail(q)) : Tail(q)[i] = q[i + 1]
    BY <1>1, <1>2, HeadTailProperties
  <2>2. \A i \in 1..Len(s) : i + 1 \in 2..(Len(s) + 1) /\ (i + 1) - 1 = i
    BY <1>1
  <2>3. \A i \in 1..Len(s) : Tail(q)[i] = s[i]
    BY <1>3, <2>1, <2>2
  <2>. QED
    BY <2>1, <2>3, SeqEqual
<1>5. Without(q, 1) = s
  <2>1. Tail(q) = SubSeq(q, 2, Len(q))
    BY <1>1, <1>2, TailIsSubSeq
  <2>2. SubSeq(q, 1, 1 - 1) = <<>>
    BY SubSeqEmpty
  <2>3. Without(q, 1) = <<>> \o Tail(q)
    BY <2>1, <2>2 DEF Without
  <2>. QED
    BY <1>4, <2>3, ConcatEmptySeq
<1>. QED
  BY <1>1, <1>2, <1>3, <1>4, <1>5 DEF q

LEMMA OneOnly ==
  ASSUME NEW T, NEW a \in T
  PROVE  /\ <<a>> # <<>> /\ Head(<<a>>) = a /\ Tail(<<a>>) = <<>>
         /\ Without(<<a>>, 1) = <<>> /\ DOMAIN <<a>> = {1} /\ <<a>>[1] = a
         /\ \A s \in Seq(T) : <<>> \o s = s
<1>1. <<a>> = <<a>> \o <<>> /\ <<>> \in Seq(T) /\ <<a>> \in Seq(T)
  BY ConcatEmptySeq, EmptySeq
<1>2. Without(<<a>>, 1) = <<>>
  <2>. DEFINE e == <<>>
  <2>1. e \in Seq(T)
    BY <1>1
  <2>2. <<a>> \o e = <<a>>
    BY <1>1
  <2>. HIDE DEF e
  <2>3. Without(<<a>> \o e, 1) = e
    BY <2>1, FrontAndRest
  <2>. QED
    BY <2>2, <2>3 DEF e
<1>3. \A s \in Seq(T) : <<>> \o s = s
  BY ConcatEmptySeq
<1>. QED
  BY <1>2, <1>3

(* While calm, the line damages a unit or loses an answer, nothing else.   *)
OneMoreFault == Len(faults') = Len(faults) + 1
DataDamaged ==
  /\ OneMoreFault /\ UNCHANGED toHost
  /\ \E i \in DOMAIN toTarget :
       toTarget[i].kind = "data" /\ Replace(i, DataToken(Garbage))
AnswerLost ==
  /\ OneMoreFault /\ UNCHANGED toTarget
  /\ \E i \in DOMAIN toHost :
       toHost[i].text \in {"ACK", "NACK"} /\ toHost' = Without(toHost, i)

LEMMA CalmFaultKinds ==
  ASSUME TypeOK, Calm', runs' = runs, NEW kind, Occurs(kind)
  PROVE  Calm /\ OneMoreFault /\ kind \in {"reply", "data"}
<1>1. OnlyFaults({"reply", "data"}) /\ kind \in {"reply", "data"}
  BY FaultsKept DEF Calm
<1>2. /\ faults \in Seq(FaultKinds) /\ kind \in FaultKinds
      /\ faults' = Append(faults, kind) /\ Len(faults) \in Nat /\ Retries \in Nat
  BY DEF TypeOK, Occurs
<1>3. Len(faults') = Len(faults) + 1
  BY <1>2, AppendProperties
<1>. QED
  BY <1>1, <1>2, <1>3 DEF Calm, OneMoreFault

LEMMA CalmFault ==
  ASSUME TypeOK, Fault, Calm'
  PROVE  Calm /\ (DataDamaged \/ AnswerLost)
<1>0. runs' = runs
  BY DEF Fault
<1>1. CASE LoseToken
  BY <1>0, <1>1, CalmFaultKinds DEF LoseToken
<1>2. CASE DamageData
  <2>1. ~Occurs("collide")
    BY <1>0, CalmFaultKinds
  <2>2. /\ Occurs("data") /\ UNCHANGED toHost
        /\ \E i \in DOMAIN toTarget :
             toTarget[i].kind = "data" /\ Replace(i, DataToken(Garbage))
    BY <1>2, <2>1 DEF DamageData
  <2>3. Calm /\ OneMoreFault
    BY <1>0, <2>2, CalmFaultKinds
  <2>. QED
    BY <2>2, <2>3 DEF DataDamaged
<1>3. CASE DamageHeader
  BY <1>0, <1>3, CalmFaultKinds DEF DamageHeader
<1>4. CASE DamageFrame
  BY <1>0, <1>4, CalmFaultKinds DEF DamageFrame
<1>5. CASE LoseLine
  <2>1. ~Occurs("line")
    BY <1>0, CalmFaultKinds
  <2>2. /\ Occurs("reply") /\ UNCHANGED toTarget
        /\ \E i \in DOMAIN toHost :
             toHost[i].text \in {"ACK", "NACK"} /\ toHost' = Without(toHost, i)
    BY <1>5, <2>1 DEF LoseLine
  <2>3. Calm /\ OneMoreFault
    BY <1>0, <2>2, CalmFaultKinds
  <2>. QED
    BY <2>2, <2>3 DEF AnswerLost
<1>6. CASE ErodeLine
  BY <1>0, <1>6, CalmFaultKinds DEF ErodeLine
<1>. QED
  BY <1>1, <1>2, <1>3, <1>4, <1>5, <1>6 DEF Fault

(* A calm step follows a calm state.                                       *)
LEMMA CalmBefore ==
  ASSUME TypeOK, TimedNext, Calm'
  PROVE  Calm /\ ~TimedRerun
<1>1. ~TimedRerun
  BY DEF TypeOK, TimedRerun, Rerun, Calm
<1>2. CASE TimedFault
  BY <1>1, <1>2, CalmFault DEF TimedFault
<1>3. CASE TimedTarget \/ TimedReturn \/ TimedHost \/ Tick
  <2>1. UNCHANGED <<faults, runs>>
    BY <1>3 DEF TimedTarget, TimedReturn, TimedHost, Tick, vars
  <2>. QED
    BY <1>1, <2>1 DEF Calm, OnlyFaults
<1>. QED
  BY <1>1, <1>2, <1>3 DEF TimedNext

(* As long as nobody has waited, nothing times out.                        *)
LEMMA NoTimeoutYet ==
  ASSUME Hearing
  PROVE  /\ TimedTarget => TargetStep /\ Hearing'
         /\ TimedReturn => Hearing'
         /\ TimedHost => HostStep /\ Hearing'
         /\ TimedFault => Hearing'
<1>1. InterbyteTimeout # 0 /\ HostLimit # 0
  BY TimeoutAssumption DEF HostLimit
<1>. QED
  BY <1>1 DEF Hearing, TimedTarget, TimedReturn, TimedHost, TimedFault

(* A target that has nothing to read and units to wait for does nothing.   *)
LEMMA TargetIdle ==
  ASSUME toTarget = <<>>, phase = "frames" => received < Size, TypeOK
  PROVE  ~TargetStep
<1>1. received \in Nat /\ Size \in Nat
  BY SizeType DEF TypeOK
<1>. QED
  BY <1>1 DEF TargetStep, AcceptHeader, RejectHeader, InvalidFrame, DuplicateFrame,
         RejectFrame, AcceptFrame, RejectImage, ExecuteImage, FrameComplete

(* Nor does a tool that has nothing to hear.                               *)
LEMMA HostIdle ==
  ASSUME toHost = <<>>
  PROVE  ~HostStep
  BY DEF HostStep, SendHeader, SendFirstFrame, SendNextFrame, AllFramesSent,
         HearVerified, HearExec, HearNack, HearAbort, IgnoreLine, AckHeard, Heard

(* A line of one word is none of another word and no answer to a frame.    *)
LEMMA Words ==
  /\ Ready.text = "READY" /\ AbortLine.text = "ABORT"
  /\ Verified.text = "VERIFIED" /\ Executed.text = "EXEC"
  /\ \A t : Line(t).text = t
  /\ \A t, s : Status(t, s).text = t /\ Status(t, s).sequence = s
  BY DEF Ready, AbortLine, Verified, Executed, Line, Status

LEMMA NothingToDamage ==
  ASSUME TypeOK, Calm',
         \A i \in DOMAIN toTarget : toTarget[i].kind # "data",
         \A i \in DOMAIN toHost : toHost[i].text \notin {"ACK", "NACK"}
  PROVE  ~TimedFault
  BY CalmFault DEF TimedFault, DataDamaged, AnswerLost

LEMMA FromAsking ==
  ASSUME TypeOK, TimedNext, Calm', Asking
  PROVE  Opening'
<1>1. /\ host = "ready" /\ phase = "ready" /\ Hearing
      /\ toTarget = <<>> /\ toHost = <<Ready>>
  BY DEF Asking
<1>2. Ready \in HostLine /\ HeaderToken(TRUE) \in Token
  BY LineTypes DEF HeaderToken, Token
<1>3. /\ toHost # <<>> /\ Head(toHost) = Ready /\ Tail(toHost) = <<>>
      /\ DOMAIN toHost = {1} /\ toHost[1] = Ready
  BY <1>1, <1>2, OneOnly
<1>4. CASE TimedTarget
  BY <1>1, <1>4, NoTimeoutYet, TargetIdle
<1>5. CASE TimedReturn
  BY <1>1, <1>5 DEF TimedReturn, PayloadReturns
<1>6. CASE TimedHost
  <2>1. HostStep /\ Hearing' /\ phase' = phase
    BY <1>1, <1>6, NoTimeoutYet DEF TimedHost, targetVars
  <2>2. SendHeader
    BY <1>1, <1>3, <2>1, Words
       DEF HostStep, SendHeader, SendFirstFrame, SendNextFrame, AllFramesSent,
           HearVerified, HearExec, HearNack, HearAbort, IgnoreLine, AckHeard,
           AwaitsVerified, Heard, Expecting
  <2>3. host' = "header-ack" /\ toTarget' = <<>> \o <<HeaderToken(TRUE)>> /\ toHost' = <<>>
    BY <1>1, <1>3, <2>2 DEF SendHeader, Send, NextLine
  <2>4. <<>> \o <<HeaderToken(TRUE)>> = <<HeaderToken(TRUE)>>
    BY <1>2
  <2>. QED
    BY <1>1, <2>1, <2>3, <2>4 DEF Opening
<1>7. CASE TimedFault
  BY <1>1, <1>3, <1>7, NothingToDamage, Words
<1>8. CASE Tick
  BY <1>1, <1>3, <1>8 DEF Tick, Quiet, Waiting
<1>. QED
  BY <1>4, <1>5, <1>6, <1>7, <1>8, CalmBefore DEF TimedNext

LEMMA FromOpening ==
  ASSUME TypeOK, TimedNext, Calm', Opening
  PROVE  Opened'
<1>1. /\ host = "header-ack" /\ phase = "ready" /\ Hearing
      /\ toTarget = <<HeaderToken(TRUE)>> /\ toHost = <<>>
  BY DEF Opening
<1>2. /\ Line("HEADER-ACK") \in HostLine /\ HeaderToken(TRUE) \in Token
      /\ HeaderToken(TRUE).kind = "header" /\ HeaderToken(TRUE).valid
  BY LineTypes DEF HeaderToken, Token
<1>3. /\ toTarget # <<>> /\ Head(toTarget) = HeaderToken(TRUE)
      /\ DOMAIN toTarget = {1} /\ toTarget[1] = HeaderToken(TRUE)
  BY <1>1, <1>2, OneOnly
<1>4. CASE TimedTarget
  <2>1. TargetStep /\ Hearing' /\ host' = host
    BY <1>1, <1>4, NoTimeoutYet DEF TimedTarget, hostVars
  <2>2. AcceptHeader
    BY <1>1, <1>2, <1>3, <2>1
       DEF TargetStep, RejectHeader, InvalidFrame, DuplicateFrame,
           RejectFrame, AcceptFrame, RejectImage, ExecuteImage, FrameComplete
  <2>3. /\ phase' = "frames" /\ received' = 0 /\ expected' = 0 /\ hashed' = <<>>
        /\ Consume(1) /\ Say(<<Line("HEADER-ACK")>>)
    BY <2>2 DEF AcceptHeader
  <2>4. toTarget' = <<>>
    <3>1. Len(toTarget) = 1
      BY <1>1
    <3>2. SubSeq(toTarget, 1 + 1, Len(toTarget)) = <<>>
      BY <3>1, SubSeqEmpty
    <3>. QED
      BY <2>3, <3>2 DEF Consume
  <2>5. toHost' = <<Line("HEADER-ACK")>>
    <3>1. <<Line("HEADER-ACK")>> \in Seq(HostLine)
      BY <1>2, OneLine
    <3>2. toHost' = <<>> \o <<Line("HEADER-ACK")>>
      BY <1>1, <2>3 DEF Say
    <3>. QED
      BY <3>1, <3>2, ConcatEmptySeq
  <2>6. 0 < Size /\ HashedRight'
    BY <2>3, SizeType DEF HashedRight
  <2>. QED
    BY <1>1, <2>1, <2>3, <2>4, <2>5, <2>6 DEF Opened, Receiving
<1>5. CASE TimedReturn
  BY <1>1, <1>5 DEF TimedReturn, PayloadReturns
<1>6. CASE TimedHost
  BY <1>1, <1>6, NoTimeoutYet, HostIdle
<1>7. CASE TimedFault
  <2>1. DOMAIN toHost = {}
    BY <1>1
  <2>. QED
    BY <1>2, <1>3, <1>7, <2>1, NothingToDamage
<1>8. CASE Tick
  BY <1>1, <1>3, <1>8 DEF Tick, Quiet, TargetStarved
<1>. QED
  BY <1>4, <1>5, <1>6, <1>7, <1>8, CalmBefore DEF TimedNext

(* What the tool puts on an empty line is one undamaged frame.             *)
LEMMA FramePut ==
  ASSUME TypeOK, NEW s \in Nat, NEW o \in 0..(Size - 1),
         toTarget = <<>>, Send(FrameTokens(s, o)), sequence' = s, offset' = o
  PROVE  FrameOnLine' /\ Undamaged' /\ toTarget' # toTarget
<1>. DEFINE h == FrameToken(TRUE, s, FrameLength(o), CrcOf(Payload(o)))
            n == FrameLength(o)
            d == [i \in 1..n |-> DataToken(Payload(o)[i])]
<1>1. n \in Nat \ {0} /\ \A i \in 1..n : Payload(o)[i] \in Nat
  BY PayloadType
<1>2. h \in Token
  BY PayloadType, CrcType DEF FrameToken, Token
<1>3. d \in Seq(Token) /\ Len(d) = n /\ \A i \in 1..n : d[i] = DataToken(Payload(o)[i])
  <2>1. \A i \in 1..n : DataToken(Payload(o)[i]) \in Token
    BY <1>1 DEF DataToken, Token
  <2>. HIDE DEF n
  <2>2. d \in [1..n -> Token]
    BY <2>1
  <2>. QED
    BY <1>1, <2>2, FunctionIsSeq
<1>4. toTarget' = <<h>> \o d
  <2>1. FrameTokens(s, o) = <<h>> \o d
    BY DEF FrameTokens
  <2>2. FrameTokens(s, o) \in Seq(Token)
    BY FrameTokensType
  <2>3. toTarget' = <<>> \o FrameTokens(s, o)
    BY DEF Send
  <2>. QED
    BY <2>1, <2>2, <2>3, ConcatEmptySeq
<1>5. ThisFrame' = h /\ FrameLength(offset)' = n /\ Payload(offset)' = Payload(o)
  BY DEF ThisFrame, FrameLength, Payload
<1>. HIDE DEF h, d, n
<1>6. /\ toTarget'[1] = h /\ Len(toTarget') = n + 1 /\ toTarget' # <<>>
      /\ \A i \in 2..(n + 1) : toTarget'[i] = d[i - 1]
  <2>1. /\ <<h>> \o d # <<>> /\ (<<h>> \o d)[1] = h
        /\ \A i \in 2..(Len(d) + 1) : (<<h>> \o d)[i] = d[i - 1]
    BY <1>2, <1>3, FrontAndRest
  <2>2. <<h>> \in Seq(Token) /\ Len(<<h>>) = 1
    BY <1>2
  <2>3. Len(<<h>> \o d) = 1 + n
    BY <1>3, <2>2, ConcatProperties
  <2>. QED
    BY <1>1, <1>3, <1>4, <2>1, <2>3
<1>7. \A i \in 1..n : toTarget'[i + 1] = DataToken(Payload(o)[i])
  <2>1. \A i \in 1..n : i + 1 \in 2..(n + 1) /\ (i + 1) - 1 = i
    BY <1>1
  <2>. QED
    BY <1>3, <1>6, <2>1
<1>8. \A i \in 1..n : /\ toTarget'[i + 1].kind = "data"
                      /\ toTarget'[i + 1].value = Payload(o)[i]
  <2>1. \A u : DataToken(u).kind = "data" /\ DataToken(u).value = u
    BY DEF DataToken
  <2>. QED
    BY <1>7, <2>1
<1>. QED
  BY <1>5, <1>6, <1>8 DEF FrameOnLine, Undamaged

LEMMA FromOpened ==
  ASSUME TypeOK, TimedNext, Calm', Opened
  PROVE  Sent'
<1>1. /\ host = "header-ack" /\ Receiving /\ received = 0 /\ expected = 0 /\ Hearing
      /\ toTarget = <<>> /\ toHost = <<Line("HEADER-ACK")>> /\ phase = "frames"
      /\ received < Size
  BY DEF Opened, Receiving
<1>2. Line("HEADER-ACK") \in HostLine
  BY LineTypes
<1>3. /\ toHost # <<>> /\ Head(toHost) = Line("HEADER-ACK") /\ Tail(toHost) = <<>>
      /\ DOMAIN toHost = {1} /\ toHost[1] = Line("HEADER-ACK")
  BY <1>1, <1>2, OneOnly
<1>4. CASE TimedTarget
  BY <1>1, <1>4, NoTimeoutYet, TargetIdle
<1>5. CASE TimedReturn
  BY <1>1, <1>5 DEF TimedReturn, PayloadReturns
<1>6. CASE TimedHost
  <2>1. HostStep /\ Hearing' /\ UNCHANGED <<targetVars, faults>>
    BY <1>1, <1>6, NoTimeoutYet DEF TimedHost
  <2>2. SendFirstFrame
    BY <1>1, <1>3, <2>1, Words
       DEF HostStep, SendHeader, SendFirstFrame, SendNextFrame, AllFramesSent,
           HearVerified, HearExec, HearNack, HearAbort, IgnoreLine, AckHeard,
           AwaitsVerified, Heard, Expecting
  <2>3. /\ host' = "ack" /\ sequence' = 0 /\ offset' = 0 /\ attempt' = 0
        /\ Send(FrameTokens(0, 0)) /\ toHost' = <<>>
    BY <1>3, <2>2 DEF SendFirstFrame, SendFrame, NextLine
  <2>4. FrameOnLine' /\ Undamaged'
    <3>1. 0 \in Nat /\ 0 \in 0..(Size - 1)
      BY SizeType
    <3>. QED
      BY <1>1, <2>3, <3>1, FramePut
  <2>5. Receiving' /\ Unstored'
    BY <1>1, <2>1, <2>3 DEF Receiving, Unstored, HashedRight, targetVars
  <2>6. attempt' <= Len(faults')
    <3>1. faults' = faults /\ Len(faults) \in Nat
      BY <2>1 DEF TypeOK
    <3>. QED
      BY <2>3, <3>1
  <2>. QED
    BY <2>1, <2>3, <2>4, <2>5, <2>6 DEF Sent
<1>7. CASE TimedFault
  <2>1. DOMAIN toTarget = {}
    BY <1>1
  <2>. QED
    BY <1>3, <1>7, <2>1, NothingToDamage, Words
<1>8. CASE Tick
  BY <1>1, <1>3, <1>8 DEF Tick, Quiet, Waiting
<1>. QED
  BY <1>4, <1>5, <1>6, <1>7, <1>8, CalmBefore DEF TimedNext

(* The target reads the frame whole, and its CRC tells whether a unit was
   damaged.                                                                *)
LEMMA FrameRead ==
  ASSUME TypeOK, FrameOnLine, GarbageSeen, phase = "frames", received < Size
  PROVE  /\ FrameComplete
         /\ Head(toTarget) = ThisFrame
         /\ Len(toTarget) = FrameLength(offset) + 1
         /\ Undamaged <=> FrameCrcMatches(ThisFrame)
         /\ Undamaged => Chunk(FrameLength(offset)) = Payload(offset)
<1>. DEFINE n == FrameLength(offset)
            p == Payload(offset)
            c == Chunk(n)
<1>1. /\ n \in 1..ChunkSize /\ n \in Nat \ {0} /\ offset + n <= Size
      /\ p = [i \in 1..n |-> Image[offset + i]]
      /\ \A i \in 1..n : p[i] \in Nat
  <2>1. n <= ChunkSize
    BY SizeType DEF FrameLength, TypeOK
  <2>2. n \in Nat \ {0} /\ offset + n <= Size /\ \A i \in 1..n : p[i] \in Nat
    BY PayloadType DEF TypeOK
  <2>3. p = [i \in 1..n |-> Image[offset + i]]
    BY DEF Payload
  <2>. QED
    BY <2>1, <2>2, <2>3
<1>2. /\ ThisFrame.kind = "frame" /\ ThisFrame.magic /\ ThisFrame.length = n
      /\ ThisFrame.crc = CrcOf(p)
  BY DEF ThisFrame, FrameToken
<1>3. /\ toTarget \in Seq(Token) /\ Len(toTarget) = n + 1 /\ toTarget # <<>>
      /\ Head(toTarget) = ThisFrame
      /\ \A i \in 1..n : /\ toTarget[i + 1].kind = "data"
                         /\ toTarget[i + 1].value \in {p[i], Garbage}
  <2>1. toTarget \in Seq(Token) /\ Len(toTarget) = n + 1 /\ toTarget[1] = ThisFrame
    BY DEF FrameOnLine, TypeOK
  <2>2. toTarget # <<>>
    BY <1>1, <2>1
  <2>3. Head(toTarget) = ThisFrame
    BY <2>1, <2>2
  <2>. QED
    BY <2>1, <2>2, <2>3 DEF FrameOnLine
<1>4. c = [i \in 1..n |-> toTarget[i + 1].value]
  BY <1>3 DEF Chunk, UnitOf
<1>5. FrameComplete
  <2>1. FrameHeaderValid(ThisFrame)
    BY <1>1, <1>2 DEF FrameHeaderValid
  <2>2. Len(toTarget) > ThisFrame.length
    BY <1>1, <1>2, <1>3
  <2>. QED
    BY <1>3, <2>1, <2>2 DEF FrameComplete
<1>6. Undamaged => c = p
  BY <1>1, <1>4 DEF Undamaged
<1>7. FrameCrcMatches(ThisFrame) <=> CrcOf(c) = CrcOf(p)
  BY <1>2 DEF FrameCrcMatches
<1>8. ASSUME CrcOf(c) = CrcOf(p) PROVE Undamaged
  <2>. SUFFICES ASSUME NEW i \in 1..n PROVE toTarget[i + 1].value = p[i]
    BY DEF Undamaged
  <2>1. DOMAIN c = 1..n /\ DOMAIN p = 1..n
    BY <1>1, <1>4
  <2>2. CrcOf(c)[i] = c[i] % CrcMod /\ CrcOf(p)[i] = p[i] % CrcMod
    BY <2>1 DEF CrcOf
  <2>3. c[i] = toTarget[i + 1].value /\ p[i] = Image[offset + i]
    BY <1>1, <1>4
  <2>4. offset + i \in 1..Size
    BY <1>1, SizeType DEF TypeOK
  <2>5. p[i] % CrcMod # Garbage % CrcMod
    BY <2>3, <2>4 DEF GarbageSeen
  <2>6. toTarget[i + 1].value # Garbage
    BY <1>8, <2>2, <2>3, <2>5
  <2>. QED
    BY <1>3, <2>6
<1>. QED
  BY <1>3, <1>5, <1>6, <1>7, <1>8

(* A damaged unit leaves a frame on the line.                              *)
LEMMA FrameDamaged ==
  ASSUME TypeOK, FrameOnLine, DataDamaged, UNCHANGED <<sequence, offset>>
  PROVE  FrameOnLine'
<1>. DEFINE n == FrameLength(offset)
<1>1. n \in Nat \ {0}
  BY PayloadType DEF TypeOK
<1>2. PICK k \in DOMAIN toTarget :
        toTarget[k].kind = "data" /\ toTarget' = [toTarget EXCEPT ![k] = DataToken(Garbage)]
  BY DEF DataDamaged, Replace
<1>3. toTarget \in Seq(Token) /\ Len(toTarget) = n + 1 /\ toTarget[1] = ThisFrame
  BY DEF FrameOnLine, TypeOK
<1>4. k # 1
  <2>1. ThisFrame.kind = "frame"
    BY DEF ThisFrame, FrameToken
  <2>. QED
    BY <1>2, <1>3, <2>1
<1>5. /\ Len(toTarget') = n + 1
      /\ \A j \in 1..(n + 1) : toTarget'[j] = IF j = k THEN DataToken(Garbage)
                                                       ELSE toTarget[j]
  <2>1. k \in 1..Len(toTarget)
    BY <1>3
  <2>2. DataToken(Garbage) \in Token
    BY DEF DataToken, Garbage, Token
  <2>. QED
    BY <1>2, <1>3, <2>1, <2>2, ExceptSeq
<1>6. ThisFrame' = ThisFrame /\ FrameLength(offset)' = n /\ Payload(offset)' = Payload(offset)
  BY DEF ThisFrame, FrameLength, Payload
<1>7. toTarget'[1] = ThisFrame
  BY <1>1, <1>3, <1>4, <1>5
<1>8. \A i \in 1..n : /\ toTarget'[i + 1].kind = "data"
                      /\ toTarget'[i + 1].value \in {Payload(offset)[i], Garbage}
  <2>. SUFFICES ASSUME NEW i \in 1..n
                PROVE  /\ toTarget'[i + 1].kind = "data"
                       /\ toTarget'[i + 1].value \in {Payload(offset)[i], Garbage}
    OBVIOUS
  <2>1. i + 1 \in 1..(n + 1)
    BY <1>1
  <2>2. DataToken(Garbage).kind = "data" /\ DataToken(Garbage).value = Garbage
    BY DEF DataToken
  <2>3. /\ toTarget[i + 1].kind = "data"
        /\ toTarget[i + 1].value \in {Payload(offset)[i], Garbage}
    BY DEF FrameOnLine
  <2>4. toTarget'[i + 1] = DataToken(Garbage) \/ toTarget'[i + 1] = toTarget[i + 1]
    BY <1>5, <2>1
  <2>. QED
    BY <2>2, <2>3, <2>4
<1>. QED
  BY <1>5, <1>6, <1>7, <1>8 DEF FrameOnLine

(* An undamaged frame extends what was hashed by its part of the image.    *)
LEMMA FrameStored ==
  ASSUME TypeOK, AcceptFrame, Unstored, HashedRight, phase = "frames",
         Head(toTarget) = ThisFrame, Chunk(FrameLength(offset)) = Payload(offset),
         UNCHANGED <<sequence, offset>>
  PROVE  Stored' /\ HashedRight' /\ phase' = "frames" /\ received' <= Size
<1>. DEFINE n == FrameLength(offset)
            p == Payload(offset)
<1>1. /\ offset \in Nat /\ n \in Nat \ {0} /\ offset + n <= Size
      /\ p \in Seq(Nat) /\ p = [i \in 1..n |-> Image[offset + i]]
  <2>1. offset \in 0..(Size - 1)
    BY DEF TypeOK
  <2>2. n \in Nat \ {0} /\ offset + n <= Size /\ p \in Seq(Nat)
    BY <2>1, PayloadType
  <2>3. p = [i \in 1..n |-> Image[offset + i]]
    BY DEF Payload
  <2>. QED
    BY <2>1, <2>2, <2>3
<1>2. ThisFrame.length = n /\ ThisFrame.crc = CrcOf(p) /\ ThisFrame.sequence = sequence
  BY DEF ThisFrame, FrameToken
<1>3. /\ hashed' = hashed \o p
      /\ received' = received + n
      /\ previous' = [length |-> n, crc |-> CrcOf(p)]
      /\ expected' = expected + 1
      /\ phase' = phase
  BY <1>2 DEF AcceptFrame
<1>4. FrameLength(offset)' = n /\ Payload(offset)' = p
  BY DEF FrameLength, Payload
<1>. HIDE DEF n, p
<1>5. /\ received = offset /\ received \in Nat /\ hashed \in Seq(Nat)
      /\ Len(hashed) = received /\ \A i \in 1..received : hashed[i] = Image[i]
  BY <1>1 DEF Unstored, HashedRight, TypeOK
<1>6. Len(p) = n /\ \A i \in 1..n : p[i] = Image[offset + i]
  BY <1>1
<1>7. /\ Len(hashed') = received + n
      /\ \A i \in 1..(received + n) :
           hashed'[i] = IF i <= received THEN hashed[i] ELSE p[i - received]
  <2>1. /\ Len(hashed \o p) = Len(hashed) + Len(p)
        /\ \A i \in 1..(Len(hashed) + Len(p)) :
             (hashed \o p)[i] = IF i <= Len(hashed) THEN hashed[i] ELSE p[i - Len(hashed)]
    BY <1>1, <1>5, ConcatProperties
  <2>. QED
    BY <1>3, <1>5, <1>6, <2>1
<1>8. ASSUME NEW i \in 1..(received + n) PROVE hashed'[i] = Image[i]
  <2>1. CASE i <= received
    <3>1. i \in 1..received
      BY <1>5, <2>1
    <3>. QED
      BY <1>5, <1>7, <2>1, <3>1
  <2>2. CASE ~(i <= received)
    <3>1. i - received \in 1..n /\ offset + (i - received) = i
      BY <1>1, <1>5, <2>2
    <3>. QED
      BY <1>6, <1>7, <2>2, <3>1
  <2>. QED
    BY <2>1, <2>2
<1>9. HashedRight'
  BY <1>3, <1>7, <1>8 DEF HashedRight
<1>10. Stored'
  BY <1>3, <1>4, <1>5 DEF Stored, Unstored
<1>. QED
  BY <1>1, <1>3, <1>5, <1>9, <1>10

(* Nothing but the answer is on the line once a frame has been read.       *)
LEMMA AnswerOnly ==
  ASSUME TypeOK, host = "ack", toHost = <<>>, NEW n \in Nat, Len(toTarget) = n + 1,
         Consume(n + 1), NEW line \in HostLine, Say(<<line>>)
  PROVE  toTarget' = <<>> /\ toHost' = <<line>>
<1>1. toTarget' = <<>>
  <2>1. Len(toTarget) < (n + 1) + 1
    OBVIOUS
  <2>2. SubSeq(toTarget, (n + 1) + 1, Len(toTarget)) = <<>>
    BY <2>1, SubSeqEmpty
  <2>. QED
    BY <2>2 DEF Consume
<1>2. toHost' = <<line>>
  <2>1. toHost' = <<>> \o <<line>> /\ <<line>> \in Seq(HostLine)
    BY OneLine DEF Say
  <2>. QED
    BY <2>1, ConcatEmptySeq
<1>. QED
  BY <1>1, <1>2

(* The target answers the frame on the line.                               *)
LEMMA FrameAnswer ==
  ASSUME TypeOK, GarbageSeen, Sent, TargetStep, Hearing',
         UNCHANGED <<hostVars, faults, runs>>
  PROVE  Acked' \/ Nacked'
<1>. DEFINE n == FrameLength(offset)
<1>1. /\ host = "ack" /\ phase = "frames" /\ received < Size /\ HashedRight
      /\ FrameOnLine /\ toHost = <<>> /\ (Unstored \/ Stored)
      /\ attempt <= Len(faults) /\ (~Undamaged => attempt < Len(faults))
  BY DEF Sent, Receiving
<1>2. /\ FrameComplete /\ Head(toTarget) = ThisFrame /\ Len(toTarget) = n + 1
      /\ Undamaged <=> FrameCrcMatches(ThisFrame)
      /\ Undamaged => Chunk(n) = Payload(offset)
  BY <1>1, FrameRead
<1>3. /\ ThisFrame.length = n /\ ThisFrame.crc = CrcOf(Payload(offset))
      /\ ThisFrame.sequence = sequence
  BY DEF ThisFrame, FrameToken
<1>4. /\ n \in Nat /\ offset + n <= Size /\ sequence \in Nat /\ expected \in Nat
      /\ received \in Nat /\ Size \in Nat
  BY PayloadType, SizeType DEF TypeOK
<1>5. DuplicateFrame \/ RejectFrame \/ AcceptFrame
  BY <1>1, <1>2, <1>4
     DEF TargetStep, AcceptHeader, RejectHeader, InvalidFrame, RejectImage,
         ExecuteImage, FrameComplete
<1>6. /\ UNCHANGED <<sequence, offset, attempt, faults>> /\ host' = "ack"
      /\ FrameLength(offset)' = n
  BY <1>1 DEF hostVars, FrameLength
<1>7. ASSUME NEW line \in HostLine, Say(<<line>>), Consume(ThisFrame.length + 1)
      PROVE  toTarget' = <<>> /\ toHost' = <<line>>
  <2>1. n \in Nat /\ Len(toTarget) = n + 1 /\ Consume(n + 1)
    BY <1>2, <1>3, <1>4, <1>7
  <2>. HIDE DEF n
  <2>. QED
    BY <1>1, <1>7, <2>1, AnswerOnly
<1>8. \A s \in Nat : Status("ACK", s) \in HostLine /\ Status("NACK", s) \in HostLine
  BY LineTypes
<1>9. ASSUME UNCHANGED targetVars
      PROVE  Receiving' /\ (Unstored => Unstored') /\ (Stored => Stored')
  BY <1>1, <1>6, <1>9
     DEF targetVars, Receiving, HashedRight, Unstored, Stored, FrameLength, Payload
<1>. HIDE DEF n
<1>10. ASSUME AcceptFrame PROVE Acked'
  <2>1. ~Stored
    BY <1>2, <1>3, <1>4, <1>10 DEF AcceptFrame, IsDuplicate, Stored
  <2>2. Unstored /\ Undamaged
    BY <1>1, <1>2, <1>10, <2>1 DEF AcceptFrame, FrameFits
  <2>3. Stored' /\ HashedRight' /\ phase' = "frames" /\ received' <= Size
    BY <1>1, <1>2, <1>6, <1>10, <2>2, FrameStored DEF n
  <2>4. Receiving' \/ Finished'
    <3>1. received' \in Nat
      BY <1>2, <1>3, <1>4, <1>10 DEF AcceptFrame
    <3>. QED
      BY <1>4, <2>3, <3>1 DEF Receiving, Finished, Size
  <2>5. toTarget' = <<>> /\ toHost' = <<Status("ACK", sequence)>>
    <3>1. Say(<<Status("ACK", sequence)>>) /\ Consume(ThisFrame.length + 1)
      BY <1>2, <2>2, <1>10 DEF AcceptFrame, Unstored
    <3>. QED
      BY <1>4, <1>7, <1>8, <3>1
  <2>6. toHost' = <<Status("ACK", sequence)'>> \o Outcome'
    <3>1. Outcome' = <<>>
      BY <2>3 DEF Outcome
    <3>2. <<Status("ACK", sequence)>> \in Seq(HostLine)
      BY <1>4, <1>8, OneLine
    <3>3. <<Status("ACK", sequence)>> \o <<>> = <<Status("ACK", sequence)>>
      BY <3>2, ConcatEmptySeq
    <3>. QED
      BY <1>6, <2>5, <3>1, <3>3
  <2>. QED
    BY <1>1, <1>6, <2>3, <2>4, <2>5, <2>6 DEF Acked
<1>11. ASSUME RejectFrame PROVE Nacked'
  <2>1. ~Stored
    <3>1. ~IsDuplicate(ThisFrame)
      BY <1>2, <1>11 DEF RejectFrame
    <3>. QED
      BY <1>3, <1>4, <3>1 DEF IsDuplicate, Stored
  <2>2. Unstored
    BY <1>1, <2>1
  <2>3. ~Undamaged
    <3>1. sequence = expected /\ n <= Size - received
      BY <1>4, <2>2 DEF Unstored
    <3>2. ~FrameFits(ThisFrame)
      BY <1>2, <1>11 DEF RejectFrame
    <3>. QED
      BY <1>2, <1>3, <3>1, <3>2 DEF FrameFits
  <2>4. UNCHANGED targetVars
    BY <1>11 DEF RejectFrame
  <2>5. Receiving' /\ Unstored' /\ expected' = expected
    BY <1>9, <2>2, <2>4 DEF targetVars
  <2>6. toTarget' = <<>> /\ toHost' = <<Status("NACK", expected)>>
    <3>1. Say(<<Status("NACK", expected)>>) /\ Consume(ThisFrame.length + 1)
      BY <1>2, <1>11 DEF RejectFrame
    <3>. QED
      BY <1>4, <1>7, <1>8, <3>1
  <2>. QED
    BY <1>1, <1>6, <2>3, <2>5, <2>6 DEF Nacked
<1>12. ASSUME DuplicateFrame PROVE Acked' \/ Nacked'
  <2>1. ~Unstored
    BY <1>2, <1>3, <1>4, <1>12 DEF DuplicateFrame, IsDuplicate, Unstored
  <2>2. Stored
    BY <1>1, <2>1
  <2>3. UNCHANGED targetVars
    BY <1>12 DEF DuplicateFrame
  <2>4. Receiving' /\ Stored' /\ expected' = expected /\ phase' = "frames"
    BY <1>1, <1>9, <2>2, <2>3 DEF targetVars
  <2>5. DuplicateMatches(ThisFrame) <=> Undamaged
    BY <1>2, <1>3, <2>2 DEF DuplicateMatches, Stored, n
  <2>6. /\ Consume(ThisFrame.length + 1)
        /\ Say(<<IF DuplicateMatches(ThisFrame) THEN Status("ACK", sequence)
                                                ELSE Status("NACK", expected)>>)
    BY <1>2, <1>3, <1>12 DEF DuplicateFrame
  <2>7. CASE Undamaged
    <3>1. toTarget' = <<>> /\ toHost' = <<Status("ACK", sequence)>>
      BY <1>4, <1>7, <1>8, <2>5, <2>6, <2>7
    <3>2. Outcome' = <<>>
      BY <2>4 DEF Outcome
    <3>3. <<Status("ACK", sequence)>> \o <<>> = <<Status("ACK", sequence)>>
      <4>1. <<Status("ACK", sequence)>> \in Seq(HostLine)
        BY <1>4, <1>8, OneLine
      <4>. QED
        BY <4>1, ConcatEmptySeq
    <3>4. toHost' = <<Status("ACK", sequence)'>> \o Outcome'
      BY <1>6, <3>1, <3>2, <3>3
    <3>. QED
      BY <1>1, <1>6, <2>4, <3>1, <3>4 DEF Acked
  <2>8. CASE ~Undamaged
    <3>1. toTarget' = <<>> /\ toHost' = <<Status("NACK", expected)>>
      BY <1>4, <1>7, <1>8, <2>5, <2>6, <2>8
    <3>. QED
      BY <1>1, <1>6, <2>4, <2>8, <3>1 DEF Nacked
  <2>. QED
    BY <2>7, <2>8
<1>. QED
  BY <1>5, <1>10, <1>11, <1>12

LEMMA FromSent ==
  ASSUME TypeOK, TimedNext, Calm', GarbageSeen, Sent
  PROVE  Sent' \/ Acked' \/ Nacked'
<1>1. /\ host = "ack" /\ phase = "frames" /\ received < Size /\ Hearing
      /\ FrameOnLine /\ toHost = <<>> /\ attempt <= Len(faults)
  BY DEF Sent, Receiving
<1>2. CASE TimedTarget
  <2>1. TargetStep /\ Hearing' /\ UNCHANGED <<hostVars, faults, runs>>
    BY <1>1, <1>2, NoTimeoutYet DEF TimedTarget
  <2>. QED
    BY <2>1, FrameAnswer
<1>3. CASE TimedReturn
  BY <1>1, <1>3 DEF TimedReturn, PayloadReturns
<1>4. CASE TimedHost
  BY <1>1, <1>4, NoTimeoutYet, HostIdle
<1>5. CASE TimedFault
  <2>1. Hearing' /\ UNCHANGED <<targetVars, hostVars>>
    BY <1>1, <1>5, NoTimeoutYet DEF TimedFault, Fault
  <2>2. DataDamaged
    <3>1. DOMAIN toHost = {}
      BY <1>1
    <3>. QED
      BY <1>5, <3>1, CalmFault DEF TimedFault, AnswerLost
  <2>3. FrameOnLine' /\ toHost' = <<>>
    BY <1>1, <2>1, <2>2, FrameDamaged DEF hostVars, DataDamaged
  <2>4. attempt' < Len(faults')
    <3>1. attempt \in Nat /\ Len(faults) \in Nat /\ attempt' = attempt
      BY <2>1 DEF TypeOK, hostVars
    <3>. QED
      BY <1>1, <2>2, <3>1 DEF DataDamaged, OneMoreFault
  <2>5. attempt' <= Len(faults')
    BY <2>1, <2>2, <2>4 DEF TypeOK, hostVars, DataDamaged, OneMoreFault
  <2>6. Receiving' /\ (Unstored \/ Stored)'
    BY <2>1 DEF Sent, Receiving, HashedRight, Unstored, Stored, FrameLength, Payload,
                targetVars, hostVars
  <2>7. host' = "ack"
    BY <1>1, <2>1 DEF hostVars
  <2>. QED
    BY <2>1, <2>3, <2>4, <2>5, <2>6, <2>7 DEF Sent
<1>6. CASE Tick
  <2>1. toTarget # <<>> /\ FrameComplete
    BY <1>1, FrameRead DEF FrameComplete
  <2>. QED
    BY <1>1, <1>6, <2>1 DEF Tick, Quiet, TargetStarved
<1>. QED
  BY <1>2, <1>3, <1>4, <1>5, <1>6, CalmBefore DEF TimedNext

(* A resend puts the frame on the line again.                              *)
LEMMA Resent ==
  ASSUME TypeOK, host = "ack", toTarget = <<>>, Resend, Receiving,
         Unstored \/ Stored, attempt < Len(faults), Hearing', toHost' = <<>>,
         UNCHANGED <<targetVars, faults>>
  PROVE  Sent'
<1>1. /\ host' = "ack" /\ attempt' = attempt + 1 /\ UNCHANGED <<sequence, offset>>
      /\ Send(FrameTokens(sequence, offset))
  BY DEF Resend
<1>2. sequence \in Nat /\ offset \in 0..(Size - 1) /\ attempt \in Nat /\ Len(faults) \in Nat
  BY DEF TypeOK
<1>3. FrameOnLine' /\ Undamaged'
  BY <1>1, <1>2, FramePut
<1>4. attempt' <= Len(faults')
  BY <1>1, <1>2
<1>5. Receiving' /\ (Unstored \/ Stored)'
  BY <1>1 DEF Receiving, HashedRight, Unstored, Stored, FrameLength, Payload, targetVars
<1>. QED
  BY <1>1, <1>3, <1>4, <1>5 DEF Sent

LEMMA FromUnheard ==
  ASSUME TypeOK, TimedNext, Calm', AckTimeout < InterbyteTimeout, Unheard
  PROVE  Sent' \/ Unheard'
<1>1. /\ host = "ack" /\ Receiving /\ (Unstored \/ Stored)
      /\ targetClock \in 0..hostClock /\ hostClock \in 0..AckTimeout
      /\ toTarget = <<>> /\ toHost = <<>> /\ attempt < Len(faults)
      /\ phase = "frames" /\ received < Size
  BY DEF Unheard, Receiving
<1>2. AckTimeout \in Nat /\ InterbyteTimeout \in Nat
  BY TimeoutAssumption
<1>3. DOMAIN toTarget = {} /\ DOMAIN toHost = {}
  BY <1>1
<1>4. CASE TimedTarget
  <2>1. targetClock # InterbyteTimeout
    BY <1>1, <1>2
  <2>. QED
    BY <1>1, <1>4, <2>1, TargetIdle DEF TimedTarget
<1>5. CASE TimedReturn
  BY <1>1, <1>5 DEF TimedReturn, PayloadReturns
<1>6. CASE TimedHost
  <2>1. HostTimeout /\ UNCHANGED <<targetVars, faults>>
    BY <1>1, <1>6, HostIdle DEF TimedHost
  <2>2. attempt # Retries
    <3>1. attempt \in Nat /\ Len(faults) \in Nat /\ Len(faults) <= Retries /\ Retries \in Nat
      BY CalmBefore DEF TypeOK, Calm
    <3>. QED
      BY <1>1, <3>1
  <2>3. Resend /\ toHost' = <<>>
    BY <1>1, <2>1, <2>2 DEF HostTimeout
  <2>4. toTarget' # toTarget
    <3>1. sequence \in Nat /\ offset \in 0..(Size - 1)
      BY DEF TypeOK
    <3>. QED
      BY <1>1, <2>3, <3>1, FramePut DEF Resend
  <2>5. ~IgnoreLine
    BY <1>1 DEF IgnoreLine
  <2>6. Hearing'
    BY <1>6, <2>4, <2>5 DEF TimedHost, Hearing
  <2>. QED
    BY <1>1, <2>1, <2>3, <2>6, Resent
<1>7. CASE TimedFault
  BY <1>3, <1>7, NothingToDamage
<1>8. CASE Tick
  <2>1. hostClock < AckTimeout
    BY <1>1, <1>8 DEF Tick, Waiting, HostLimit
  <2>2. targetClock' = targetClock + 1 /\ hostClock' = hostClock + 1
    BY <1>1, <1>8 DEF Tick, Waiting
  <2>3. targetClock' \in 0..hostClock' /\ hostClock' \in 0..AckTimeout
    BY <1>1, <1>2, <2>1, <2>2
  <2>4. UNCHANGED vars
    BY <1>8 DEF Tick
  <2>5. Receiving' /\ (Unstored \/ Stored)' /\ attempt' < Len(faults')
    BY <1>1, <2>4 DEF Receiving, HashedRight, Unstored, Stored, FrameLength, Payload, vars
  <2>. QED
    BY <1>1, <2>3, <2>4, <2>5 DEF Unheard, vars
<1>. QED
  BY <1>4, <1>5, <1>6, <1>7, <1>8, CalmBefore DEF TimedNext

LEMMA FromNacked ==
  ASSUME TypeOK, TimedNext, Calm', Nacked
  PROVE  Sent' \/ Unheard'
<1>1. /\ host = "ack" /\ Receiving /\ (Unstored \/ Stored) /\ Hearing
      /\ toTarget = <<>> /\ toHost = <<Status("NACK", expected)>>
      /\ attempt < Len(faults) /\ phase = "frames" /\ received < Size
  BY DEF Nacked, Receiving
<1>2. Status("NACK", expected) \in HostLine
  BY LineTypes DEF TypeOK
<1>3. /\ toHost # <<>> /\ Head(toHost) = Status("NACK", expected) /\ Tail(toHost) = <<>>
      /\ DOMAIN toHost = {1} /\ Without(toHost, 1) = <<>> /\ DOMAIN toTarget = {}
  BY <1>1, <1>2, OneOnly
<1>4. AckTimeout \in Nat
  BY TimeoutAssumption
<1>5. CASE TimedTarget
  BY <1>1, <1>5, NoTimeoutYet, TargetIdle
<1>6. CASE TimedReturn
  BY <1>1, <1>6 DEF TimedReturn, PayloadReturns
<1>7. CASE TimedHost
  <2>1. HostStep /\ Hearing' /\ UNCHANGED <<targetVars, faults>>
    BY <1>1, <1>7, NoTimeoutYet DEF TimedHost
  <2>2. HearNack \/ IgnoreLine
    BY <1>1, <1>3, <2>1, Words
       DEF HostStep, SendHeader, SendFirstFrame, SendNextFrame, AllFramesSent,
           HearVerified, HearExec, HearAbort, AckHeard, AwaitsVerified, Heard
  <2>3. attempt # Retries
    <3>1. attempt \in Nat /\ Len(faults) \in Nat /\ Len(faults) <= Retries /\ Retries \in Nat
      BY CalmBefore DEF TypeOK, Calm
    <3>. QED
      BY <1>1, <3>1
  <2>4. CASE HearNack
    <3>1. Resend /\ toHost' = <<>>
      BY <1>3, <2>3, <2>4 DEF HearNack, NextLine
    <3>. QED
      BY <1>1, <2>1, <3>1, Resent
  <2>5. CASE IgnoreLine
    <3>1. toHost' = <<>> /\ UNCHANGED <<hostVars, toTarget>>
      BY <1>3, <2>5 DEF IgnoreLine, NextLine
    <3>2. Receiving' /\ (Unstored \/ Stored)' /\ attempt' < Len(faults') /\ host' = "ack"
      BY <1>1, <2>1, <3>1 DEF Receiving, HashedRight, Unstored, Stored, FrameLength,
                              Payload, targetVars, hostVars
    <3>3. targetClock' \in 0..hostClock' /\ hostClock' \in 0..AckTimeout
      BY <1>4, <2>1 DEF Hearing
    <3>. QED
      BY <1>1, <3>1, <3>2, <3>3 DEF Unheard
  <2>. QED
    BY <2>2, <2>4, <2>5
<1>8. CASE TimedFault
  <2>1. Hearing' /\ UNCHANGED <<targetVars, hostVars>>
    BY <1>1, <1>8, NoTimeoutYet DEF TimedFault, Fault
  <2>2. AnswerLost
    BY <1>3, <1>8, CalmFault DEF TimedFault, DataDamaged
  <2>3. toTarget' = <<>> /\ toHost' = <<>>
    BY <1>1, <1>3, <2>2 DEF AnswerLost
  <2>4. attempt' < Len(faults')
    <3>1. attempt \in Nat /\ Len(faults) \in Nat /\ attempt' = attempt
      BY <2>1 DEF TypeOK, hostVars
    <3>. QED
      BY <1>1, <2>2, <3>1 DEF AnswerLost, OneMoreFault
  <2>5. Receiving' /\ (Unstored \/ Stored)' /\ host' = "ack"
    BY <1>1, <2>1 DEF Receiving, HashedRight, Unstored, Stored, FrameLength,
                      Payload, targetVars, hostVars
  <2>6. targetClock' \in 0..hostClock' /\ hostClock' \in 0..AckTimeout
    BY <1>4, <2>1 DEF Hearing
  <2>. QED
    BY <2>3, <2>4, <2>5, <2>6 DEF Unheard
<1>9. CASE Tick
  BY <1>1, <1>3, <1>9 DEF Tick, Quiet, Waiting
<1>. QED
  BY <1>5, <1>6, <1>7, <1>8, <1>9, CalmBefore DEF TimedNext

(* A complete, right image is executed, and then only its return is left.  *)
LEMMA ExecutesNow ==
  ASSUME TypeOK, Finished, TargetStep, toTarget = <<>>
  PROVE  ExecuteImage
<1>1. received = Size /\ phase = "frames" /\ HashedRight
  <2>1. phase = "frames"
    BY TargetIdle
  <2>. QED
    BY <2>1 DEF Finished
<1>2. hashed = Image
  <2>1. hashed \in Seq(Nat) /\ Image \in Seq(Nat) /\ Len(hashed) = Len(Image)
    BY <1>1 DEF TypeOK, HashedRight, Size
  <2>2. \A i \in 1..Len(hashed) : hashed[i] = Image[i]
    BY <1>1 DEF HashedRight
  <2>. QED
    BY <2>1, <2>2, SeqEqual
<1>3. ImageVerified
  BY <1>2 DEF ImageVerified
<1>4. received \in Nat /\ Size \in Nat /\ ~(received < Size)
  BY <1>1, SizeType
<1>. QED
  BY <1>1, <1>3, <1>4
     DEF TargetStep, AcceptHeader, RejectHeader, InvalidFrame, DuplicateFrame,
         RejectFrame, AcceptFrame, RejectImage, FrameComplete

(* What the target says then extends its outcome.                          *)
LEMMA OutcomeGrows ==
  ASSUME TypeOK, host \in Waiting, toTarget = <<>>, ExecuteImage \/ PayloadReturns
  PROVE  /\ toTarget' = <<>> /\ phase' # "frames"
         /\ UNCHANGED <<received, expected, previous, hashed>>
         /\ \E lines \in Seq(HostLine) :
              toHost' = toHost \o lines /\ Outcome' = Outcome \o lines
<1>1. /\ Verified \in HostLine /\ Executed \in HostLine /\ Returned \in HostLine
      /\ Ready \in HostLine /\ host \notin {"done", "failed"}
  BY LineTypes DEF Verified, Executed, Returned, Waiting
<1>2. CASE ExecuteImage
  <2>1. /\ phase = "frames" /\ phase' = "running" /\ Say(<<Verified, Executed>>)
        /\ UNCHANGED <<received, expected, previous, hashed, toTarget>>
    BY <1>2 DEF ExecuteImage, Verified, Executed
  <2>2. <<Verified, Executed>> \in Seq(HostLine)
    BY <1>1, TwoLines
  <2>3. Outcome = <<>> /\ Outcome' = <<Verified, Executed>>
    BY <2>1 DEF Outcome, Verified, Executed
  <2>4. Outcome' = Outcome \o <<Verified, Executed>>
    BY <2>2, <2>3, ConcatEmptySeq
  <2>5. toHost' = toHost \o <<Verified, Executed>>
    BY <1>1, <2>1 DEF Say
  <2>. QED
    BY <2>1, <2>2, <2>4, <2>5
<1>3. CASE PayloadReturns
  <2>1. /\ phase = "running" /\ phase' = "ready" /\ Say(<<Returned, Ready>>)
        /\ UNCHANGED <<received, expected, previous, hashed>>
        /\ \E m \in 0..Len(toTarget) : Consume(m)
    BY <1>3 DEF PayloadReturns, Returned
  <2>2. <<Returned, Ready>> \in Seq(HostLine)
    BY <1>1, TwoLines
  <2>3. /\ Outcome = <<Verified, Executed>>
        /\ Outcome' = <<Verified, Executed, Returned, Ready>>
    BY <2>1 DEF Outcome, Verified, Executed, Returned, Ready, Line
  <2>4. Outcome' = Outcome \o <<Returned, Ready>>
    BY <1>1, <2>3
  <2>5. toHost' = toHost \o <<Returned, Ready>>
    BY <1>1, <2>1 DEF Say
  <2>6. toTarget' = <<>>
    <3>1. Len(toTarget) = 0
      BY DEF TypeOK
    <3>2. PICK m \in 0..0 : Consume(m)
      BY <2>1, <3>1
    <3>3. SubSeq(toTarget, m + 1, Len(toTarget)) = <<>>
      BY <3>1, SubSeqEmpty
    <3>. QED
      BY <3>2, <3>3 DEF Consume
  <2>. QED
    BY <2>1, <2>2, <2>4, <2>5, <2>6
<1>. QED
  BY <1>2, <1>3

LEMMA FromAcked ==
  ASSUME TypeOK, TimedNext, Calm', Acked
  PROVE  Acked' \/ Sent' \/ Verifying' \/ Unheard'
<1>. DEFINE ack == Status("ACK", sequence)
<1>1. /\ host = "ack" /\ (Receiving \/ Finished) /\ Stored /\ Hearing
      /\ toTarget = <<>> /\ toHost = <<ack>> \o Outcome /\ attempt <= Len(faults)
  BY DEF Acked
<1>2. /\ received = offset + FrameLength(offset)
      /\ Receiving => phase = "frames" /\ received < Size /\ ~LastFrame
      /\ Finished => received = Size /\ LastFrame
      /\ ~(Receiving /\ Finished)
  <2>1. /\ received = offset + FrameLength(offset)
        /\ received \in Nat /\ Size \in Nat
    BY <1>1, SizeType DEF Stored, TypeOK
  <2>. QED
    BY <2>1 DEF Receiving, Finished, LastFrame
<1>3. ack \in HostLine /\ Outcome \in Seq(HostLine) /\ DOMAIN toTarget = {}
  BY <1>1, LineTypes, OutcomeType DEF TypeOK
<1>4. /\ toHost # <<>> /\ Head(toHost) = ack /\ Tail(toHost) = Outcome
      /\ Without(toHost, 1) = Outcome /\ DOMAIN toHost = 1..(Len(Outcome) + 1)
      /\ \A i \in 2..(Len(Outcome) + 1) :
            i - 1 \in DOMAIN Outcome /\ toHost[i] = Outcome[i - 1]
  BY <1>1, <1>3, FrontAndRest
<1>5. ack.text = "ACK"
  BY Words
<1>. HIDE DEF ack
<1>6. CASE TimedTarget \/ TimedReturn
  <2>1. Hearing' /\ UNCHANGED <<hostVars, faults>>
    BY <1>1, <1>6, NoTimeoutYet DEF TimedTarget, TimedReturn
  <2>2. (ExecuteImage \/ PayloadReturns) /\ Finished
    <3>1. CASE TimedTarget
      <4>1. TargetStep
        BY <1>1, <3>1, NoTimeoutYet
      <4>2. Finished
        BY <1>1, <1>2, <4>1, TargetIdle
      <4>. QED
        BY <1>1, <4>1, <4>2, ExecutesNow
    <3>2. CASE TimedReturn
      BY <1>1, <1>2, <3>2 DEF TimedReturn, PayloadReturns
    <3>. QED
      BY <1>6, <3>1, <3>2
  <2>3. /\ toTarget' = <<>> /\ phase' # "frames"
        /\ UNCHANGED <<received, expected, previous, hashed>>
        /\ \E lines \in Seq(HostLine) :
             toHost' = toHost \o lines /\ Outcome' = Outcome \o lines
    BY <1>1, <2>2, OutcomeGrows DEF Waiting
  <2>4. toHost' = <<ack>> \o Outcome'
    <3>1. PICK lines \in Seq(HostLine) :
            toHost' = toHost \o lines /\ Outcome' = Outcome \o lines
      BY <2>3
    <3>2. <<ack>> \in Seq(HostLine)
      BY <1>3, OneLine
    <3>3. (<<ack>> \o Outcome) \o lines = <<ack>> \o (Outcome \o lines)
      BY <1>3, <3>2, ConcatAssociative
    <3>. QED
      BY <1>1, <3>1, <3>3
  <2>5. ack' = ack /\ host' = "ack" /\ attempt' <= Len(faults')
    BY <1>1, <2>1 DEF ack, hostVars
  <2>6. Finished' /\ Stored'
    BY <1>1, <2>1, <2>2, <2>3
       DEF Finished, Stored, FrameLength, Payload, hostVars, Size
  <2>. QED
    BY <2>1, <2>3, <2>4, <2>5, <2>6 DEF Acked, ack
<1>7. CASE TimedHost
  <2>1. HostStep /\ Hearing' /\ UNCHANGED <<targetVars, faults>>
    BY <1>1, <1>7, NoTimeoutYet DEF TimedHost
  <2>2. SendNextFrame \/ AllFramesSent
    BY <1>1, <1>4, <1>5, <2>1, Words
       DEF HostStep, SendHeader, SendFirstFrame, HearVerified, HearExec, HearNack,
           HearAbort, IgnoreLine, AwaitsVerified, Heard, Expecting, ack
  <2>3. CASE SendNextFrame
    <3>1. /\ ~LastFrame /\ host' = "ack" /\ sequence' = sequence + 1
          /\ offset' = offset + ChunkSize /\ attempt' = 0
          /\ Send(FrameTokens(sequence + 1, offset + ChunkSize)) /\ toHost' = Outcome
      BY <1>4, <2>3 DEF SendNextFrame, SendFrame, NextLine
    <3>2. Receiving
      BY <1>1, <1>2, <3>1
    <3>3. /\ sequence \in Nat /\ offset \in 0..(Size - 1)
          /\ offset + ChunkSize \in 0..(Size - 1) /\ FrameLength(offset) = ChunkSize
      <4>1. sequence \in Nat /\ offset \in 0..(Size - 1)
        BY DEF TypeOK
      <4>2. offset + ChunkSize \in 0..(Size - 1)
        BY <3>1, <4>1, NextOffsetType DEF LastFrame
      <4>3. offset + ChunkSize <= Size
        BY <4>1, <4>2, SizeType
      <4>. QED
        BY <4>1, <4>2, <4>3 DEF FrameLength
    <3>4. FrameOnLine' /\ Undamaged'
      <4>1. sequence + 1 \in Nat
        BY <3>3
      <4>. QED
        BY <1>1, <3>1, <3>3, <4>1, FramePut
    <3>5. Receiving' /\ toHost' = <<>>
      <4>1. toHost' = <<>>
        BY <1>2, <3>1, <3>2, OutcomeType
      <4>. QED
        BY <2>1, <3>2, <4>1 DEF Receiving, HashedRight, targetVars
    <3>6. Unstored'
      BY <1>1, <1>2, <2>1, <3>1, <3>3 DEF Unstored, Stored, targetVars
    <3>7. attempt' <= Len(faults')
      <4>1. faults' = faults /\ Len(faults) \in Nat
        BY <2>1 DEF TypeOK
      <4>. QED
        BY <3>1, <4>1
    <3>. QED
      BY <2>1, <3>1, <3>4, <3>5, <3>6, <3>7 DEF Sent
  <2>4. CASE AllFramesSent
    <3>1. /\ LastFrame /\ host' = "verified" /\ toHost' = Outcome
          /\ UNCHANGED <<sequence, offset, attempt, toTarget>>
      BY <1>4, <2>4 DEF AllFramesSent, NextLine
    <3>2. Finished
      BY <1>1, <1>2, <3>1
    <3>3. Finished' /\ Outcome' = Outcome
      BY <2>1, <3>2 DEF Finished, HashedRight, Outcome, targetVars
    <3>. QED
      BY <1>1, <2>1, <3>1, <3>3 DEF Verifying
  <2>. QED
    BY <2>2, <2>3, <2>4
<1>8. CASE TimedFault
  <2>1. Hearing' /\ UNCHANGED <<targetVars, hostVars>>
    BY <1>1, <1>8, NoTimeoutYet DEF TimedFault, Fault
  <2>2. AnswerLost
    BY <1>3, <1>8, CalmFault DEF TimedFault, DataDamaged
  <2>3. toTarget' = <<>> /\ toHost' = Outcome
    <3>1. PICK i \in DOMAIN toHost :
            toHost[i].text \in {"ACK", "NACK"} /\ toHost' = Without(toHost, i)
      BY <2>2 DEF AnswerLost
    <3>2. i = 1
      <4>1. ASSUME i # 1 PROVE FALSE
        <5>1. i \in 2..(Len(Outcome) + 1)
          BY <1>3, <1>4, <4>1
        <5>. QED
          BY <1>4, <3>1, <5>1, OutcomeType
      <4>. QED
        BY <4>1
    <3>. QED
      BY <1>1, <1>4, <2>2, <3>1, <3>2 DEF AnswerLost
  <2>4. host' = "ack" /\ Outcome' = Outcome
    BY <1>1, <2>1 DEF hostVars, targetVars, Outcome
  <2>5. CASE Receiving
    <3>1. toHost' = <<>>
      BY <1>2, <2>3, <2>5, OutcomeType
    <3>2. Receiving' /\ Stored'
      BY <1>1, <2>1, <2>5 DEF Receiving, HashedRight, Stored, FrameLength, Payload,
                              targetVars, hostVars
    <3>3. attempt' < Len(faults')
      <4>1. attempt \in Nat /\ Len(faults) \in Nat /\ attempt' = attempt
        BY <2>1 DEF TypeOK, hostVars
      <4>. QED
        BY <1>1, <2>2, <4>1 DEF AnswerLost, OneMoreFault
    <3>4. targetClock' \in 0..hostClock' /\ hostClock' \in 0..AckTimeout
      BY <2>1, TimeoutAssumption DEF Hearing
    <3>. QED
      BY <2>3, <2>4, <3>1, <3>2, <3>3, <3>4 DEF Unheard
  <2>6. CASE Finished
    <3>1. Finished' /\ LastFrame'
      BY <1>2, <2>1, <2>6 DEF Finished, HashedRight, LastFrame, FrameLength,
                              targetVars, hostVars
    <3>. QED
      BY <2>1, <2>3, <2>4, <3>1 DEF Verifying
  <2>. QED
    BY <1>1, <2>5, <2>6
<1>9. CASE Tick
  BY <1>1, <1>4, <1>9 DEF Tick, Quiet, Waiting
<1>. QED
  BY <1>6, <1>7, <1>8, <1>9, CalmBefore DEF TimedNext

LEMMA FromVerifying ==
  ASSUME TypeOK, TimedNext, Calm', Verifying
  PROVE  Verifying' \/ Executing'
<1>1. /\ host = "verified" \/ (host = "ack" /\ LastFrame)
      /\ Finished /\ Hearing /\ toTarget = <<>> /\ toHost = Outcome
      /\ host \in Waiting /\ received = Size
  BY DEF Verifying, Finished, Waiting
<1>2. /\ Outcome \in Seq(HostLine) /\ DOMAIN toTarget = {}
      /\ phase = "frames" => toHost = <<>>
      /\ phase # "frames" => toHost # <<>> /\ Head(toHost) = Verified
  BY <1>1, OutcomeType
<1>3. CASE TimedTarget \/ TimedReturn
  <2>1. Hearing' /\ UNCHANGED <<hostVars, faults>>
    BY <1>1, <1>3, NoTimeoutYet DEF TimedTarget, TimedReturn
  <2>2. ExecuteImage \/ PayloadReturns
    BY <1>1, <1>3, NoTimeoutYet, ExecutesNow DEF TimedReturn
  <2>3. /\ toTarget' = <<>> /\ phase' # "frames" /\ received' = received
        /\ \E lines \in Seq(HostLine) :
             toHost' = toHost \o lines /\ Outcome' = Outcome \o lines
    BY <1>1, <2>2, OutcomeGrows
  <2>4. toHost' = Outcome'
    BY <1>1, <2>3
  <2>5. Finished'
    BY <1>1, <2>3 DEF Finished, Size
  <2>6. host' = host /\ (LastFrame => LastFrame')
    BY <2>1 DEF hostVars, LastFrame, FrameLength
  <2>. QED
    BY <1>1, <2>1, <2>3, <2>4, <2>5, <2>6 DEF Verifying
<1>4. CASE TimedHost
  <2>1. HostStep /\ Hearing' /\ UNCHANGED <<targetVars, faults>>
    BY <1>1, <1>4, NoTimeoutYet DEF TimedHost
  <2>2. phase # "frames" /\ toHost # <<>> /\ Head(toHost) = Verified
    BY <1>2, <2>1, HostIdle
  <2>3. AwaitsVerified /\ host # "ready" /\ host # "header-ack" /\ host # "exec"
    BY <1>1 DEF AwaitsVerified
  <2>4. HearVerified
    <3>1. /\ ~SendHeader /\ ~SendFirstFrame /\ ~HearExec
      BY <2>3 DEF SendHeader, SendFirstFrame, HearExec
    <3>2. ~AckHeard /\ ~HearNack /\ ~HearAbort
      BY <2>2, Words DEF AckHeard, HearNack, HearAbort, Heard
    <3>3. ~IgnoreLine
      BY <2>2, <2>3 DEF IgnoreLine, Expecting, Verified
    <3>. QED
      BY <2>1, <3>1, <3>2, <3>3 DEF HostStep, SendNextFrame, AllFramesSent
  <2>5. host' = "exec" /\ toHost' = Tail(Outcome) /\ toTarget' = <<>>
    BY <1>1, <2>4 DEF HearVerified, NextLine
  <2>6. phase' # "frames" /\ Outcome' = Outcome
    BY <2>1, <2>2 DEF targetVars, Outcome
  <2>. QED
    BY <2>1, <2>5, <2>6 DEF Executing
<1>5. CASE TimedFault
  BY <1>1, <1>2, <1>5, NothingToDamage, OutcomeType
<1>6. CASE Tick
  <2>1. toHost = <<>> /\ phase = "frames"
    BY <1>1, <1>2, <1>6 DEF Tick, Quiet
  <2>2. ~TargetStarved
    BY <1>1, <2>1, SizeType DEF TargetStarved
  <2>. QED
    BY <1>6, <2>2 DEF Tick, Quiet
<1>. QED
  BY <1>3, <1>4, <1>5, <1>6, CalmBefore DEF TimedNext

LEMMA OneAndTwo ==
  ASSUME NEW b \in HostLine, NEW c \in HostLine, NEW d \in HostLine
  PROVE  <<b>> \o <<c, d>> = <<b, c, d>>
<1>. DEFINE p == <<b>>
            q == <<c, d>>
            r == <<b, c, d>>
<1>1. p \in Seq(HostLine) /\ Len(p) = 1 /\ p[1] = b
  OBVIOUS
<1>2. q \in Seq(HostLine) /\ Len(q) = 2 /\ q[1] = c /\ q[2] = d
  OBVIOUS
<1>3. r \in Seq(HostLine) /\ Len(r) = 3 /\ r[1] = b /\ r[2] = c /\ r[3] = d
  OBVIOUS
<1>. HIDE DEF p, q, r
<1>4. /\ p \o q \in Seq(HostLine) /\ Len(p \o q) = Len(p) + Len(q)
      /\ \A i \in 1..(Len(p) + Len(q)) :
           (p \o q)[i] = IF i <= Len(p) THEN p[i] ELSE q[i - Len(p)]
  BY <1>1, <1>2, ConcatProperties
<1>5. Len(p \o q) = 3 /\ \A i \in 1..3 : (p \o q)[i] = r[i]
  BY <1>1, <1>2, <1>3, <1>4
<1>6. p \o q = r
  BY <1>3, <1>4, <1>5, SeqEqual
<1>. QED
  BY <1>6 DEF p, q, r

LEMMA FromExecuting ==
  ASSUME TypeOK, TimedNext, Calm', Executing
  PROVE  Executing' \/ host' = "done"
<1>1. /\ host = "exec" /\ phase # "frames" /\ Hearing
      /\ toTarget = <<>> /\ toHost = Tail(Outcome)
  BY DEF Executing
<1>2. /\ toHost # <<>> /\ Head(toHost) = Executed /\ DOMAIN toTarget = {}
      /\ \A i \in DOMAIN toHost : toHost[i].text \notin {"ACK", "NACK"}
  BY <1>1, OutcomeType
<1>3. CASE TimedTarget
  BY <1>1, <1>3, NoTimeoutYet, TargetIdle
<1>4. CASE TimedReturn
  <2>1. Hearing' /\ UNCHANGED <<hostVars, faults>> /\ PayloadReturns /\ phase = "running"
    BY <1>1, <1>4, NoTimeoutYet DEF TimedReturn, PayloadReturns
  <2>2. toTarget' = <<>> /\ phase' = "ready"
    BY <1>1, <2>1, OutcomeGrows DEF Waiting, PayloadReturns
  <2>3. toHost' = toHost \o <<Returned, Ready>>
    BY <1>1, <2>1 DEF PayloadReturns, Say, Returned
  <2>4. /\ Verified \in HostLine /\ Executed \in HostLine /\ Returned \in HostLine
        /\ Ready \in HostLine
    BY LineTypes DEF Verified, Executed, Returned
  <2>5. toHost = <<Executed>> /\ Tail(Outcome)' = <<Executed, Returned, Ready>>
    <3>1. /\ Outcome = <<Verified, Executed>>
          /\ Outcome' = <<Verified, Executed, Returned, Ready>>
      BY <2>1, <2>2 DEF Outcome, Verified, Executed, Returned, Ready, Line
    <3>. QED
      BY <1>1, <2>4, <3>1
  <2>6. <<Executed>> \o <<Returned, Ready>> = <<Executed, Returned, Ready>>
    BY <2>4, OneAndTwo
  <2>. QED
    BY <1>1, <2>1, <2>2, <2>3, <2>5, <2>6 DEF Executing, hostVars
<1>5. CASE TimedHost
  <2>1. HostStep
    BY <1>1, <1>5, NoTimeoutYet
  <2>2. HearExec
    <3>1. ~HearAbort
      BY <1>2, Words DEF HearAbort, Heard
    <3>2. ~IgnoreLine
      BY <1>1, <1>2 DEF IgnoreLine, Expecting, Executed
    <3>. QED
      BY <1>1, <2>1, <3>1, <3>2
         DEF HostStep, SendHeader, SendFirstFrame, SendNextFrame, AllFramesSent,
             AckHeard, HearVerified, AwaitsVerified, HearNack
  <2>. QED
    BY <2>2 DEF HearExec
<1>6. CASE TimedFault
  BY <1>2, <1>6, NothingToDamage
<1>7. CASE Tick
  BY <1>1, <1>2, <1>7 DEF Tick, Quiet, Waiting
<1>. QED
  BY <1>3, <1>4, <1>5, <1>6, <1>7, CalmBefore DEF TimedNext

LEMMA FromDone ==
  ASSUME TypeOK, TimedNext, Calm', host = "done"
  PROVE  host' = "done"
<1>1. CASE TimedHost
  BY <1>1 DEF TimedHost, HostStep, HostTimeout, SendHeader, SendFirstFrame,
              SendNextFrame, AllFramesSent, AckHeard, HearVerified, AwaitsVerified,
              HearExec, HearNack, HearAbort, IgnoreLine, Waiting
<1>2. CASE TimedTarget \/ TimedReturn \/ TimedFault \/ Tick
  BY <1>2 DEF TimedTarget, TimedReturn, TimedFault, Fault, Tick, hostVars, vars
<1>. QED
  BY <1>1, <1>2, CalmBefore DEF TimedNext

CalmLockStep == Calm => LockStep

LEMMA CalmInvariance ==
  ASSUME AckTimeout < InterbyteTimeout, GarbageSeen
  PROVE  TimedSpec => []CalmLockStep
<1>1. TimedInit => CalmLockStep
  BY DEF TimedInit, Init, CalmLockStep, LockStep, Asking, Hearing
<1>2. ASSUME TypeOK, CalmLockStep, TimedNext, Calm' PROVE LockStep'
  <2>1. LockStep
    BY <1>2, CalmBefore DEF CalmLockStep
  <2>. QED
    BY <1>2, <2>1, FromAsking, FromOpening, FromOpened, FromSent, FromAcked, FromNacked,
       FromUnheard, FromVerifying, FromExecuting, FromDone DEF LockStep
<1>3. ASSUME CalmLockStep, UNCHANGED timedVars PROVE CalmLockStep'
  <2>1. UNCHANGED <<vars, targetClock, hostClock>>
    BY <1>3 DEF timedVars
  <2>2. /\ Calm' = Calm /\ Hearing' = Hearing /\ Outcome' = Outcome
        /\ Receiving' = Receiving /\ Finished' = Finished /\ Unstored' = Unstored
    BY <2>1 DEF vars, Calm, OnlyFaults, Hearing, Outcome, Receiving, Finished,
                HashedRight, Unstored
  <2>3. /\ FrameLength(offset)' = FrameLength(offset) /\ Payload(offset)' = Payload(offset)
        /\ LastFrame' = LastFrame
    BY <2>1 DEF vars, FrameLength, Payload, LastFrame
  <2>4. /\ Stored' = Stored /\ Undamaged' = Undamaged /\ FrameOnLine' = FrameOnLine
    BY <2>1, <2>3 DEF vars, Stored, Undamaged, FrameOnLine, ThisFrame
  <2>5. LockStep' = LockStep
    BY <2>1, <2>2, <2>3, <2>4
       DEF vars, LockStep, Asking, Opening, Opened, Sent, Acked, Nacked, Unheard,
           Verifying, Executing
  <2>. QED
    BY <1>3, <2>2, <2>5 DEF CalmLockStep
<1>4. TypeOK /\ CalmLockStep /\ [TimedNext]_timedVars => CalmLockStep'
  BY <1>2, <1>3 DEF CalmLockStep
<1>. QED
  BY <1>1, <1>4, TimersOnlyRestrict, TypeCorrect, PTL DEF TimedSpec

(* As many damaged frames and lost answers as the tool has retries do not make
   it fail, for any image whose units the CRC tells from a damaged one, if
   the tool gives up waiting for an ACK before the target gives up waiting
   for the resent frame (--ack-timeout and the timeout of a block read).   *)
THEOREM RetriesAreEnough ==
  ASSUME AckTimeout < InterbyteTimeout, GarbageSeen
  PROVE  TimedSpec => []RetriesSuffice
<1>1. CalmLockStep => RetriesSuffice
  BY DEF CalmLockStep, Calm, RetriesSuffice, LockStep, Asking, Opening, Opened, Sent,
         Acked, Nacked, Unheard, Verifying, Executing
<1>. QED
  BY <1>1, CalmInvariance, PTL
=============================================================================
