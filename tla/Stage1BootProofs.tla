-------------------------- MODULE Stage1BootProofs --------------------------
(***************************************************************************)
(* Stage 1 keeps out of its own memory, jumps only into what it has loaded *)
(* and copies only from the slot of the kernel: for every layout, policy,  *)
(* header and input that the assumptions on the constants allow.           *)
(***************************************************************************)
EXTENDS Stage1Boot, TLAPS

(* Division with remainder.                                                *)
LEMMA Division ==
  ASSUME NEW a \in Nat, NEW b \in Nat \ {0}
  PROVE  /\ a \div b \in Nat
         /\ a % b \in 0..(b - 1)
         /\ a - (a % b) = (a \div b) * b
<1>1. a = b * (a \div b) + (a % b)
  OBVIOUS
<1>2. a \div b \in Nat /\ a % b \in 0..(b - 1)
  OBVIOUS
<1>. QED
  BY <1>1, <1>2

(* What is read from a queue has been put there.                          *)
LEMMA HeadType ==
  ASSUME NEW S, NEW q \in Seq(S), q # <<>>
  PROVE  Head(q) \in S
OBVIOUS

USE WordAssumption, LayoutAssumption, PolicyAssumption, HeadersAssumption,
    SenderAssumption, MenuAssumption, EmbeddedAssumption

-----------------------------------------------------------------------------
(* Arithmetic of the copy.                                                 *)

(* Rounding gives a multiple of a line, even when it wraps.               *)
LEMMA RoundUpType ==
  ASSUME NEW n \in Address
  PROVE  RoundUp(n) \in Nat /\ \E k \in Nat : RoundUp(n) = k * Line
<1>. DEFINE m == Add(n, Line - 1)
<1>1. m \in Nat
  BY DEF Add, Address
<1>2. RoundUp(n) = m - (m % Line)
  BY DEF RoundUp
<1>. HIDE DEF m
<1>3. /\ m \div Line \in Nat
      /\ m % Line \in 0..(Line - 1)
      /\ m - (m % Line) = (m \div Line) * Line
  BY <1>1, Division
<1>4. (m \div Line) * Line \in Nat
  BY <1>3
<1>. QED
  BY <1>2, <1>3, <1>4

(* Below the last line of the address space it does not wrap.              *)
LEMMA RoundUpBounds ==
  ASSUME NEW n \in Address, n <= Word - Line
  PROVE  n <= RoundUp(n) /\ RoundUp(n) < n + Line
<1>. DEFINE m == n + Line - 1
<1>1. m \in Nat /\ m < Word
  BY DEF Address
<1>2. RoundUp(n) = m - (m % Line)
  BY <1>1 DEF RoundUp, Add
<1>. HIDE DEF m
<1>3. m % Line \in 0..(Line - 1)
  BY <1>1, Division
<1>4. m = n + Line - 1 /\ n \in Nat
  BY DEF m, Address
<1>. QED
  BY <1>1, <1>2, <1>3, <1>4

(* A number below a line rounds down to 0.                                 *)
LEMMA NoLine ==
  ASSUME NEW m \in Nat, m < Line
  PROVE  m % Line = m
<1>1. /\ m \div Line \in Nat
      /\ m % Line \in 0..(Line - 1)
      /\ m - (m % Line) = (m \div Line) * Line
  BY Division
<1>2. ASSUME m \div Line # 0 PROVE FALSE
  <2>1. PICK d \in Nat : m \div Line = d + 1
    <3>1. (m \div Line) - 1 \in Nat
      BY <1>1, <1>2
    <3>. QED
      BY <3>1
  <2>2. (m \div Line) * Line = d * Line + Line /\ d * Line \in Nat
    BY <2>1
  <2>. QED
    BY <1>1, <2>2
<1>3. (m \div Line) * Line = 0
  BY <1>2
<1>. QED
  BY <1>1, <1>3

(* The sizes that would wrap, refused by line 693 of uart_ramloader.c, round
   to 0, so that no entry address lies in the range: a second barrier.     *)
LEMMA WrapRefused ==
  ASSUME NEW h \in Header, h.size > Word - Line
  PROVE  EffectiveSize(h) = 0 /\ ~EntryAccepted(h)
<1>. DEFINE m == Add(h.size, Line - 1)
<1>1. h.size \in Nat /\ h.size < Word /\ h.load \in Nat /\ h.load < Word
      /\ h.entry \in Nat
  BY DEF Header, Address
<1>2. m \in Nat /\ m < Line
  BY <1>1 DEF Add
<1>3. EffectiveSize(h) = m - (m % Line)
  BY DEF EffectiveSize, RoundUp
<1>. HIDE DEF m
<1>4. EffectiveSize(h) = 0
  BY <1>2, <1>3, NoLine
<1>5. LoadEnd(h) = h.load
  BY <1>1, <1>4 DEF LoadEnd, Add
<1>. QED
  BY <1>1, <1>4, <1>5 DEF EntryAccepted

(* Between two multiples of a line there is room for a line.               *)
LEMMA WholeLines ==
  ASSUME NEW j \in Nat, NEW k \in Nat, j * Line < k * Line
  PROVE  j * Line + Line <= k * Line
<1>1. j < k
  OBVIOUS
<1>2. PICK d \in Nat : k = j + 1 + d
  <2>1. k - j - 1 \in Nat /\ k = j + 1 + (k - j - 1)
    BY <1>1
  <2>. QED
    BY <2>1
<1>3. k * Line = j * Line + Line + d * Line
  BY <1>2
<1>4. d * Line \in Nat /\ j * Line \in Nat
  OBVIOUS
<1>. QED
  BY <1>3, <1>4

(* A range that ends without wrapping consists of the addresses it seems to
   consist of.                                                             *)
LEMMA NoWrap ==
  ASSUME NEW start \in Address, NEW size \in Nat, NEW n \in Nat,
         n <= size, size < Word, Add(start, size) >= start
  PROVE  /\ Add(start, size) = start + size
         /\ \A a \in Bytes(start, n) : start <= a /\ a < start + n
         /\ \A a \in start..(start + n - 1) : a \in Bytes(start, n)
<1>1. Word \in Nat
  OBVIOUS
<1>2. start + size < Word /\ Add(start, size) = start + size
  BY <1>1 DEF Add, Address
<1>3. \A i \in 0..(n - 1) : Add(start, i) = start + i
  BY <1>1, <1>2 DEF Add, Address
<1>4. \A a \in Bytes(start, n) : start <= a /\ a < start + n
  BY <1>1, <1>3 DEF Bytes, Address
<1>5. ASSUME NEW a \in start..(start + n - 1)
      PROVE  a \in Bytes(start, n)
  <2>1. a - start \in 0..(n - 1) /\ start + (a - start) = a
    BY <1>1, <1>5 DEF Address
  <2>. QED
    BY <1>3, <2>1 DEF Bytes
<1>. QED
  BY <1>2, <1>4, <1>5

(* An accepted kernel header describes bytes outside the reserved memory,
   among them the entry, and no more than the slot holds.                  *)
LEMMA FlashRange ==
  ASSUME NEW h \in Header, FlashHeaderAccepted(h),
         NEW n \in Nat, n <= EffectiveSize(h)
  PROVE  /\ Bytes(h.load, n) \intersect (Stack \union Stage1) = {}
         /\ n = EffectiveSize(h) => h.entry \in Bytes(h.load, n)
         /\ n <= HardLimit
         /\ SizePolicy = "legacy-strict" => n <= LegacyLimit
<1>1. h.load \in Address /\ h.size \in Nat /\ h.entry \in Nat
  BY DEF Header, Address
<1>2. EffectiveSize(h) \in Nat /\ EffectiveSize(h) < Word
  <2>1. h.size \in Address /\ h.size <= Word - Line
    BY DEF Header, FlashHeaderAccepted, SizeAccepted
  <2>2. RoundUp(h.size) \in Nat /\ RoundUp(h.size) < h.size + Line
    BY <2>1, RoundUpType, RoundUpBounds
  <2>. QED
    BY <1>1, <2>1, <2>2 DEF EffectiveSize
<1>3. /\ LoadEnd(h) = h.load + EffectiveSize(h)
      /\ \A a \in Bytes(h.load, n) : h.load <= a /\ a < h.load + n
      /\ \A a \in h.load..(h.load + n - 1) : a \in Bytes(h.load, n)
  BY <1>1, <1>2, NoWrap DEF LoadEnd, FlashHeaderAccepted
<1>4. h.load \in Nat /\ Stage1End \in Nat /\ KernelBase \in Nat
  BY <1>1 DEF Address, Stage1End, KernelBase
<1>5. ASSUME NEW a \in Bytes(h.load, n) PROVE a \notin Stack \union Stage1
  <2>1. h.load <= a /\ a < h.load + n
    BY <1>3, <1>5
  <2>2. /\ ~(h.load < StackEnd /\ KernelBase < LoadEnd(h))
        /\ ~(h.load < Stage1End /\ Stage1Start < LoadEnd(h))
    BY DEF FlashHeaderAccepted, Overlap
  <2>3. LoadEnd(h) \in Nat
    BY <1>2, <1>3, <1>4
  <2>4. h.load + n <= LoadEnd(h)
    BY <1>2, <1>3, <1>4
  <2>5. ASSUME a \in Stack \union Stage1 PROVE FALSE
    <3>1. a \in Nat
      BY <1>4, <2>5 DEF Stack, Stage1
    <3>2. \/ KernelBase <= a /\ a < StackEnd
          \/ Stage1Start <= a /\ a < Stage1End
      BY <1>4, <2>5 DEF Stack, Stage1
    <3>. QED
      BY <1>4, <2>1, <2>2, <2>3, <2>4, <3>1, <3>2
  <2>. QED
    BY <2>5
<1>6. ASSUME n = EffectiveSize(h) PROVE h.entry \in Bytes(h.load, n)
  BY <1>1, <1>2, <1>3, <1>4, <1>6 DEF FlashHeaderAccepted, EntryAccepted
<1>7. n <= HardLimit /\ (SizePolicy = "legacy-strict" => n <= LegacyLimit)
  BY <1>2 DEF FlashHeaderAccepted, SizeAccepted
<1>. QED
  BY <1>5, <1>6, <1>7

(* An accepted upload header describes bytes below stage 1 and, if the RAM
   range begins after the stack, above the stack.                          *)
LEMMA UploadRange ==
  ASSUME NEW h \in Header, UploadHeaderAccepted(h)
  PROVE  /\ Bytes(h.load, h.size) \intersect Stage1 = {}
         /\ StackEnd <= RamStart => Bytes(h.load, h.size) \intersect Stack = {}
         /\ h.entry \in Bytes(h.load, h.size)
<1>1. h.load \in Address /\ h.load \in Nat /\ h.size \in Nat /\ h.size < Word
      /\ h.entry \in Nat
  BY DEF Header, Address
<1>2. /\ UploadEnd(h) = h.load + h.size
      /\ \A a \in Bytes(h.load, h.size) : h.load <= a /\ a < h.load + h.size
      /\ \A a \in h.load..(h.load + h.size - 1) : a \in Bytes(h.load, h.size)
  BY <1>1, NoWrap DEF UploadEnd, UploadHeaderAccepted, UploadFits
<1>3. ASSUME NEW a \in Bytes(h.load, h.size)
      PROVE  a \notin Stage1 /\ (StackEnd <= RamStart => a \notin Stack)
  BY <1>1, <1>2, <1>3
     DEF UploadHeaderAccepted, UploadFits, Stack, Stage1, KernelBase, Stage1End
<1>4. h.entry \in Bytes(h.load, h.size)
  BY <1>1, <1>2 DEF UploadHeaderAccepted
<1>. QED
  BY <1>3, <1>4

(* An embedded payload lies above the stack and, if the largest one ends
   before stage 1, below stage 1.                                          *)
LEMMA BlobRange ==
  ASSUME NEW size \in 1..MaxSize
  PROVE  /\ Bytes(EmbeddedStart, size) \intersect Stack = {}
         /\ EmbeddedStart + MaxSize <= Stage1Start =>
              Bytes(EmbeddedStart, size) \intersect Stage1 = {}
<1>1. /\ EmbeddedStart \in Address /\ size \in Nat /\ size < Word
      /\ EmbeddedStart + size < Word
  BY DEF Address, Stage1End, KernelBase
<1>2. Add(EmbeddedStart, size) >= EmbeddedStart
  BY <1>1 DEF Add, Address
<1>3. \A a \in Bytes(EmbeddedStart, size) :
        EmbeddedStart <= a /\ a < EmbeddedStart + size
  BY <1>1, <1>2, NoWrap
<1>4. ASSUME NEW a \in Bytes(EmbeddedStart, size)
      PROVE  a \notin Stack /\ (EmbeddedStart + MaxSize <= Stage1Start => a \notin Stage1)
  BY <1>1, <1>3, <1>4 DEF Stack, Stage1, KernelBase, Stage1End
<1>. QED
  BY <1>4

-----------------------------------------------------------------------------
(* The inductive invariant: how far the copy is tells that the header has
   been accepted, and each program that was started passed its checks.     *)

WholeLinesCopied == \E k \in Nat : copied = k * Line

Accepted ==
  /\ stage \in {"probe", "trigger", "prompt", "menu", "check"} => copied = 0
  /\ copied > 0 \/ stage \in {"copy", "kernel"} => FlashHeaderAccepted(header)
  /\ stage = "kernel" => copied = EffectiveSize(header)
  /\ stage = "uploaded" => accepted
  /\ accepted => UploadHeaderAccepted(upload)
  /\ stage \in Embedded => BlobSize[stage] \in 1..MaxSize

Inv == TypeOK /\ WholeLinesCopied /\ Accepted

LEMMA EffectiveSizeType ==
  ASSUME header \in Header
  PROVE  /\ EffectiveSize(header) \in Nat
         /\ \E k \in Nat : EffectiveSize(header) = k * Line
<1>1. header.size \in Address
  BY DEF Header
<1>. QED
  BY <1>1, RoundUpType DEF EffectiveSize

LEMMA NoHeaderType == NoHeader \in Header
<1>1. 0 \in Address
  BY DEF Address
<1>. QED
  BY <1>1 DEF NoHeader, Header

LEMMA NothingReceived == <<>> \in Seq(Received)
  OBVIOUS

LEMMA InitInv == Init => Inv
<1>. SUFFICES ASSUME Init PROVE Inv
  OBVIOUS
<1>1. header \in Header /\ copied = 0 /\ copied = 0 * Line
  BY NoHeaderType DEF Init
<1>2. copied <= EffectiveSize(header)
  BY <1>1, EffectiveSizeType
<1>3. /\ stage = "probe" /\ age \in Nat /\ rx \in Seq(Received)
      /\ asked \in Options \union {"none"}
      /\ choice \in [value : InputBytes \union {"none"}, early : BOOLEAN]
      /\ upload \in Header /\ accepted \in BOOLEAN
  BY NoHeaderType, NothingReceived DEF Init
<1>4. TypeOK
  BY <1>1, <1>2, <1>3 DEF TypeOK
<1>. QED
  BY <1>1, <1>4 DEF Init, Inv, WholeLinesCopied, Accepted, Embedded

(* Starting a program keeps the invariant wherever it is started from.     *)
LEMMA LaunchInv ==
  ASSUME Inv, NEW program \in Embedded, Launch(program),
         choice' \in [value : InputBytes \union {"none"}, early : BOOLEAN],
         header' \in Header, header' = header \/ copied = 0,
         UNCHANGED <<age, asked, copied, upload, accepted>>
  PROVE  Inv'
<1>1. /\ stage' \in Embedded \union {"persistent"}
      /\ stage' \in Embedded => BlobSize[stage'] \in 1..MaxSize
  BY DEF Launch, StartPersistent, Embedded
<1>2. rx' \in Seq(Received)
  BY NothingReceived DEF Launch, StartPersistent
<1>3. copied' <= EffectiveSize(header')
  <2>1. CASE header' = header
    BY <2>1 DEF Inv, TypeOK
  <2>2. CASE copied = 0
    <3>1. header'.size \in Address
      BY DEF Header
    <3>2. EffectiveSize(header') \in Nat
      BY <3>1, RoundUpType DEF EffectiveSize
    <3>. QED
      BY <2>2, <3>2
  <2>. QED
    BY <2>1, <2>2
<1>4. TypeOK'
  BY <1>1, <1>2, <1>3 DEF Inv, TypeOK
<1>5. copied' > 0 => FlashHeaderAccepted(header')
  BY DEF Inv, Accepted
<1>6. Accepted'
  BY <1>1, <1>5 DEF Inv, Accepted, Embedded
<1>. QED
  BY <1>4, <1>6 DEF Inv, WholeLinesCopied

LEMMA MenuInv ==
  ASSUME Inv,
         \/ Arrive \/ Tick \/ Trigger \/ NoTrigger
         \/ DrainTyped \/ OpenMenu \/ NoChoice
  PROVE  Inv'
<1>. USE DEF Inv
<1>1. UNCHANGED <<choice, header, copied, upload, accepted>>
  BY DEF Arrive, Tick, Trigger, NoTrigger, DrainTyped, OpenMenu, NoChoice
<1>2. rx' \in Seq(Received)
  <2>1. CASE Arrive
    <3>1. PICK b \in InputBytes :
            rx' = Append(rx, [value |-> b, early |-> stage \in {"probe", "trigger"}])
      BY <2>1 DEF Arrive
    <3>. DEFINE e == stage \in {"probe", "trigger"}
    <3>2. [value |-> b, early |-> e] \in Received
      <4>1. e \in BOOLEAN
        OBVIOUS
      <4>. HIDE DEF e
      <4>. QED
        BY <4>1 DEF Received
    <3>. QED
      BY <3>1, <3>2 DEF TypeOK
  <2>2. CASE Tick \/ Trigger \/ NoTrigger \/ DrainTyped \/ OpenMenu \/ NoChoice
    <3>1. rx # <<>> => Tail(rx) \in Seq(Received)
      BY DEF TypeOK
    <3>2. rx' \in {rx, <<>>} \/ (rx # <<>> /\ rx' = Tail(rx))
      BY <2>2 DEF Tick, Trigger, NoTrigger, DrainTyped, OpenMenu, NoChoice
    <3>. QED
      BY <3>1, <3>2, NothingReceived DEF TypeOK
  <2>. QED
    BY <2>1, <2>2
<1>3. age' \in Nat
  <2>1. age \in Nat
    BY DEF TypeOK
  <2>2. age' \in {age, age + 1, 0}
    BY DEF Arrive, Tick, Trigger, NoTrigger, DrainTyped, OpenMenu, NoChoice
  <2>. HIDE DEF Inv
  <2>3. age' = age \/ age' = age + 1 \/ age' = 0
    BY <2>2
  <2>. QED
    BY <2>1, <2>3
<1>4. stage' \in {"probe", "trigger", "prompt", "menu", "check"}
  BY DEF Arrive, Tick, Trigger, NoTrigger, DrainTyped, OpenMenu, NoChoice
<1>5. asked' \in Options \union {"none"}
  BY DEF Arrive, Tick, Trigger, NoTrigger, DrainTyped, OpenMenu, NoChoice, TypeOK
<1>6. TypeOK'
  BY <1>1, <1>2, <1>3, <1>4, <1>5 DEF TypeOK
<1>7. copied = 0
  BY DEF Arrive, Tick, Trigger, NoTrigger, DrainTyped, OpenMenu, NoChoice, Accepted
<1>. QED
  BY <1>1, <1>4, <1>6, <1>7 DEF WholeLinesCopied, Accepted, Embedded

LEMMA ChooseInv ==
  ASSUME Inv, ChooseOption
  PROVE  Inv'
<1>1. Head(rx) \in Received
  <2>1. rx \in Seq(Received) /\ rx # <<>>
    BY DEF ChooseOption, Inv, TypeOK
  <2>. QED
    BY <2>1, HeadType
<1>2. choice' \in [value : InputBytes \union {"none"}, early : BOOLEAN]
  BY <1>1 DEF ChooseOption, Received
<1>3. CASE StartPersistent
  BY <1>2, <1>3, NothingReceived
     DEF ChooseOption, StartPersistent, Inv, TypeOK, WholeLinesCopied, Accepted,
         Embedded
<1>4. ASSUME NEW program \in Embedded, Launch(program) PROVE Inv'
  BY <1>2, <1>4, LaunchInv DEF ChooseOption, Inv, TypeOK
<1>. QED
  BY <1>3, <1>4 DEF ChooseOption, Select, Embedded

LEMMA CheckInv ==
  ASSUME Inv, CheckHeader
  PROVE  Inv'
<1>0. /\ copied = 0 /\ header' \in Header
      /\ UNCHANGED <<age, asked, choice, copied, upload, accepted>>
  BY DEF CheckHeader, Inv, Accepted
<1>1. CASE FlashHeaderAccepted(header') /\ stage' = "copy" /\ UNCHANGED rx
  <2>1. header'.size \in Address
    BY <1>0 DEF Header
  <2>2. EffectiveSize(header') \in Nat
    BY <2>1, RoundUpType DEF EffectiveSize
  <2>3. TypeOK'
    BY <1>0, <1>1, <2>2 DEF Inv, TypeOK
  <2>4. Accepted'
    BY <1>0, <1>1 DEF Inv, Accepted, Embedded
  <2>. QED
    BY <1>0, <2>3, <2>4 DEF Inv, WholeLinesCopied
<1>2. CASE Launch("recovery")
  BY <1>0, <1>2, LaunchInv DEF Inv, TypeOK, Embedded
<1>. QED
  BY <1>1, <1>2 DEF CheckHeader

LEMMA CopyInv ==
  ASSUME Inv, CopyLine
  PROVE  Inv'
<1>1. PICK j \in Nat : copied = j * Line
  BY DEF Inv, WholeLinesCopied
<1>2. PICK k \in Nat : EffectiveSize(header) = k * Line
  BY EffectiveSizeType DEF Inv, TypeOK
<1>3. j * Line + Line <= k * Line
  BY <1>1, <1>2, WholeLines DEF CopyLine
<1>4. copied' = (j + 1) * Line
  BY <1>1 DEF CopyLine
<1>5. copied' <= EffectiveSize(header) /\ copied' \in Nat
  BY <1>1, <1>2, <1>3 DEF CopyLine, Inv, TypeOK
<1>6. WholeLinesCopied'
  BY <1>4 DEF WholeLinesCopied
<1>7. UNCHANGED <<stage, age, rx, asked, choice, header, upload, accepted>> /\ stage = "copy"
  BY DEF CopyLine
<1>8. TypeOK'
  BY <1>5, <1>7 DEF Inv, TypeOK
<1>9. Accepted'
  BY <1>5, <1>7 DEF Inv, Accepted, Embedded, EffectiveSize
<1>. QED
  BY <1>6, <1>8, <1>9 DEF Inv

LEMMA FinishInv ==
  ASSUME Inv, FinishCopy
  PROVE  Inv'
<1>1. CASE stage' = "kernel" /\ UNCHANGED rx
  <2>1. copied = EffectiveSize(header)
    <3>1. EffectiveSize(header) \in Nat
      BY EffectiveSizeType DEF Inv, TypeOK
    <3>2. copied \in Nat /\ copied <= EffectiveSize(header)
      BY DEF Inv, TypeOK
    <3>. QED
      BY <3>1, <3>2 DEF FinishCopy
  <2>2. UNCHANGED EffectiveSize(header)
    BY DEF FinishCopy, EffectiveSize
  <2>. QED
    BY <1>1, <2>1, <2>2
       DEF FinishCopy, Inv, TypeOK, WholeLinesCopied, Accepted, Embedded,
         EffectiveSize
<1>2. CASE Launch("recovery")
  BY <1>2, LaunchInv DEF FinishCopy, Inv, TypeOK, Embedded
<1>. QED
  BY <1>1, <1>2 DEF FinishCopy

LEMMA UploadInv ==
  ASSUME Inv, Upload \/ UploadReturns
  PROVE  Inv'
<1>1. CASE Upload
  <2>1. PICK h \in UploadHeaders :
          /\ upload' = h
          /\ accepted' = UploadHeaderAccepted(h)
          /\ stage' = IF UploadHeaderAccepted(h) THEN "uploaded" ELSE stage
    BY <1>1 DEF Upload
  <2>2. UploadHeaderAccepted(h) \in BOOLEAN
    BY DEF UploadHeaderAccepted
  <2>3. /\ stage = "persistent" /\ stage' \in {"uploaded", "persistent"}
        /\ stage' = "uploaded" => accepted'
        /\ upload' \in Header /\ accepted' \in BOOLEAN
        /\ UNCHANGED <<age, rx, asked, choice, header, copied>>
    BY <1>1, <2>1, <2>2 DEF Upload
  <2>4. accepted' => UploadHeaderAccepted(upload')
    BY <2>1
  <2>. QED
    BY <2>3, <2>4 DEF Inv, TypeOK, WholeLinesCopied, Accepted, Embedded,
         EffectiveSize
<1>2. CASE UploadReturns
  BY <1>2 DEF UploadReturns, Inv, TypeOK, WholeLinesCopied, Accepted, Embedded,
         EffectiveSize
<1>. QED
  BY <1>1, <1>2

LEMMA Invariance == Spec => []Inv
<1>1. Inv /\ [Next]_vars => Inv'
  <2>. SUFFICES ASSUME Inv, [Next]_vars PROVE Inv'
    OBVIOUS
  <2>1. CASE UNCHANGED vars
    BY <2>1 DEF vars, Inv, TypeOK, WholeLinesCopied, Accepted, Embedded,
         EffectiveSize
  <2>. QED
    BY <2>1, MenuInv, ChooseInv, CheckInv, CopyInv, FinishInv, UploadInv
       DEF Next, Boot
<1>. QED
  BY <1>1, InitInv, PTL DEF Spec

-----------------------------------------------------------------------------
(* Types, and the copy stays within the effective size: a copy that moves
   whole lines ends exactly there, never beyond.                           *)
THEOREM TypeCorrect == Spec => []TypeOK
<1>1. Inv => TypeOK
  BY DEF Inv
<1>. QED
  BY <1>1, Invariance, PTL

(* No kernel is ever written over the stack or the code of stage 1, no upload
   over the code, no embedded payload over the stack, in any layout that
   check_config.py admits and whatever the headers say; and no upload over the
   stack, no embedded payload over the code, in any that also satisfies the
   condition which check_config.py leaves out and ReservedIntact states.   *)
THEOREM StageSurvives == Spec => []ReservedIntact
<1>1. Inv => ReservedIntact
  <2>. SUFFICES ASSUME Inv PROVE ReservedIntact
    OBVIOUS
  <2>1. Kernel \intersect (Stack \union Stage1) = {}
    <3>1. CASE copied > 0
      BY <3>1, FlashRange DEF Inv, TypeOK, Accepted, Kernel
    <3>2. CASE copied = 0
      BY <3>2 DEF Kernel, Bytes
    <3>3. copied \in Nat
      BY DEF Inv, TypeOK
    <3>. QED
      BY <3>1, <3>2, <3>3
  <2>2. /\ Uploaded \intersect Stage1 = {}
        /\ StackEnd <= RamStart => Uploaded \intersect Stack = {}
    BY UploadRange DEF Inv, TypeOK, Accepted, Uploaded
  <2>3. /\ Blob \intersect Stack = {}
        /\ EmbeddedStart + MaxSize <= Stage1Start => Blob \intersect Stage1 = {}
    BY BlobRange DEF Inv, Accepted, Blob
  <2>. QED
    BY <2>1, <2>2, <2>3 DEF ReservedIntact
<1>. QED
  BY <1>1, Invariance, PTL

(* Control goes to a kernel or an upload only at an address it has loaded. *)
THEOREM EntryLoaded == Spec => []JumpsIntoLoaded
<1>1. Inv => JumpsIntoLoaded
  <2>. SUFFICES ASSUME Inv PROVE JumpsIntoLoaded
    OBVIOUS
  <2>1. ASSUME stage = "kernel" PROVE header.entry \in Kernel
    BY <2>1, FlashRange, EffectiveSizeType DEF Inv, TypeOK, Accepted, Kernel
  <2>2. ASSUME stage = "uploaded" PROVE upload.entry \in Uploaded
    BY <2>2, UploadRange DEF Inv, TypeOK, Accepted, Uploaded
  <2>. QED
    BY <2>1, <2>2 DEF JumpsIntoLoaded
<1>. QED
  BY <1>1, Invariance, PTL

(* The kernel is read from its own slot only.                              *)
THEOREM SlotRespected == Spec => []CopyInsideSlot
<1>1. Inv => CopyInsideSlot
  <2>. SUFFICES ASSUME Inv PROVE CopyInsideSlot
    OBVIOUS
  <2>1. CASE copied > 0
    BY <2>1, FlashRange DEF Inv, TypeOK, Accepted, CopyInsideSlot
  <2>2. CASE copied = 0
    BY <2>2 DEF CopyInsideSlot
  <2>. QED
    BY <2>1, <2>2 DEF Inv, TypeOK
<1>. QED
  BY <1>1, Invariance, PTL

-----------------------------------------------------------------------------
(* The menu: after the drain everything that waits in the receiver came after
   it, and the first option that came is either still the first option that
   waits or has not come yet.                                              *)
AfterDrain == {"prompt", "menu"}

IsOption(i) == rx[i].value \in Options

WaitingIsFresh == \A i \in 1..Len(rx) : ~rx[i].early
FirstOptionWaits ==
  IF asked = "none"
    THEN \A i \in 1..Len(rx) : ~IsOption(i)
    ELSE \E i \in 1..Len(rx) :
           rx[i].value = asked /\ \A j \in 1..(i - 1) : ~IsOption(j)

MenuSound ==
  /\ stage \in {"probe", "trigger"} => asked = "none"
  /\ stage \in AfterDrain => WaitingIsFresh /\ FirstOptionWaits
  /\ stage \in {"probe", "trigger"} \union AfterDrain => choice.value = "none"
  /\ ChoiceExplicit

(* A byte arrives: only the first option after the drain changes what the
   menu has been asked for.                                                *)
LEMMA MenuSoundArrive ==
  ASSUME Inv, MenuSound, Arrive
  PROVE  MenuSound'
<1>1. PICK b \in InputBytes :
        /\ rx' = Append(rx, [value |-> b, early |-> stage \in {"probe", "trigger"}])
        /\ asked' = IF stage \in {"prompt", "menu"} /\ asked = "none" /\ b \in Options
                      THEN b ELSE asked
  BY DEF Arrive
<1>. DEFINE byte == [value |-> b, early |-> stage \in {"probe", "trigger"}]
<1>2. /\ stage' = stage /\ choice' = choice
      /\ stage \in {"probe", "trigger"} \union AfterDrain
  BY DEF Arrive, AfterDrain
<1>3. byte.value = b /\ byte.early = (stage \in {"probe", "trigger"})
  OBVIOUS
<1>4. rx \in Seq(Received) /\ Len(rx) \in Nat
  BY DEF Inv, TypeOK
<1>5. /\ Len(rx') = Len(rx) + 1
      /\ \A i \in 1..Len(rx) : i \in 1..Len(rx') /\ rx'[i] = rx[i]
      /\ rx'[Len(rx) + 1] = byte
  <2>1. rx' = Append(rx, byte)
    BY <1>1
  <2>. HIDE DEF byte
  <2>2. Len(rx') = Len(rx) + 1
    BY <1>4, <2>1
  <2>3. \A i \in 1..Len(rx) : i \in 1..Len(rx') /\ rx'[i] = rx[i]
    BY <1>4, <2>1, <2>2
  <2>4. rx'[Len(rx) + 1] = byte
    BY <1>4, <2>1
  <2>. QED
    BY <2>2, <2>3, <2>4
<1>. HIDE DEF byte
<1>6. \A i \in 1..Len(rx') : i \in 1..Len(rx) \/ i = Len(rx) + 1
  <2>. DEFINE n == Len(rx)
  <2>1. 1..Len(rx') = 1..(n + 1) /\ n \in Nat
    BY <1>4, <1>5
  <2>. HIDE DEF n
  <2>2. \A i \in 1..(n + 1) : i \in 1..n \/ i = n + 1
    BY <2>1
  <2>. QED
    BY <2>1, <2>2 DEF n
<1>7. CASE stage \in {"probe", "trigger"}
  BY <1>1, <1>2, <1>7 DEF MenuSound, AfterDrain, ChoiceExplicit
<1>8. CASE stage \in AfterDrain
  <2>1. stage \notin {"probe", "trigger"}
    BY <1>8 DEF AfterDrain
  <2>2. WaitingIsFresh /\ FirstOptionWaits
    BY <1>8 DEF MenuSound
  <2>3. WaitingIsFresh'
    BY <1>3, <1>5, <1>6, <2>1, <2>2 DEF WaitingIsFresh
  <2>4. FirstOptionWaits'
    <3>1. CASE asked # "none"
      <4>1. PICK i \in 1..Len(rx) :
              rx[i].value = asked /\ \A j \in 1..(i - 1) : ~IsOption(j)
        BY <2>2, <3>1 DEF FirstOptionWaits
      <4>2. \A j \in 1..(i - 1) : j \in 1..Len(rx)
        <5>. DEFINE n == Len(rx)
        <5>1. n \in Nat /\ i \in 1..n
          BY <1>4, <4>1
        <5>. HIDE DEF n
        <5>2. \A j \in 1..(i - 1) : j \in 1..n
          BY <5>1
        <5>. QED
          BY <5>2 DEF n
      <4>3. i \in 1..Len(rx') /\ rx'[i].value = asked'
        BY <1>1, <1>5, <3>1, <4>1
      <4>4. \A j \in 1..(i - 1) : rx'[j].value \notin Options
        BY <1>5, <4>1, <4>2 DEF IsOption
      <4>5. asked' = asked
        BY <1>1, <3>1
      <4>. QED
        BY <3>1, <4>3, <4>4, <4>5 DEF FirstOptionWaits, IsOption
    <3>2. CASE asked = "none" /\ b \in Options
      <4>1. asked' = b
        BY <1>1, <1>8, <3>2 DEF AfterDrain
      <4>2. asked' # "none"
        BY <3>2, <4>1 DEF Options
      <4>3. \A j \in 1..Len(rx) : rx'[j].value \notin Options
        BY <1>5, <2>2, <3>2 DEF FirstOptionWaits, IsOption
      <4>4. /\ Len(rx) + 1 \in 1..Len(rx')
            /\ (Len(rx) + 1) - 1 = Len(rx)
            /\ rx'[Len(rx) + 1].value = asked'
        BY <1>3, <1>4, <1>5, <4>1
      <4>. QED
        BY <4>2, <4>3, <4>4 DEF FirstOptionWaits, IsOption
    <3>3. CASE asked = "none" /\ b \notin Options
      <4>1. asked' = "none"
        BY <1>1, <3>3
      <4>2. \A i \in 1..Len(rx') : rx'[i].value \notin Options
        BY <1>3, <1>5, <1>6, <2>2, <3>3 DEF FirstOptionWaits, IsOption
      <4>. QED
        BY <4>1, <4>2 DEF FirstOptionWaits, IsOption
    <3>. QED
      BY <3>1, <3>2, <3>3
  <2>. QED
    BY <1>2, <2>1, <2>3, <2>4 DEF MenuSound, ChoiceExplicit
<1>. QED
  BY <1>2, <1>7, <1>8

(* The menu loop reads the byte that has waited longest.                   *)
LEMMA MenuSoundRead ==
  ASSUME Inv, MenuSound, ChooseOption \/ NoChoice
  PROVE  MenuSound'
<1>1. rx \in Seq(Received) /\ Len(rx) \in Nat
  BY DEF Inv, TypeOK
<1>2. stage = "menu" /\ stage \in AfterDrain
  BY DEF ChooseOption, NoChoice, AfterDrain
<1>3. WaitingIsFresh /\ FirstOptionWaits /\ choice.value = "none"
  BY <1>2 DEF MenuSound
<1>4. rx # <<>> => 1 \in 1..Len(rx) /\ Head(rx) = rx[1]
  BY <1>1
<1>5. CASE ChooseOption
  <2>1. Head(rx).value \in Options /\ rx # <<>> /\ choice' = Head(rx) /\ asked' = asked
    BY <1>5 DEF ChooseOption, Select, Options
  <2>2. IsOption(1) /\ 1 \in 1..Len(rx)
    BY <1>4, <2>1 DEF IsOption
  <2>3. asked # "none"
    BY <1>3, <2>2 DEF FirstOptionWaits
  <2>4. PICK i \in 1..Len(rx) :
          rx[i].value = asked /\ \A j \in 1..(i - 1) : ~IsOption(j)
    BY <1>3, <2>3 DEF FirstOptionWaits
  <2>5. i = 1
    <3>1. i > 1 => 1 \in 1..(i - 1)
      BY <1>1
    <3>. QED
      BY <1>1, <2>2, <2>4, <3>1
  <2>6. choice'.value = asked' /\ ~choice'.early
    BY <1>3, <1>4, <2>1, <2>2, <2>4, <2>5 DEF WaitingIsFresh
  <2>7. stage' \in {"persistent", "recovery", "liveboot"}
    BY <1>5 DEF ChooseOption, Select, Launch, StartPersistent
  <2>. QED
    BY <2>6, <2>7 DEF MenuSound, ChoiceExplicit, AfterDrain
<1>6. CASE NoChoice
  <2>1. /\ choice' = choice /\ asked' = asked
        /\ stage' \in {"check", "menu"}
        /\ rx # <<>> => Head(rx).value \notin Options
        /\ rx' = IF rx = <<>> THEN rx ELSE Tail(rx)
    BY <1>2, <1>6 DEF NoChoice
  <2>2. CASE rx = <<>>
    BY <1>3, <2>1, <2>2
       DEF MenuSound, ChoiceExplicit, AfterDrain, WaitingIsFresh, FirstOptionWaits, IsOption
  <2>3. CASE rx # <<>>
    <3>1. /\ Len(rx') = Len(rx) - 1
          /\ \A i \in 1..Len(rx') : i + 1 \in 1..Len(rx) /\ rx'[i] = rx[i + 1]
      BY <1>1, <2>1, <2>3
    <3>2. WaitingIsFresh'
      BY <1>3, <3>1 DEF WaitingIsFresh
    <3>3. ~IsOption(1) /\ 1 \in 1..Len(rx)
      BY <1>4, <2>1, <2>3 DEF IsOption
    <3>4. FirstOptionWaits'
      <4>1. CASE asked = "none"
        BY <1>3, <2>1, <3>1, <4>1 DEF FirstOptionWaits, IsOption
      <4>2. CASE asked # "none"
        <5>1. PICK i \in 1..Len(rx) :
                rx[i].value = asked /\ \A j \in 1..(i - 1) : ~IsOption(j)
          BY <1>3, <4>2 DEF FirstOptionWaits
        <5>2. asked \in Options
          BY <4>2 DEF Inv, TypeOK
        <5>3. i # 1
          BY <3>3, <5>1, <5>2 DEF IsOption
        <5>4. i - 1 \in 1..Len(rx') /\ (i - 1) + 1 = i
          BY <1>1, <3>1, <5>3
        <5>5. rx'[i - 1].value = asked
          BY <3>1, <5>1, <5>4
        <5>6. ASSUME NEW j \in 1..((i - 1) - 1) PROVE rx'[j].value \notin Options
          <6>1. j \in 1..Len(rx') /\ j + 1 \in 1..(i - 1)
            BY <1>1, <3>1, <5>4
          <6>. QED
            BY <3>1, <5>1, <6>1 DEF IsOption
        <5>. QED
          BY <2>1, <4>2, <5>4, <5>5, <5>6 DEF FirstOptionWaits, IsOption
      <4>. QED
        BY <4>1, <4>2
    <3>. QED
      BY <1>3, <2>1, <3>2, <3>4 DEF MenuSound, ChoiceExplicit, AfterDrain
  <2>. QED
    BY <2>2, <2>3
<1>. QED
  BY <1>5, <1>6

(* The drain empties the receiver before any answer to the menu arrives, and
   printing the menu leaves what arrives meanwhile.                        *)
LEMMA MenuSoundStep ==
  ASSUME Inv, MenuSound, [Next]_vars
  PROVE  MenuSound'
<1>1. CASE DrainTyped
  BY <1>1 DEF DrainTyped, MenuSound, AfterDrain, WaitingIsFresh, FirstOptionWaits,
       ChoiceExplicit
<1>2. CASE OpenMenu
  BY <1>2 DEF OpenMenu, MenuSound, AfterDrain, WaitingIsFresh, FirstOptionWaits,
       IsOption, ChoiceExplicit
<1>3. CASE Trigger \/ NoTrigger
  BY <1>3 DEF Trigger, NoTrigger, MenuSound, AfterDrain, ChoiceExplicit
<1>4. CASE Tick \/ UNCHANGED vars
  BY <1>4 DEF Tick, vars, MenuSound, AfterDrain, WaitingIsFresh, FirstOptionWaits,
       IsOption, ChoiceExplicit
<1>5. CASE CheckHeader \/ CopyLine \/ FinishCopy \/ Upload \/ UploadReturns
  <2>1. stage' \notin {"probe", "trigger"} \union AfterDrain
    BY <1>5 DEF CheckHeader, CopyLine, FinishCopy, Upload, UploadReturns, Launch,
         StartPersistent, AfterDrain
  <2>2. choice' = choice /\ asked' = asked
    BY <1>5 DEF CheckHeader, CopyLine, FinishCopy, Upload, UploadReturns
  <2>. QED
    BY <2>1, <2>2 DEF MenuSound, ChoiceExplicit
<1>. QED
  BY <1>1, <1>2, <1>3, <1>4, <1>5, MenuSoundArrive, MenuSoundRead DEF Next, Boot

(* What the menu does is what the first option says that was typed after the
   drain: no byte that came with the trigger selects one, and no answer is
   drained or passed over, however much is typed and whenever it arrives.  *)
THEOREM KeyIsMeant == Spec => []ChoiceExplicit
<1>1. Init => MenuSound
  BY DEF Init, MenuSound, AfterDrain, ChoiceExplicit
<1>2. Inv /\ MenuSound /\ [Next]_vars => MenuSound'
  BY MenuSoundStep
<1>3. MenuSound => ChoiceExplicit
  BY DEF MenuSound
<1>. QED
  BY <1>1, <1>2, <1>3, Invariance, PTL DEF Spec

-----------------------------------------------------------------------------
(* Loader and sender, loader and legacy loader.                            *)

(* What the sender makes with unbounded integers does not wrap in the words
   of the loader: its limit for the end of an image is itself an address.  *)
LEMMA SenderHeaderAccepted ==
  ASSUME NEW h \in Header, SenderInside, SenderMakes(h)
  PROVE  UploadHeaderAccepted(h)
<1>1. h.load \in Nat /\ h.size \in Nat /\ h.entry \in Nat
  BY DEF Header, Address
<1>2. h.load + h.size <= SenderEnd /\ SenderEnd < Word /\ Word \in Nat
  BY DEF SenderMakes
<1>3. UploadEnd(h) = h.load + h.size
  BY <1>1, <1>2 DEF UploadEnd, Add
<1>. QED
  BY <1>1, <1>2, <1>3 DEF SenderInside, SenderMakes, UploadHeaderAccepted, UploadFits

(* In every layout that contains the limits the sender has built in, the
   loader refuses no upload that the sender is willing to make.            *)
THEOREM UploadsAgreed == Spec => []SenderAgrees
<1>1. Init => SenderAgrees
  BY DEF Init, SenderAgrees, SenderMakes, NoHeader
<1>2. SenderAgrees /\ [Next]_vars => SenderAgrees'
  <2>. SUFFICES ASSUME SenderAgrees, [Next]_vars PROVE SenderAgrees'
    OBVIOUS
  <2>1. CASE Upload
    <3>1. PICK h \in UploadHeaders :
            upload' = h /\ accepted' = UploadHeaderAccepted(h)
      BY <2>1 DEF Upload
    <3>. QED
      BY <3>1, SenderHeaderAccepted DEF SenderAgrees, SenderInside
  <2>2. CASE UNCHANGED <<upload, accepted>>
    BY <2>2 DEF SenderAgrees, SenderInside, SenderMakes
  <2>3. ~Upload => UNCHANGED <<upload, accepted>>
    BY DEF Next, Boot, vars, Arrive, Tick, Trigger, NoTrigger, DrainTyped,
         OpenMenu, ChooseOption, NoChoice, CheckHeader, CopyLine, FinishCopy, UploadReturns
  <2>. QED
    BY <2>1, <2>2, <2>3
<1>. QED
  BY <1>1, <1>2, PTL DEF Spec

(* With the strict size policy, the shipped one, the legacy loader of head.S
   boots every kernel that stage 1 boots: the size is a multiple of a line,
   so that rounding it, which only stage 1 does, changes nothing.          *)
THEOREM StrictLegacyBoots ==
  ASSUME SizePolicy = "legacy-strict"
  PROVE  Spec => []LegacyAgrees
<1>1. Inv => LegacyAgrees
  <2>. SUFFICES ASSUME Inv, stage = "kernel" PROVE LegacyHeaderAccepted(header)
    BY DEF LegacyAgrees
  <2>1. /\ FlashHeaderAccepted(header) /\ header.size <= Word - Line
        /\ header.size \in Address /\ header.size \in Nat
    BY DEF Inv, TypeOK, Accepted, Header, Address, FlashHeaderAccepted, SizeAccepted
  <2>2. EffectiveSize(header) \in Nat /\ header.size <= EffectiveSize(header)
    BY <2>1, RoundUpType, RoundUpBounds DEF EffectiveSize
  <2>. QED
    BY <2>1, <2>2 DEF FlashHeaderAccepted, SizeAccepted, LegacyHeaderAccepted
<1>. QED
  BY <1>1, Invariance, PTL
=============================================================================
