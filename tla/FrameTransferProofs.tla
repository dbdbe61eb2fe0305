------------------------- MODULE FrameTransferProofs -------------------------
(***************************************************************************)
(* The transfer of an object: what the receiver takes as stored has been   *)
(* stored, and the two ends stay in step, for any number of frames, any    *)
(* windows, and any number of faults, tests and retries.                   *)
(***************************************************************************)
EXTENDS FrameTransfer, SequenceTheorems, WellFoundedInduction, TLAPS

-----------------------------------------------------------------------------
(* Types.                                                                  *)

Tests == 1..MaxTests
Positions == 0..(MaxWindow - 1)

Tokens ==
  {Confirm, Start, Junk}
    \union [kind : {"rest", "data"}, sequence : Slots, test : Tests]
    \union [kind : {"command"}, test : Tests, window : Windows]

Acks ==
  {a \in [kind : {"ack"}, base : Slots, round : 0..Rounds, bitmap : SUBSET Slots] :
     \A p \in a.bitmap : a.base + p \in Slots}
Ends == {"unknown", "fail", "pass"}
Lines == Acks \union [kind : Ends \union {"ready"}]

Hosts ==
  [state : {"idle", "ready", "send", "ack", "result", "gone"}, test : 0..MaxTests,
   window : Windows \union {1}, base : 0..Frames, todo : SUBSET Slots, heard : -1..Rounds]

(* The variables of receive_v3_object; K is what a round costs at most.    *)
K == MaxWindow + AckTries - 1

Objects ==
  [test : 0..MaxTests, window : Windows \union {1}, base : 0..Frames, pos : Slots,
   round : 0..Rounds, bitmap : SUBSET Slots, attempt : 0..AckTries,
   effort : 0..((1 + Rounds) * K)]

(* What the types say, the line and the host included.                     *)
Types ==
  /\ phase \in {"command", "window", "frame", "ack"}
  /\ obj \in Objects
  /\ stored \in [Slots -> 0..MaxTests]
  /\ pushback \in BOOLEAN
  /\ outcome \in {"none", "pass", "fail"}
  /\ host \in Hosts
  /\ toTarget \in Seq(Tokens)
  /\ toHost \in Seq(Lines)
  /\ faults \in Seq(FaultKinds) /\ Len(faults) <= MaxFaults

(* The object and the host in every phase.                                 *)
ObjShape ==
  /\ phase # "command" => obj.test \in Tests /\ obj.window \in Windows
  /\ phase \in {"frame", "ack"} =>
       /\ obj.base < Frames
       /\ obj.pos < Count(obj.base, obj.window)
       /\ obj.bitmap \subseteq 0..(Count(obj.base, obj.window) - 1)
  /\ phase = "frame" => obj.effort <= obj.round * K + obj.pos
  /\ phase = "ack" =>
       /\ obj.attempt \in 1..AckTries
       /\ obj.effort <= obj.round * K + MaxWindow + obj.attempt - 1

HostShape ==
  /\ host.state = "send" => host.todo # {}
  /\ host.state \in {"ready", "send", "ack", "result"} => host.test \in Tests
  /\ host.state \in {"ready", "send", "ack"} => host.base < Frames

-----------------------------------------------------------------------------
(* What is stored.                                                         *)

(* Positions of the window that were read and are not marked in the bitmap. *)
Taken(p) == p \notin obj.bitmap /\ (phase = "ack" \/ obj.round > 0 \/ p < obj.pos)

TakenStored ==
  /\ phase # "command" => \A s \in 0..(obj.base - 1) : stored[s] # 0
  /\ phase \in {"frame", "ack"} =>
       \A p \in 0..(Count(obj.base, obj.window) - 1) : Taken(p) => stored[obj.base + p] # 0

(* While the host gives up nothing, there is one test at a time: it is asked
   for, transferred or answered.                                           *)
Carries(token, t) == token.kind \in {"rest", "data"} => token.test = t

Asked(i) == toTarget[i].kind = "command"
Ended(j) == toHost[j].kind \in Ends

OneTest ==
  "giveup" \notin ToSet(faults) =>
    /\ \A i \in 1..Len(toTarget) : Asked(i) =>
         /\ toTarget[i].test = host.test
         /\ host.state # "idle" /\ phase = "command"
         /\ \A j \in (i + 1)..Len(toTarget) : ~Asked(j) /\ Carries(toTarget[j], host.test)
    /\ \A j \in 1..Len(toHost) : Ended(j) =>
         /\ host.state # "idle" /\ phase = "command"
         /\ \A i \in 1..Len(toTarget) : ~Asked(i)
         /\ \A i \in (j + 1)..Len(toHost) : ~Ended(i)
    /\ phase # "command" =>
         /\ host.state # "idle" /\ obj.test = host.test
         /\ \A i \in 1..Len(toTarget) : Carries(toTarget[i], host.test)
         /\ \A s \in Slots : stored[s] \in {0, obj.test}

IInv == Types /\ ObjShape /\ HostShape /\ TakenStored /\ OneTest

-----------------------------------------------------------------------------
(* The two ends in step.                                                   *)

(* Nobody was late and nobody gave up.                                     *)
Punctual == Only({"confirm", "frame", "ack", "deadline"})

Next1 == obj.base + Count(obj.base, obj.window)

(* The slots that the target has still to read in the round that begins with
   the host's answer, or has begun.                                        *)
Span(base) == base..(base + Count(base, obj.window) - 1)
Due ==
  IF phase = "window" THEN Span(obj.base)
  ELSE IF phase = "frame"
    THEN {s \in Span(obj.base) : s >= obj.base + obj.pos
                                   /\ (obj.round = 0 \/ s - obj.base \in obj.bitmap)}
  ELSE IF obj.bitmap # {} THEN {s \in Span(obj.base) : s - obj.base \in obj.bitmap}
  ELSE Span(Next1)

(* The host has heard the ACK that opens this round, or the one that the
   target waits for a confirmation of.                                     *)
Heard ==
  IF phase = "window" THEN host.heard = -1
  ELSE IF phase = "frame" THEN host.heard = obj.round - 1
  ELSE IF obj.bitmap = {} THEN host.base = Next1 /\ host.heard = -1
  ELSE host.heard = obj.round

OnlyConfirms == \A i \in 1..Len(Stream) : Stream[i] = Confirm
JunkFirst == Stream # <<>> /\ Stream[1] = Junk
Fresh(a) == a.kind = "ack" /\ a.base = host.base /\ a.round > host.heard

(* What is under way to the target when the host has heard: frames that are
   due, in order, and after the last one nothing.                          *)
Framed(i) == Stream[i].kind \in {"rest", "data"}

InOrder ==
  \A i, j \in 1..Len(Stream) : i < j /\ Framed(i) /\ Framed(j) =>
    \/ Stream[i].sequence < Stream[j].sequence
    \/ /\ Stream[i].sequence = Stream[j].sequence /\ j = i + 1
       /\ Stream[i].kind = "rest" /\ Stream[j].kind = "data"

(* Only data may follow what is at i.                                      *)
Closing(i) == i = Len(Stream) \/ (i + 1 = Len(Stream) /\ Stream[i].kind = "rest")

StillDue ==
  \A i \in 1..Len(Stream) : Framed(i) =>
    /\ Stream[i].sequence \in Due
    /\ host.state = "send" => \A d \in host.todo : Stream[i].sequence < d
    /\ Closing(i) \/ \E d \in Due : d > Stream[i].sequence

Burst ==
  /\ host.base = Frames => OnlyConfirms
  /\ host.state = "send" => host.todo \subseteq Due
  /\ host.state = "send" /\ obj.window = 1 => OnlyConfirms
  /\ ~JunkFirst => InOrder /\ StillDue

HeardState ==
  /\ Burst
  /\ \A j \in 1..Len(toHost) : toHost[j].kind = "ack" /\ ~Fresh(toHost[j])
  /\ host.state \in {"send", "ack", "result", "gone"}
  /\ toHost # <<>> =>
       JunkFirst \/ (phase = "ack" /\ Stream = <<>> /\ Len(toHost) = 1
                       /\ host.state \in {"ack", "result"})

(* The target said so and the host has not heard it.  With a window of one
   frame, confirmations of earlier ACKs may be left.                       *)
UnheardState ==
  /\ host.base = obj.base /\ host.state \in {"ack", "gone"}
  /\ phase \in {"frame", "ack"}
  /\ obj.bitmap # {}
  /\ OnlyConfirms
  /\ \A j \in 1..Len(toHost) : toHost[j].kind = "ack"
  /\ \A j \in 1..Len(toHost) : Fresh(toHost[j]) =>
       /\ j = Len(toHost)
       /\ toHost[j].bitmap = obj.bitmap
       /\ toHost[j].round = IF phase = "frame" THEN obj.round - 1 ELSE obj.round
  /\ host.heard < IF phase = "frame" THEN obj.round - 1 ELSE obj.round
  /\ obj.window = 1

UnheardClean ==
  /\ host.base = obj.base /\ host.state \in {"ack", "gone"}
  /\ phase = "ack" /\ host.heard < obj.round
  /\ Stream = <<>>
  /\ toHost \in {<<>>, <<Ack(obj)>>}

Ready ==
  /\ host.state \in {"ready", "gone"}
  /\ phase \in {"window", "frame"}
  /\ obj.base = 0 /\ host.base = 0 /\ host.heard = -1
  /\ phase = "frame" => obj.round = 0 /\ obj.pos = 0
  /\ Stream = <<>>
  /\ toHost = IF host.state = "gone" THEN <<>> ELSE <<Reply("ready")>>

(* The rest of the line: a byte is pushed back only within a test, and what
   ends a test is the last that is said in it.                             *)
LineRule ==
  /\ pushback => phase # "command"
  /\ host.state = "idle" => toHost = <<>>
  /\ \A j \in 1..Len(toHost) : Ended(j) => j = Len(toHost)
  /\ \A i \in 1..Len(toTarget) : Asked(i) =>
       /\ i = Len(toTarget) /\ toHost = <<>>
       /\ host.state \in {"ready", "gone"}
       /\ host.base = 0 /\ host.heard = -1
       /\ toTarget[i].window = host.window

MidTest ==
  /\ host.window = obj.window
  /\ host.state # "gone" => (host.state = "result" <=> host.base = Frames)
  /\ host.base = obj.base \/ (phase = "ack" /\ obj.bitmap = {} /\ host.base = Next1)
  /\ Ready \/ (Heard /\ HeardState) \/ UnheardState \/ UnheardClean

InStep == Punctual => LineRule /\ (phase # "command" => MidTest)

-----------------------------------------------------------------------------
(* Lost confirmations only.                                                *)

OnlyConfirmsLost == Only({"confirm"}) /\ Len(faults) < AckTries /\ host.state # "gone"

LowDue == IF phase = "frame" THEN obj.base + obj.pos
          ELSE IF phase = "window" THEN obj.base ELSE Next1
EndDue == IF phase = "ack" THEN Next1 + Count(Next1, obj.window) ELSE Next1

(* c confirmations (none or one), then the frames of the slots from LowDue
   to g - 1; the host still has to send those from g.                      *)
Frame(at, s) ==
  /\ Stream[at + 1] = Start
  /\ Stream[at + 2].kind = "rest" /\ Stream[at + 2].sequence = s
  /\ Stream[at + 3].kind = "data" /\ Stream[at + 3].sequence = s

WholeFrames(c, g) ==
  /\ Len(Stream) = c + 3 * (g - LowDue)
  /\ c = 1 => phase = "ack" /\ Stream[1] = Confirm
  /\ \A m \in 0..(g - LowDue - 1) : Frame(c + 3 * m, LowDue + m)
  /\ host.state = "send" => host.todo = g..(EndDue - 1)
  /\ host.state \in {"ack", "result"} => g = EndDue

(* While the target waits for a confirmation, it repeats its ACK at most once
   for every confirmation that was lost.                                   *)
Waiting ==
  IF host.base = obj.base THEN toHost = <<Ack(obj)>> /\ obj.attempt = 1
  ELSE /\ obj.attempt <= Len(faults) + 1
       /\ host.state # "result" => toHost = <<>>
       /\ toHost = <<>> /\ Stream = <<>> => obj.attempt <= Len(faults)

Lossless ==
  /\ phase # "window" => obj.round = 0
  /\ \A s \in Slots : s >= LowDue => stored[s] = 0
  /\ (phase # "ack" /\ ~Ready) \/ (phase = "ack" /\ host.base # obj.base) =>
       \E c \in 0..1, g \in LowDue..EndDue : WholeFrames(c, g)
  /\ phase = "ack" => Waiting

Unharmed == obj.bitmap = {} /\ outcome # "fail" /\ (phase # "command" => Lossless)

NothingRefused == OnlyConfirmsLost => Unharmed

-----------------------------------------------------------------------------
(* Minima, window sizes and what is done to the sequences.                 *)

LEMMA LeastOf ==
  ASSUME NEW S \in SUBSET Nat, S # {}
  PROVE  Least(S) \in S /\ \A x \in S : Least(S) <= x
<1> DEFINE R == {ss \in Nat \X Nat : ss[1] < ss[2]}
<1>1. IsWellFoundedOn(R, Nat)
  BY NatLessThanWellFounded DEF OpToRel
<1>2. PICK m \in S : \A x \in S : ~(<<x, m>> \in R)
  BY <1>1, WFMin
<1>3. ASSUME NEW x \in S PROVE m <= x
  <2>1. <<x, m>> \in Nat \X Nat /\ ~(<<x, m>> \in R)
    BY <1>2
  <2>2. ~(x < m)
    BY <2>1, <<x, m>>[1] = x, <<x, m>>[2] = m
  <2> QED BY <2>2
<1> QED BY <1>3 DEF Least

LEMMA Sizes ==
  ASSUME NEW base \in 0..Frames, NEW w \in Windows \union {1}
  PROVE  /\ Frames \in Nat \ {0} /\ MaxWindow \in Nat \ {0} /\ AckTries \in Nat \ {0}
         /\ MaxTests \in Nat \ {0} /\ Rounds \in Nat /\ K \in Nat \ {0}
         /\ w \in 1..MaxWindow
         /\ Count(base, w) \in 0..MaxWindow /\ base + Count(base, w) \in 0..Frames
         /\ Count(base, w) <= w
         /\ base < Frames => Count(base, w) >= 1
         /\ w = 1 /\ base < Frames => Count(base, w) = 1
BY TransferAssumption DEF Count, K

LEMMA Cut ==
  ASSUME NEW T, NEW s \in Seq(T), NEW n \in 0..Len(s)
  PROVE  /\ SubSeq(s, n + 1, Len(s)) \in Seq(T)
         /\ Len(SubSeq(s, n + 1, Len(s))) = Len(s) - n
         /\ \A i \in 1..(Len(s) - n) : SubSeq(s, n + 1, Len(s))[i] = s[n + i]
<1> DEFINE t == SubSeq(s, n + 1, Len(s))
<1>1. \A i \in (n + 1)..Len(s) : s[i] \in T
  BY LenProperties
<1>2. /\ t \in Seq(T)
      /\ Len(t) = IF n + 1 <= Len(s) THEN Len(s) - (n + 1) + 1 ELSE 0
      /\ \A i \in 1..(Len(s) - (n + 1) + 1) : t[i] = s[(n + 1) + i - 1]
  BY <1>1, SubSeqProperties, LenProperties
<1> HIDE DEF t
<1>3. Len(s) \in Nat
  BY LenProperties
<1>4. Len(t) = Len(s) - n
  BY <1>2, <1>3
<1>5. ASSUME NEW i \in 1..(Len(s) - n) PROVE t[i] = s[n + i]
  <2>1. i \in 1..(Len(s) - (n + 1) + 1) /\ (n + 1) + i - 1 = n + i
    BY <1>3
  <2> QED BY <2>1, <1>2
<1> QED BY <1>2, <1>4, <1>5 DEF t

LEMMA Removed ==
  ASSUME NEW T, NEW s \in Seq(T), NEW k \in 1..Len(s)
  PROVE  /\ RemoveAt(s, k) \in Seq(T)
         /\ Len(RemoveAt(s, k)) = Len(s) - 1
         /\ \A i \in 1..(Len(s) - 1) :
              RemoveAt(s, k)[i] = IF i < k THEN s[i] ELSE s[i + 1]
<1> DEFINE a == SubSeq(s, 1, k - 1)
           b == SubSeq(s, k + 1, Len(s))
<1>1. Len(s) \in Nat /\ \A i \in 1..Len(s) : s[i] \in T
  BY LenProperties
<1>2. /\ a \in Seq(T) /\ Len(a) = k - 1
      /\ \A i \in 1..(k - 1) : a[i] = s[i]
  <2>1. /\ a \in Seq(T) /\ Len(a) = IF 1 <= k - 1 THEN k - 1 - 1 + 1 ELSE 0
        /\ \A i \in 1..(k - 1 - 1 + 1) : a[i] = s[1 + i - 1]
    BY <1>1, SubSeqProperties
  <2> QED BY <2>1, <1>1
<1>3. /\ b \in Seq(T) /\ Len(b) = Len(s) - k
      /\ \A i \in 1..(Len(s) - k) : b[i] = s[k + i]
  BY Cut
<1>4. RemoveAt(s, k) = a \o b
  BY DEF RemoveAt
<1>5. /\ a \o b \in Seq(T)
      /\ Len(a \o b) = Len(a) + Len(b)
      /\ \A i \in 1..(Len(a) + Len(b)) :
           (a \o b)[i] = IF i <= Len(a) THEN a[i] ELSE b[i - Len(a)]
  BY <1>2, <1>3, ConcatProperties
<1> HIDE DEF a, b
<1>6. Len(a) + Len(b) = Len(s) - 1
  BY <1>1, <1>2, <1>3
<1>7. ASSUME NEW i \in 1..(Len(s) - 1)
      PROVE  (a \o b)[i] = IF i < k THEN s[i] ELSE s[i + 1]
  <2>1. CASE i < k
    BY <2>1, <1>2, <1>5, <1>6
  <2>2. CASE i >= k
    <3>1. i - Len(a) \in 1..(Len(s) - k) /\ k + (i - Len(a)) = i + 1
      BY <2>2, <1>1, <1>2
    <3>2. b[i - Len(a)] = s[i + 1]
      BY <3>1, <1>3
    <3> QED BY <2>2, <3>2, <1>1, <1>2, <1>5, <1>6
  <2>3. i < k \/ i >= k
    BY <1>1
  <2> QED BY <2>1, <2>2, <2>3
<1> QED BY <1>4, <1>5, <1>6, <1>7

LEMMA Beheaded ==
  ASSUME NEW T, NEW s \in Seq(T), s # <<>>
  PROVE  /\ Len(s) \in Nat \ {0} /\ Head(s) = s[1] /\ s[1] \in T
         /\ Tail(s) \in Seq(T) /\ Len(Tail(s)) = Len(s) - 1
         /\ \A i \in 1..(Len(s) - 1) : Tail(s)[i] = s[i + 1]
BY HeadTailProperties, LenProperties, EmptySeq

LEMMA Prefixed ==
  ASSUME NEW T, NEW s \in Seq(T), NEW e \in T
  PROVE  /\ <<e>> \o s \in Seq(T) /\ Len(<<e>> \o s) = Len(s) + 1
         /\ (<<e>> \o s)[1] = e
         /\ \A i \in 2..(Len(s) + 1) : (<<e>> \o s)[i] = s[i - 1]
<1>1. <<e>> \in Seq(T) /\ Len(<<e>>) = 1 /\ <<e>>[1] = e
  OBVIOUS
<1>2. Len(s) \in Nat
  BY LenProperties
<1>3. /\ <<e>> \o s \in Seq(T) /\ Len(<<e>> \o s) = Len(<<e>>) + Len(s)
      /\ \A i \in 1..(Len(<<e>>) + Len(s)) :
           (<<e>> \o s)[i] = IF i <= Len(<<e>>) THEN <<e>>[i] ELSE s[i - Len(<<e>>)]
  BY <1>1, ConcatProperties
<1> QED BY <1>1, <1>2, <1>3
LEMMA Kinds ==
  /\ Start \in Tokens /\ Confirm \in Tokens /\ Junk \in Tokens
  /\ Start.kind = "start" /\ Confirm.kind = "confirm" /\ Junk.kind = "junk"
  /\ Start # Confirm /\ Start # Junk /\ Confirm # Junk
  /\ \A x \in Tokens :
       /\ x.kind \in {"confirm", "start", "junk", "rest", "data", "command"}
       /\ x.kind = "confirm" <=> x = Confirm
       /\ x.kind = "start" <=> x = Start
       /\ x.kind = "junk" <=> x = Junk
       /\ x.kind \in {"rest", "data"} => x.sequence \in Slots /\ x.test \in Tests
       /\ x.kind = "command" => x.test \in Tests /\ x.window \in Windows
BY DEF Tokens, Start, Confirm, Junk

LEMMA StreamSeq ==
  ASSUME Types
  PROVE  /\ Stream \in Seq(Tokens) /\ Len(Stream) \in Nat /\ Len(toTarget) \in Nat
         /\ ~pushback => Stream = toTarget
         /\ pushback => /\ Len(Stream) = Len(toTarget) + 1 /\ Stream[1] = Start
                        /\ \A i \in 1..Len(toTarget) : Stream[i + 1] = toTarget[i]
                        /\ \A i \in 2..Len(Stream) : Stream[i] = toTarget[i - 1]
<1>1. toTarget \in Seq(Tokens) /\ Len(toTarget) \in Nat
  BY LenProperties DEF Types
<1>2. CASE ~pushback
  BY <1>1, <1>2, ConcatEmptySeq DEF Stream
<1>3. CASE pushback
  <2>1. Stream = <<Start>> \o toTarget
    BY <1>3 DEF Stream
  <2>2. /\ <<Start>> \o toTarget \in Seq(Tokens)
        /\ Len(<<Start>> \o toTarget) = Len(toTarget) + 1
        /\ (<<Start>> \o toTarget)[1] = Start
        /\ \A i \in 2..(Len(toTarget) + 1) : (<<Start>> \o toTarget)[i] = toTarget[i - 1]
    BY <1>1, Kinds, Prefixed
  <2>3. \A i \in 1..Len(toTarget) : i + 1 \in 2..(Len(toTarget) + 1) /\ (i + 1) - 1 = i
    BY <1>1
  <2> QED BY <1>1, <1>3, <2>1, <2>2, <2>3
<1> QED BY <1>2, <1>3

(* The tokens that are left are tokens that were there, beginnings or junk. *)
Remains ==
  /\ toTarget' \in Seq(Tokens) /\ pushback' \in BOOLEAN
  /\ \A i \in 1..Len(toTarget') :
       \/ toTarget'[i] \in {Start, Junk}
       \/ \E j \in 1..Len(toTarget) : toTarget'[i] = toTarget[j]

LEMMA StreamTokens ==
  ASSUME Types
  PROVE  \A i \in 1..Len(Stream) :
           Stream[i] \in {Start, Junk} \/ \E j \in 1..Len(toTarget) : Stream[i] = toTarget[j]
<1>1. ASSUME NEW i \in 1..Len(Stream), pushback, i # 1
      PROVE  i - 1 \in 1..Len(toTarget) /\ Stream[i] = toTarget[i - 1]
  BY <1>1, StreamSeq
<1> QED BY <1>1, StreamSeq DEF Types

(* With nothing pushed back the stream is the line.                        *)
LEMMA LineOnly ==
  ASSUME toTarget' \in Seq(Tokens), pushback' = FALSE
  PROVE  Stream' = toTarget'
BY ConcatEmptySeq DEF Stream

LEMMA Consumed ==
  ASSUME Types, NEW n \in 0..Len(Stream), Consume(n)
  PROVE  /\ Remains /\ pushback' = FALSE
         /\ Stream' = toTarget' /\ Stream' \in Seq(Tokens) /\ Len(Stream') = Len(Stream) - n
         /\ \A i \in 1..(Len(Stream) - n) : Stream'[i] = Stream[n + i]
<1>1. /\ toTarget' \in Seq(Tokens) /\ Len(toTarget') = Len(Stream) - n
      /\ \A i \in 1..(Len(Stream) - n) : toTarget'[i] = Stream[n + i]
      /\ pushback' = FALSE
  BY StreamSeq, Cut DEF Consume
<1>2. Stream' = toTarget'
  BY <1>1, LineOnly
<1>3. \A i \in 1..(Len(Stream) - n) : n + i \in 1..Len(Stream)
  BY StreamSeq
<1>4. Remains
  BY <1>1, <1>3, StreamTokens DEF Remains
<1> QED BY <1>1, <1>2, <1>4

LEMMA Drained ==
  ASSUME Drain
  PROVE  Remains /\ pushback' = FALSE /\ Stream' = <<>> /\ toTarget' = <<>>
<1>1. toTarget' = <<>> /\ pushback' = FALSE /\ <<>> \in Seq(Tokens) /\ Len(<<>>) = 0
  BY DEF Drain
<1>2. Stream' = toTarget'
  BY <1>1, LineOnly
<1>3. \A i \in 1..Len(toTarget') : FALSE
  BY <1>1
<1> QED BY <1>1, <1>2, <1>3 DEF Remains

LEMMA StartKept ==
  ASSUME Types, Stream # <<>>, Head(Stream) = Start, KeepStart
  PROVE  /\ Remains /\ Stream' \in Seq(Tokens) /\ Len(Stream') = Len(Stream)
         /\ \A i \in 1..Len(Stream) : Stream'[i] = Stream[i]
<1>1. /\ Len(Stream) \in Nat \ {0} /\ Head(Stream) = Stream[1]
      /\ Tail(Stream) \in Seq(Tokens) /\ Len(Tail(Stream)) = Len(Stream) - 1
      /\ \A i \in 1..(Len(Stream) - 1) : Tail(Stream)[i] = Stream[i + 1]
  BY StreamSeq, Beheaded
<1>2. toTarget' = Tail(Stream) /\ pushback' = TRUE
  BY DEF KeepStart
<1>3. Stream' = <<Start>> \o toTarget'
  BY <1>2 DEF Stream
<1>4. /\ <<Start>> \o toTarget' \in Seq(Tokens)
      /\ Len(<<Start>> \o toTarget') = Len(toTarget') + 1
      /\ (<<Start>> \o toTarget')[1] = Start
      /\ \A i \in 2..(Len(toTarget') + 1) : (<<Start>> \o toTarget')[i] = toTarget'[i - 1]
  BY <1>1, <1>2, Kinds, Prefixed
<1>5. ASSUME NEW i \in 2..Len(Stream) PROVE Stream'[i] = Stream[i]
  <2>1. i \in 2..(Len(toTarget') + 1) /\ i - 1 \in 1..(Len(Stream) - 1) /\ (i - 1) + 1 = i
    BY <1>1, <1>2
  <2> QED BY <2>1, <1>1, <1>2, <1>3, <1>4
<1>6. \A i \in 1..(Len(Stream) - 1) : i + 1 \in 1..Len(Stream)
  BY <1>1
<1>7. Remains
  BY <1>1, <1>2, <1>6, StreamTokens DEF Remains
<1>8. \A i \in 1..Len(Stream) : i = 1 \/ i \in 2..Len(Stream)
  BY <1>1
<1> QED BY <1>1, <1>2, <1>3, <1>4, <1>5, <1>7, <1>8

LEMMA JunkLeft ==
  ASSUME Types, Stream # <<>>, pushback' = FALSE, toTarget' = <<Junk>> \o Tail(Stream)
  PROVE  /\ Remains /\ Stream' = toTarget' /\ Len(Stream') = Len(Stream) /\ Stream'[1] = Junk
         /\ Stream' \in Seq(Tokens)
         /\ \A i \in 2..Len(Stream) : Stream'[i] = Stream[i]
<1>1. /\ Len(Stream) \in Nat \ {0}
      /\ Tail(Stream) \in Seq(Tokens) /\ Len(Tail(Stream)) = Len(Stream) - 1
      /\ \A i \in 1..(Len(Stream) - 1) : Tail(Stream)[i] = Stream[i + 1]
  BY StreamSeq, Beheaded
<1>2. /\ toTarget' \in Seq(Tokens) /\ Len(toTarget') = Len(Tail(Stream)) + 1
      /\ toTarget'[1] = Junk
      /\ \A i \in 2..(Len(Tail(Stream)) + 1) : toTarget'[i] = Tail(Stream)[i - 1]
  BY <1>1, Kinds, Prefixed
<1>3. Stream' = toTarget'
  BY <1>2, LineOnly
<1>4. ASSUME NEW i \in 2..Len(Stream) PROVE toTarget'[i] = Stream[i]
  <2>1. i \in 2..(Len(Tail(Stream)) + 1) /\ i - 1 \in 1..(Len(Stream) - 1) /\ (i - 1) + 1 = i
    BY <1>1
  <2> QED BY <2>1, <1>1, <1>2
<1>5. \A i \in 1..Len(toTarget') : i = 1 \/ i \in 2..Len(Stream)
  BY <1>1, <1>2
<1>6. ASSUME NEW i \in 1..Len(toTarget')
      PROVE  \/ toTarget'[i] \in {Start, Junk}
             \/ \E j \in 1..Len(toTarget) : toTarget'[i] = toTarget[j]
  <2>1. CASE i = 1
    BY <2>1, <1>2
  <2>2. CASE i \in 2..Len(Stream)
    <3>1. i \in 1..Len(Stream) /\ toTarget'[i] = Stream[i]
      BY <2>2, <1>4, <1>1
    <3> QED BY <3>1, StreamTokens
  <2> QED BY <2>1, <2>2, <1>5
<1>7. Remains
  BY <1>2, <1>6 DEF Remains
<1> QED BY <1>1, <1>2, <1>3, <1>4, <1>7
-----------------------------------------------------------------------------
(* What the steps of receive_v3_object do to the object.                   *)

Here == obj.base + obj.pos
InWindow == 0..(Count(obj.base, obj.window) - 1)

ObjectGood ==
  /\ phase' \in {"command", "window", "frame", "ack"}
  /\ obj' \in Objects /\ ObjShape' /\ TakenStored'

LEMMA ObjFields ==
  ASSUME Types
  PROVE  /\ obj.test \in 0..MaxTests /\ obj.window \in Windows \union {1}
         /\ obj.base \in 0..Frames /\ obj.pos \in Slots /\ obj.round \in 0..Rounds
         /\ obj.bitmap \in SUBSET Slots /\ obj.attempt \in 0..AckTries
         /\ obj.effort \in 0..((1 + Rounds) * K)
         /\ Slots = 0..(Frames - 1) /\ Slots \subseteq Nat
BY TransferAssumption DEF Types, Objects, Slots

LEMMA WindowFacts ==
  ASSUME Types, ObjShape, phase \in {"frame", "ack"}
  PROVE  /\ Count(obj.base, obj.window) \in 1..MaxWindow
         /\ obj.base + Count(obj.base, obj.window) \in 1..Frames
         /\ obj.base \in Slots /\ obj.pos \in InWindow /\ obj.bitmap \subseteq InWindow
         /\ obj.test \in Tests /\ obj.window \in Windows
         /\ InWindow \subseteq Slots /\ Here \in Slots
         /\ \A p \in InWindow : p \in Nat /\ p < MaxWindow /\ obj.base + p \in Slots
BY ObjFields, Sizes DEF ObjShape, InWindow, Here, Slots

(* What a round costs, and that the rounds fit.                            *)
LEMMA Costs ==
  ASSUME NEW r \in 0..Rounds
  PROVE  /\ r * K \in Nat
         /\ (r + 1) * K = r * K + K
         /\ r * K + K <= (1 + Rounds) * K
         /\ (1 + Rounds) * K \in Nat
<1> DEFINE k == K
<1>1. k \in Nat /\ Rounds \in Nat
  BY TransferAssumption DEF K
<1> HIDE DEF k
<1>2. /\ r * k \in Nat /\ (r + 1) * k = r * k + k /\ (1 + Rounds) * k \in Nat
      /\ (Rounds - r) * k \in Nat
      /\ (1 + Rounds) * k = r * k + k + (Rounds - r) * k
  BY <1>1, SMT
<1> QED BY <1>1, <1>2 DEF k

LEMMA NextPosition ==
  ASSUME Types, ObjShape, phase = "frame", NEW bm \in SUBSET InWindow, Remaining(bm) # {}
  PROVE  /\ Least(Remaining(bm)) \in Remaining(bm)
         /\ \A p \in Remaining(bm) : Least(Remaining(bm)) <= p
         /\ Remaining(bm) \subseteq InWindow
         /\ \A p \in Remaining(bm) : p > obj.pos /\ (obj.round = 0 \/ p \in bm)
<1>1. Remaining(bm) \subseteq InWindow /\ InWindow \subseteq Nat
  BY WindowFacts DEF Remaining, InWindow
<1>2. /\ Least(Remaining(bm)) \in Remaining(bm)
      /\ \A p \in Remaining(bm) : Least(Remaining(bm)) <= p
  BY <1>1, LeastOf
<1> QED BY <1>1, <1>2 DEF Remaining

LEMMA FrameReadGood ==
  ASSUME Types, ObjShape, TakenStored, phase = "frame", NEW ok \in BOOLEAN, FrameRead(ok),
         stored' \in [Slots -> 0..MaxTests],
         \A s \in Slots : stored[s] # 0 => stored'[s] # 0,
         ok => stored'[Here] # 0
  PROVE  /\ ObjectGood
         /\ phase' \in {"frame", "ack"}
         /\ obj'.test = obj.test /\ obj'.window = obj.window /\ obj'.base = obj.base
         /\ obj'.round = obj.round /\ obj'.bitmap = MarkFrame(ok)
         /\ obj'.bitmap \in SUBSET InWindow
         /\ phase' = "frame" => /\ Remaining(obj'.bitmap) # {}
                                /\ obj'.pos = Least(Remaining(obj'.bitmap))
                                /\ toHost' = toHost
         /\ phase' = "ack" => Remaining(obj'.bitmap) = {} /\ obj'.attempt = 1 /\ Say(Ack(obj'))
<1> DEFINE bm == MarkFrame(ok)
           nx == [obj EXCEPT !.bitmap = bm, !.effort = @ + 1]
<1>1. /\ bm \in SUBSET InWindow
      /\ \A p \in InWindow : p # obj.pos => (p \in bm <=> p \in obj.bitmap)
      /\ obj.pos \in bm <=> ~ok
  BY WindowFacts DEF MarkFrame
<1>2. /\ IF Remaining(bm) # {}
           THEN /\ obj' = [nx EXCEPT !.pos = Least(Remaining(bm))]
                /\ phase' = phase /\ toHost' = toHost
           ELSE /\ phase' = "ack" /\ obj' = [nx EXCEPT !.attempt = 1]
                /\ Say(Ack(nx))
  BY DEF FrameRead
<1> HIDE DEF bm
<1> DEFINE rk == obj.round * K
           top == (1 + Rounds) * K
<1>3. /\ rk \in Nat /\ top \in Nat /\ rk + K <= top
      /\ K = MaxWindow + AckTries - 1
      /\ AckTries \in Nat \ {0} /\ MaxWindow \in Nat \ {0}
      /\ obj.effort \in Nat /\ obj.pos \in Nat /\ obj.pos + 1 <= MaxWindow
      /\ obj.effort <= rk + obj.pos
  <2>1. rk \in Nat /\ top \in Nat /\ rk + K <= top
    BY ObjFields, Costs
  <2>2. obj.effort <= rk + obj.pos /\ obj.effort \in Nat
    BY ObjFields DEF ObjShape, Objects
  <2>3. obj.pos \in Nat /\ obj.pos + 1 <= MaxWindow
    BY WindowFacts, TransferAssumption
  <2> QED BY <2>1, <2>2, <2>3, TransferAssumption DEF K
<1>4. obj.effort + 1 \in 0..top /\ obj.effort + 1 <= rk + obj.pos + 1
  <2> HIDE DEF rk, top
  <2> QED BY <1>3
<1>6. nx \in Objects /\ nx.test = obj.test /\ nx.window = obj.window /\ nx.base = obj.base
        /\ nx.round = obj.round /\ nx.bitmap = bm /\ nx.effort = obj.effort + 1
        /\ nx.pos = obj.pos /\ nx.attempt = obj.attempt
  BY <1>1, <1>4, WindowFacts DEF Types, Objects
<1> HIDE DEF nx
<1>7. \A p \in InWindow : Taken(p) => stored'[obj.base + p] # 0
  BY WindowFacts DEF TakenStored, InWindow
<1>8. ASSUME NEW s \in 0..(obj.base - 1) PROVE stored'[s] # 0
  <2>1. s \in Slots
    BY ObjFields, TransferAssumption
  <2> QED BY <2>1 DEF TakenStored
<1>9. CASE Remaining(bm) # {}
  <2> DEFINE q == Least(Remaining(bm))
  <2>1. /\ q \in InWindow /\ q > obj.pos
        /\ \A p \in Remaining(bm) : q <= p
    BY <1>1, <1>9, NextPosition
  <2>2. /\ obj' \in Objects /\ phase' = "frame" /\ toHost' = toHost
        /\ obj'.test = obj.test /\ obj'.window = obj.window /\ obj'.base = obj.base
        /\ obj'.round = obj.round /\ obj'.bitmap = bm /\ obj'.effort = obj.effort + 1
        /\ obj'.pos = q
    BY <1>2, <1>6, <1>9, <2>1, WindowFacts DEF Objects
  <2> HIDE DEF q
  <2>3. obj'.effort <= obj'.round * K + obj'.pos
    <3>1. obj'.round * K = rk
      BY <2>2
    <3> HIDE DEF rk
    <3> QED BY <1>3, <1>4, <2>1, <2>2, <3>1, WindowFacts
  <2>4. ObjShape'
    BY <2>1, <2>2, <2>3, <1>1, WindowFacts DEF ObjShape, InWindow
  <2>5. ASSUME NEW p \in InWindow, Taken(p)' PROVE stored'[obj.base + p] # 0
    <3>1. p \notin bm /\ (obj.round > 0 \/ p < q)
      BY <2>5, <2>2 DEF Taken
    <3>2. CASE p = obj.pos
      BY <3>1, <3>2, <1>1 DEF Here
    <3>3. CASE p # obj.pos
      <4>1. p \notin obj.bitmap
        BY <3>1, <3>3, <1>1
      <4>2. obj.round > 0 \/ p < obj.pos
        <5>1. p < q => p \notin Remaining(bm)
          BY <2>1, WindowFacts
        <5> QED BY <3>1, <3>3, <5>1, WindowFacts, ObjFields DEF Remaining, InWindow
      <4> QED BY <4>1, <4>2, <1>7 DEF Taken
    <3> QED BY <3>2, <3>3
  <2>6. TakenStored'
    BY <1>8, <2>2, <2>5 DEF TakenStored, InWindow
  <2> QED BY <1>1, <1>9, <2>2, <2>4, <2>6 DEF ObjectGood, q, bm
<1>10. CASE Remaining(bm) = {}
  <2>1. /\ obj' \in Objects /\ phase' = "ack"
        /\ obj'.test = obj.test /\ obj'.window = obj.window /\ obj'.base = obj.base
        /\ obj'.round = obj.round /\ obj'.bitmap = bm /\ obj'.effort = obj.effort + 1
        /\ obj'.pos = obj.pos /\ obj'.attempt = 1
    BY <1>2, <1>3, <1>6, <1>10 DEF Objects
  <2>2. Say(Ack(obj'))
    BY <1>2, <1>6, <1>10, <2>1 DEF Ack
  <2>3. obj'.effort <= obj'.round * K + MaxWindow + obj'.attempt - 1
    BY <1>3, <2>1
  <2>4. ObjShape'
    BY <2>1, <2>3, <1>1, <1>3, WindowFacts DEF ObjShape, InWindow
  <2>5. ASSUME NEW p \in InWindow, p \notin bm PROVE stored'[obj.base + p] # 0
    <3>1. CASE p = obj.pos
      BY <2>5, <3>1, <1>1 DEF Here
    <3>2. CASE p # obj.pos
      <4>1. p \notin obj.bitmap
        BY <2>5, <3>2, <1>1
      <4>2. obj.round > 0 \/ p < obj.pos
        <5>1. p \in Remaining(bm) <=> (p > obj.pos /\ (obj.round = 0 \/ p \in bm))
          BY DEF Remaining, InWindow
        <5>2. ~(p > obj.pos /\ obj.round = 0)
          BY <1>10, <5>1
        <5>3. p \in Nat /\ obj.pos \in Nat /\ obj.round \in Nat
          <6>1. p \in Nat
            BY WindowFacts
          <6>2. obj.pos \in Nat
            BY ObjFields
          <6>3. obj.round \in Nat
            BY ObjFields
          <6> QED BY <6>1, <6>2, <6>3
        <5> QED BY <3>2, <5>2, <5>3
      <4> QED BY <4>1, <4>2, <1>7 DEF Taken
    <3> QED BY <3>1, <3>2
  <2>6. TakenStored'
    BY <1>8, <2>1, <2>5 DEF TakenStored, Taken, InWindow
  <2> QED BY <1>1, <1>10, <2>1, <2>2, <2>4, <2>6 DEF ObjectGood, bm
<1> QED BY <1>9, <1>10
LEMMA GivenUp ==
  ASSUME Types, ObjectFails
  PROVE  /\ ObjectGood /\ phase' = "command" /\ obj' = obj /\ stored' = stored
         /\ outcome' = "fail" /\ Say(Reply("fail"))
         /\ Remains /\ pushback' = FALSE /\ Stream' = <<>> /\ toTarget' = <<>>
<1>1. /\ phase' = "command" /\ obj' = obj /\ stored' = stored /\ outcome' = "fail"
      /\ Drain /\ Say(Reply("fail"))
  BY DEF ObjectFails
<1>2. ObjectGood
  BY <1>1 DEF ObjectGood, ObjShape, TakenStored, Types
<1> QED BY <1>1, <1>2, Drained

LEMMA AcknowledgedGood ==
  ASSUME Types, ObjShape, TakenStored, phase = "ack", ~RoundsExhausted, Acknowledged
  PROVE  /\ ObjectGood /\ stored' = stored /\ outcome' = outcome /\ toHost' = toHost
         /\ obj'.test = obj.test /\ obj'.window = obj.window
         /\ obj.bitmap = {} =>
              /\ phase' = "window" /\ obj'.base = obj.base + Count(obj.base, obj.window)
              /\ obj'.bitmap = {} /\ obj'.round = obj.round
         /\ obj.bitmap # {} =>
              /\ phase' = "frame" /\ obj'.base = obj.base /\ obj'.bitmap = obj.bitmap
              /\ obj'.round = obj.round + 1 /\ obj'.pos = Least(obj.bitmap)
              /\ obj'.pos \in obj.bitmap /\ \A p \in obj.bitmap : obj'.pos <= p
<1>1. stored' = stored /\ outcome' = outcome /\ toHost' = toHost
  BY DEF Acknowledged
<1> DEFINE rk == obj.round * K
<1>2. /\ Count(obj.base, obj.window) \in 1..MaxWindow
      /\ obj.base + Count(obj.base, obj.window) \in 0..Frames
      /\ obj.bitmap \subseteq InWindow /\ InWindow \subseteq Nat /\ InWindow \subseteq Slots
  BY WindowFacts DEF InWindow
<1>3. CASE obj.bitmap = {}
  <2>1. /\ phase' = "window"
        /\ obj' = [obj EXCEPT !.base = @ + Count(obj.base, obj.window)]
    BY <1>3 DEF Acknowledged
  <2>2. /\ obj' \in Objects /\ obj'.base = obj.base + Count(obj.base, obj.window)
        /\ obj'.test = obj.test /\ obj'.window = obj.window
        /\ obj'.bitmap = {} /\ obj'.round = obj.round
    BY <1>2, <1>3, <2>1 DEF Types, Objects
  <2>3. ObjShape'
    BY <2>1, <2>2, WindowFacts DEF ObjShape
  <2>4. ASSUME NEW s \in 0..(obj'.base - 1) PROVE stored[s] # 0
    <3>1. CASE s < obj.base
      BY <3>1, <2>4, ObjFields DEF TakenStored
    <3>2. CASE s >= obj.base
      <4>1. s - obj.base \in InWindow /\ obj.base + (s - obj.base) = s
        BY <3>2, <1>2, <2>2, <2>4, ObjFields DEF InWindow
      <4>2. Taken(s - obj.base)
        BY <1>3 DEF Taken
      <4> QED BY <4>1, <4>2 DEF TakenStored, InWindow
    <3> QED BY <3>1, <3>2, <2>2, ObjFields
  <2>5. TakenStored'
    BY <1>1, <2>1, <2>4 DEF TakenStored
  <2> QED BY <1>1, <1>3, <2>1, <2>2, <2>3, <2>5 DEF ObjectGood
<1>4. CASE obj.bitmap # {}
  <2> DEFINE q == Least(obj.bitmap)
  <2>1. q \in obj.bitmap /\ \A p \in obj.bitmap : q <= p
    BY <1>2, <1>4, LeastOf
  <2>2. phase' = "frame" /\ obj' = [obj EXCEPT !.round = @ + 1, !.pos = q]
    BY <1>4 DEF Acknowledged, NextRound
  <2>3. obj.round + 1 \in 0..Rounds
    <3>1. obj.round # Rounds
      BY <1>4 DEF RoundsExhausted
    <3>2. obj.round \in 0..Rounds /\ Rounds \in Nat
      BY ObjFields, TransferAssumption
    <3> QED BY <3>1, <3>2
  <2> HIDE DEF q
  <2>4. /\ obj' \in Objects /\ obj'.base = obj.base /\ obj'.bitmap = obj.bitmap
        /\ obj'.test = obj.test /\ obj'.window = obj.window
        /\ obj'.round = obj.round + 1 /\ obj'.pos = q /\ obj'.effort = obj.effort
    BY <1>2, <2>1, <2>2, <2>3 DEF Types, Objects
  <2>5. obj'.effort <= obj'.round * K + obj'.pos
    <3>1. obj'.round * K = rk + K /\ rk \in Nat
      BY <2>4, ObjFields, Costs
    <3>2. obj.effort <= rk + MaxWindow + obj.attempt - 1 /\ obj.attempt <= AckTries
      BY ObjFields DEF ObjShape
    <3>3. /\ obj'.pos \in Nat /\ K = MaxWindow + AckTries - 1
          /\ MaxWindow \in Nat /\ AckTries \in Nat /\ obj.attempt \in Nat /\ obj.effort \in Nat
      <4>1. obj'.pos \in Nat
        BY <1>2, <2>1, <2>4
      <4>2. obj.attempt \in Nat /\ obj.effort \in Nat
        BY ObjFields
      <4> QED BY <4>1, <4>2, TransferAssumption DEF K
    <3> HIDE DEF rk
    <3> QED BY <3>1, <3>2, <3>3, <2>4
  <2>6. ObjShape'
    BY <1>2, <2>1, <2>2, <2>4, <2>5, WindowFacts DEF ObjShape, InWindow
  <2>7. \A p \in InWindow : p \notin obj.bitmap => stored[obj.base + p] # 0
    BY DEF TakenStored, Taken, InWindow
  <2>8. TakenStored'
    BY <1>1, <2>2, <2>4, <2>7 DEF TakenStored, Taken, InWindow
  <2> QED BY <1>1, <1>4, <2>1, <2>2, <2>4, <2>6, <2>8 DEF ObjectGood, q
<1> QED BY <1>3, <1>4

LEMMA AckAgainGood ==
  ASSUME Types, ObjShape, TakenStored, phase = "ack", obj.attempt < AckTries, AckAgain
  PROVE  /\ ObjectGood /\ phase' = "ack" /\ stored' = stored /\ outcome' = outcome
         /\ Say(Ack(obj)) /\ Ack(obj') = Ack(obj)
         /\ obj'.test = obj.test /\ obj'.window = obj.window /\ obj'.base = obj.base
         /\ obj'.round = obj.round /\ obj'.bitmap = obj.bitmap /\ obj'.pos = obj.pos
         /\ obj'.attempt = obj.attempt + 1
<1>1. /\ obj' = [obj EXCEPT !.attempt = @ + 1, !.effort = @ + 1]
      /\ Say(Ack(obj)) /\ phase' = phase /\ stored' = stored /\ outcome' = outcome
  BY DEF AckAgain
<1> DEFINE rk == obj.round * K
           top == (1 + Rounds) * K
<1>2. /\ rk \in Nat /\ top \in Nat /\ rk + K <= top
      /\ K = MaxWindow + AckTries - 1 /\ MaxWindow \in Nat /\ AckTries \in Nat
      /\ obj.effort <= rk + MaxWindow + obj.attempt - 1 /\ obj.effort \in Nat
      /\ obj.attempt \in Nat
  <2>1. rk \in Nat /\ top \in Nat /\ rk + K <= top
    BY ObjFields, Costs
  <2>2. obj.effort <= rk + MaxWindow + obj.attempt - 1 /\ obj.effort \in Nat /\ obj.attempt \in Nat
    BY ObjFields DEF ObjShape, Objects
  <2> QED BY <2>1, <2>2, TransferAssumption DEF K
<1>3. obj.effort + 1 \in 0..top /\ obj.attempt + 1 \in 1..AckTries
      /\ obj.effort + 1 <= rk + MaxWindow + (obj.attempt + 1) - 1
  <2> HIDE DEF rk, top
  <2> QED BY <1>2
<1>4. /\ obj' \in Objects /\ obj'.effort = obj.effort + 1
      /\ obj'.test = obj.test /\ obj'.window = obj.window /\ obj'.base = obj.base
      /\ obj'.round = obj.round /\ obj'.bitmap = obj.bitmap /\ obj'.pos = obj.pos
      /\ obj'.attempt = obj.attempt + 1
  <2>1. obj.effort + 1 \in 0..((1 + Rounds) * K) /\ obj.attempt + 1 \in 0..AckTries
    BY <1>2, <1>3
  <2> QED BY <1>1, <2>1 DEF Types, Objects
<1>5. obj'.effort <= obj'.round * K + MaxWindow + obj'.attempt - 1
  <2>1. obj'.round * K = rk
    BY <1>4
  <2> HIDE DEF rk
  <2> QED BY <1>3, <1>4, <2>1
<1>6. ObjShape'
  BY <1>1, <1>3, <1>4, <1>5 DEF ObjShape
<1>7. TakenStored'
  BY <1>1, <1>4 DEF TakenStored, Taken
<1>8. Ack(obj') = Ack(obj)
  BY <1>4 DEF Ack
<1> QED BY <1>1, <1>4, <1>6, <1>7, <1>8 DEF ObjectGood

(* What was said: nothing arrives at a host that is gone.                  *)
LEMMA Said ==
  ASSUME Types, NEW x \in Lines, Say(x)
  PROVE  /\ toHost' \in Seq(Lines)
         /\ host.state = "gone" => toHost' = <<>>
         /\ host.state # "gone" =>
              /\ toHost' = Append(toHost, x) /\ Len(toHost') = Len(toHost) + 1
              /\ \A j \in 1..Len(toHost) : toHost'[j] = toHost[j]
              /\ toHost'[Len(toHost) + 1] = x
BY AppendProperties DEF Types, Say

LEMMA ReplyLines ==
  /\ \A k \in Ends \union {"ready"} : Reply(k) \in Lines /\ Reply(k).kind = k
  /\ \A x \in Lines : x.kind = "ack" <=> x \in Acks
  /\ \A x \in Lines : x.kind = "ack" \/ x.kind \in Ends \union {"ready"}
BY DEF Lines, Ends, Acks, Reply

LEMMA AckLine ==
  ASSUME NEW o \in Objects, o.base \in Slots, \A p \in o.bitmap : o.base + p \in Slots
  PROVE  /\ Ack(o) \in Acks /\ Ack(o) \in Lines /\ Ack(o).kind = "ack"
         /\ Ack(o).base = o.base /\ Ack(o).round = o.round /\ Ack(o).bitmap = o.bitmap
<1>1. o.round \in 0..Rounds /\ o.bitmap \in SUBSET Slots
  BY DEF Objects
<1> QED BY <1>1 DEF Ack, Acks, Lines
-----------------------------------------------------------------------------
(* What every step of the target keeps.                                    *)

FaultsGrow ==
  /\ faults' \in Seq(FaultKinds) /\ Len(faults') <= MaxFaults
  /\ ToSet(faults) \subseteq ToSet(faults')

NoNewEnd ==
  /\ toHost' \in Seq(Lines)
  /\ \A j \in 1..Len(toHost') :
       toHost'[j].kind \in Ends => \E i \in 1..Len(toHost) : toHost'[j] = toHost[i]

LEMMA FaultNoted ==
  ASSUME Types, NEW kind \in FaultKinds, Noted(kind)
  PROVE  FaultsGrow /\ ToSet(faults') = ToSet(faults) \union {kind}
           /\ Len(faults') = Len(faults) + 1
<1>1. /\ faults \in Seq(FaultKinds) /\ Len(faults) \in Nat /\ Len(faults) < MaxFaults
      /\ faults' = Append(faults, kind) /\ DOMAIN faults = 1..Len(faults)
  BY LenProperties DEF Types, Noted
<1>2. /\ faults' \in Seq(FaultKinds) /\ Len(faults') = Len(faults) + 1
      /\ \A i \in 1..Len(faults) : faults'[i] = faults[i]
      /\ faults'[Len(faults) + 1] = kind
  BY <1>1, AppendProperties
<1>3. DOMAIN faults' = 1..(Len(faults) + 1)
  BY <1>2, LenProperties
<1>4. ToSet(faults') = ToSet(faults) \union {kind}
  <2>1. ASSUME NEW x \in ToSet(faults') PROVE x \in ToSet(faults) \union {kind}
    <3>1. PICK i \in 1..(Len(faults) + 1) : x = faults'[i]
      BY <1>3 DEF ToSet
    <3>2. CASE i \in 1..Len(faults)
      BY <1>1, <1>2, <3>1, <3>2 DEF ToSet
    <3>3. CASE i = Len(faults) + 1
      BY <1>2, <3>1, <3>3
    <3> QED BY <1>1, <3>2, <3>3
  <2>2. ASSUME NEW x \in ToSet(faults) PROVE x \in ToSet(faults')
    <3>1. PICK i \in 1..Len(faults) : x = faults[i]
      BY <1>1 DEF ToSet
    <3>2. i \in DOMAIN faults' /\ x = faults'[i]
      BY <1>1, <1>2, <1>3, <3>1
    <3> QED BY <3>2 DEF ToSet
  <2>3. kind \in ToSet(faults')
    <3>1. Len(faults) + 1 \in DOMAIN faults'
      BY <1>1, <1>3
    <3> QED BY <3>1, <1>2 DEF ToSet
  <2> QED BY <2>1, <2>2, <2>3
<1> QED BY <1>1, <1>2, <1>4, TransferAssumption DEF FaultsGrow

LEMMA FaultsSame ==
  ASSUME Types, faults' = faults
  PROVE  FaultsGrow
BY DEF Types, FaultsGrow

LEMMA TimeoutFaults ==
  ASSUME Types, TimedOut
  PROVE  /\ FaultsGrow
         /\ "late" \notin ToSet(faults') => Quiet /\ faults' = faults
<1>1. CASE Quiet
  BY <1>1, FaultsSame DEF TimedOut
<1>2. CASE ~Quiet
  BY <1>2, FaultNoted DEF TimedOut, FaultKinds
<1> QED BY <1>1, <1>2

LEMMA SaidNoEnd ==
  ASSUME Types, NEW x \in Lines, x.kind \notin Ends, Say(x)
  PROVE  NoNewEnd
<1>1. CASE host.state = "gone"
  <2>1. toHost' = <<>> /\ \A j \in 1..Len(<<>>) : FALSE
    BY <1>1, Said
  <2> QED BY <2>1, Said DEF NoNewEnd
<1>2. CASE host.state # "gone"
  <2>1. Len(toHost) \in Nat
    BY LenProperties DEF Types
  <2>2. \A j \in 1..Len(toHost') : j \in 1..Len(toHost) \/ j = Len(toHost) + 1
    BY <1>2, <2>1, Said
  <2> QED BY <1>2, <2>2, Said DEF NoNewEnd
<1> QED BY <1>1, <1>2

LEMMA TestGoesOn ==
  ASSUME Types, OneTest, phase # "command", phase' # "command", obj'.test = obj.test,
         Remains, host' = host, FaultsGrow, NoNewEnd,
         "giveup" \notin ToSet(faults) => \A s \in Slots : stored'[s] \in {0, obj.test}
  PROVE  OneTest'
<1>1. SUFFICES ASSUME "giveup" \notin ToSet(faults')
               PROVE  OneTest'
  BY DEF OneTest
<1>2. "giveup" \notin ToSet(faults)
  BY <1>1 DEF FaultsGrow
<1>3. /\ host.state # "idle" /\ obj.test = host.test
      /\ \A i \in 1..Len(toTarget) : ~Asked(i) /\ Carries(toTarget[i], host.test)
      /\ \A j \in 1..Len(toHost) : ~Ended(j)
  BY <1>2 DEF OneTest
<1>4. ASSUME NEW i \in 1..Len(toTarget')
      PROVE  toTarget'[i].kind # "command" /\ Carries(toTarget'[i], host.test)
  BY <1>3, Kinds DEF Remains, Asked, Carries
<1>5. \A j \in 1..Len(toHost') : toHost'[j].kind \notin Ends
  BY <1>3 DEF NoNewEnd, Ended
<1> QED BY <1>1, <1>2, <1>3, <1>4, <1>5 DEF OneTest, Asked, Ended

LEMMA TestOver ==
  ASSUME Types, OneTest, phase # "command", phase' = "command",
         Remains, host' = host, FaultsGrow, NEW k \in Ends, Say(Reply(k))
  PROVE  OneTest' /\ toHost' \in Seq(Lines)
<1>1. toHost' \in Seq(Lines)
  BY ReplyLines, Said
<1>2. SUFFICES ASSUME "giveup" \notin ToSet(faults')
               PROVE  OneTest'
  BY <1>1 DEF OneTest
<1>3. /\ host.state # "idle"
      /\ \A i \in 1..Len(toTarget) : ~Asked(i)
      /\ \A j \in 1..Len(toHost) : ~Ended(j)
  BY <1>2 DEF OneTest, FaultsGrow
<1>4. \A i \in 1..Len(toTarget') : toTarget'[i].kind # "command"
  BY <1>3, Kinds DEF Remains, Asked
<1>5. Len(toHost) \in Nat
  BY LenProperties DEF Types
<1>6. ASSUME NEW j \in 1..Len(toHost'), toHost'[j].kind \in Ends
      PROVE  \A i \in (j + 1)..Len(toHost') : toHost'[i].kind \notin Ends
  <2>1. host.state # "gone"
    <3>1. SUFFICES ASSUME host.state = "gone" PROVE FALSE
      OBVIOUS
    <3>2. toHost' = <<>>
      BY <3>1, ReplyLines, Said
    <3> QED BY <3>2, <1>6
  <2>2. /\ Len(toHost') = Len(toHost) + 1
        /\ \A m \in 1..Len(toHost) : toHost'[m] = toHost[m]
    BY <2>1, ReplyLines, Said
  <2>3. j = Len(toHost) + 1
    BY <1>3, <1>5, <1>6, <2>2 DEF Ended
  <2> QED BY <1>5, <2>2, <2>3
<1> QED BY <1>3, <1>4, <1>6 DEF OneTest, Asked, Ended

(* Every step of receive_v3_object.                                        *)
LEMMA TargetKeeps ==
  ASSUME IInv, phase # "command", ObjectGood, Remains,
         stored' \in [Slots -> 0..MaxTests], outcome' \in {"none", "pass", "fail"},
         host' = host, FaultsGrow,
         phase' # "command" =>
           /\ NoNewEnd /\ obj'.test = obj.test
           /\ "giveup" \notin ToSet(faults) => \A s \in Slots : stored'[s] \in {0, obj.test},
         phase' = "command" => \E k \in Ends : Say(Reply(k))
  PROVE  IInv'
<1>1. OneTest' /\ toHost' \in Seq(Lines)
  <2>1. CASE phase' # "command"
    BY <2>1, TestGoesOn DEF IInv, NoNewEnd
  <2>2. CASE phase' = "command"
    BY <2>2, TestOver DEF IInv
  <2> QED BY <2>1, <2>2
<1>2. Types'
  BY <1>1 DEF IInv, Types, ObjectGood, Remains, FaultsGrow
<1>3. HostShape'
  BY DEF IInv, HostShape
<1> QED BY <1>1, <1>2, <1>3 DEF IInv, ObjectGood
-----------------------------------------------------------------------------
(* The steps of the target.                                                *)

LEMMA SameToHost ==
  ASSUME Types, toHost' = toHost
  PROVE  NoNewEnd
BY DEF Types, NoNewEnd

LEMMA SameToTarget ==
  ASSUME Types, toTarget' = toTarget, pushback' = pushback
  PROVE  Remains /\ Stream' = Stream
BY DEF Types, Remains, Stream

LEMMA SameTests ==
  ASSUME OneTest, phase # "command", "giveup" \notin ToSet(faults)
  PROVE  \A s \in Slots : stored[s] \in {0, obj.test}
BY DEF OneTest

LEMMA AckOfObject ==
  ASSUME Types, ObjShape, phase = "ack"
  PROVE  /\ Ack(obj) \in Lines /\ Ack(obj).kind = "ack" /\ Ack(obj).base = obj.base
         /\ Ack(obj).round = obj.round /\ Ack(obj).bitmap = obj.bitmap
BY WindowFacts, AckLine DEF Types, InWindow

LEMMA AckOfNewObject ==
  ASSUME Types, ObjShape, phase \in {"frame", "ack"}, obj' \in Objects,
         obj'.base = obj.base, obj'.bitmap \in SUBSET InWindow
  PROVE  /\ Ack(obj') \in Lines /\ Ack(obj').kind = "ack" /\ Ack(obj').base = obj.base
         /\ Ack(obj').round = obj'.round /\ Ack(obj').bitmap = obj'.bitmap
<1>1. obj'.base \in Slots /\ \A p \in obj'.bitmap : obj'.base + p \in Slots
  BY WindowFacts
<1> QED BY <1>1, AckLine

LEMMA FrameReadSays ==
  ASSUME Types, ObjShape, TakenStored, phase = "frame", NEW ok \in BOOLEAN, FrameRead(ok),
         stored' \in [Slots -> 0..MaxTests],
         \A s \in Slots : stored[s] # 0 => stored'[s] # 0,
         ok => stored'[Here] # 0
  PROVE  NoNewEnd
<1>1. CASE phase' = "frame"
  BY <1>1, FrameReadGood, SameToHost
<1>2. CASE phase' = "ack"
  <2>1. /\ obj' \in Objects /\ obj'.base = obj.base /\ obj'.bitmap \in SUBSET InWindow
        /\ Say(Ack(obj'))
    BY <1>2, FrameReadGood DEF ObjectGood
  <2>2. Ack(obj') \in Lines /\ Ack(obj').kind \notin Ends
    BY <2>1, AckOfNewObject DEF Ends
  <2> QED BY <2>1, <2>2, SaidNoEnd
<1> QED BY <1>1, <1>2, FrameReadGood

LEMMA OpenWindowGood ==
  ASSUME IInv, OpenWindow
  PROVE  /\ IInv' /\ obj'.pos = 0 /\ obj'.round = 0 /\ obj'.bitmap = {}
         /\ obj'.base = obj.base /\ obj'.window = obj.window /\ obj'.test = obj.test
         /\ Stream' = Stream
<1> USE DEF IInv
<1>1. /\ phase = "window" /\ obj.base < Frames /\ phase' = "frame"
      /\ obj' = [obj EXCEPT !.pos = 0, !.round = 0, !.bitmap = {}, !.effort = 0]
      /\ stored' = stored /\ pushback' = pushback /\ outcome' = outcome /\ host' = host
      /\ toTarget' = toTarget /\ toHost' = toHost /\ faults' = faults
  BY DEF OpenWindow
<1>2. 0 \in Slots /\ 0 * K = 0 /\ (1 + Rounds) * K \in Nat /\ 0 \in 0..Rounds
  <2>1. 0 \in 0..Rounds /\ K \in Nat
    BY TransferAssumption DEF K
  <2>2. (1 + Rounds) * K \in Nat
    BY <2>1, Costs
  <2> QED BY <2>1, <2>2, ObjFields, TransferAssumption
<1>3. /\ obj' \in Objects /\ obj'.pos = 0 /\ obj'.round = 0 /\ obj'.bitmap = {}
      /\ obj'.effort = 0
      /\ obj'.base = obj.base /\ obj'.window = obj.window /\ obj'.test = obj.test
  <2>1. 0 \in 0..((1 + Rounds) * K)
    BY <1>2
  <2> QED BY <1>1, <1>2, <2>1 DEF Types, Objects
<1>4. obj.window \in Windows /\ obj.test \in Tests /\ Count(obj.base, obj.window) >= 1
      /\ Count(obj.base, obj.window) \in Nat
  <2>1. obj.window \in Windows /\ obj.test \in Tests
    BY <1>1 DEF ObjShape
  <2>2. obj.base \in 0..Frames /\ obj.window \in Windows \union {1}
    BY ObjFields
  <2>3. Count(obj.base, obj.window) >= 1 /\ Count(obj.base, obj.window) \in 0..MaxWindow
    BY <1>1, <2>2, Sizes
  <2> QED BY <2>1, <2>3
<1>5. ObjShape'
  BY <1>1, <1>2, <1>3, <1>4 DEF ObjShape
<1>6. \A p \in 0..(Count(obj.base, obj.window) - 1) : ~Taken(p)'
  BY <1>1, <1>3 DEF Taken
<1>7. TakenStored'
  BY <1>1, <1>3, <1>6 DEF TakenStored
<1>8. ObjectGood
  BY <1>1, <1>3, <1>5, <1>7 DEF ObjectGood
<1>9. IInv'
  BY <1>1, <1>3, <1>8, SameToHost, SameToTarget, FaultsSame, SameTests, TargetKeeps DEF Types
<1> QED BY <1>1, <1>3, <1>9, SameToTarget

LEMMA GivenUpKeeps ==
  ASSUME IInv, phase # "command", ObjectFails, host' = host, FaultsGrow
  PROVE  IInv'
<1>1. /\ ObjectGood /\ phase' = "command" /\ stored' = stored /\ outcome' = "fail"
      /\ Say(Reply("fail")) /\ Remains
  BY GivenUp DEF IInv
<1> QED BY <1>1, TargetKeeps DEF IInv, Types, Ends

LEMMA DeadlineKeeps ==
  ASSUME IInv, DeadlinePassed
  PROVE  IInv'
<1>1. phase = "window" /\ Noted("deadline") /\ ObjectFails /\ host' = host
  BY DEF DeadlinePassed
<1>2. FaultsGrow
  BY <1>1, FaultNoted DEF IInv, FaultKinds
<1> QED BY <1>1, <1>2, GivenUpKeeps

LEMMA FinishKeeps ==
  ASSUME IInv, FinishObject
  PROVE  IInv'
<1>1. phase = "window" /\ host' = host /\ faults' = faults
  BY DEF FinishObject
<1>2. FaultsGrow
  BY <1>1, FaultsSame DEF IInv
<1>3. CASE ObjectVerified
  <2>1. /\ phase' = "command" /\ outcome' = "pass" /\ Say(Reply("pass"))
        /\ obj' = obj /\ stored' = stored /\ pushback' = pushback /\ toTarget' = toTarget
    BY <1>3 DEF FinishObject
  <2>2. ObjectGood
    BY <2>1 DEF ObjectGood, ObjShape, TakenStored, IInv, Types
  <2>3. Remains
    BY <2>1, SameToTarget DEF IInv
  <2> QED BY <1>1, <1>2, <2>1, <2>2, <2>3, TargetKeeps DEF IInv, Types, Ends
<1>4. CASE ~ObjectVerified
  <2>1. ObjectFails
    BY <1>4 DEF FinishObject
  <2> QED BY <1>1, <1>2, <2>1, GivenUpKeeps
<1> QED BY <1>3, <1>4

(* v3_recover_single_frame_boundary.                                       *)
LEMMA RecoverKeeps ==
  ASSUME IInv, phase = "frame", Recover, host' = host, FaultsGrow
  PROVE  IInv'
<1>1. CASE obj.window = 1
  <2>1. FrameRead(FALSE) /\ Drain /\ stored' = stored /\ outcome' = outcome
    BY <1>1 DEF Recover
  <2>2. /\ ObjectGood /\ phase' \in {"frame", "ack"} /\ obj'.test = obj.test /\ NoNewEnd
    BY <2>1, FrameReadGood, FrameReadSays DEF IInv, Types
  <2> QED BY <2>1, <2>2, Drained, SameTests, TargetKeeps DEF IInv, Types
<1>2. CASE obj.window # 1
  <2>1. ObjectFails
    BY <1>2 DEF Recover
  <2> QED BY <2>1, GivenUpKeeps
<1> QED BY <1>1, <1>2

LEMMA BadHeaderKeeps ==
  ASSUME IInv, HeaderInvalid \/ HeaderTimeout \/ PayloadTimeout
  PROVE  IInv'
<1>1. phase = "frame" /\ Recover /\ host' = host /\ (faults' = faults \/ TimedOut)
  BY DEF HeaderInvalid, HeaderTimeout, PayloadTimeout
<1>2. FaultsGrow
  BY <1>1, FaultsSame, TimeoutFaults DEF IInv
<1> QED BY <1>1, <1>2, RecoverKeeps

(* What a valid header says.                                               *)
LEMMA HeaderSays ==
  ASSUME Types, ObjShape, phase = "frame", HeaderValid
  PROVE  /\ Len(Stream) \in Nat /\ Len(Stream) >= 2 /\ Stream # <<>>
         /\ Stream[1] = Start /\ Stream[2] \in Tokens /\ Stream[2].kind = "rest"
         /\ Stream[2].sequence = Here
         /\ Len(Stream) >= 3 => Stream[3] \in Tokens
         /\ \A i \in 1..Len(Stream) : Stream[i] \in Tokens
<1>1. /\ Len(Stream) >= 2 /\ Stream[1] = Start /\ Stream[2].kind = "rest"
      /\ Stream[2].sequence = Here
  BY DEF HeaderValid, Here
<1>2. Len(Stream) \in Nat /\ \A i \in 1..Len(Stream) : Stream[i] \in Tokens
  BY StreamSeq, LenProperties
<1>3. Stream # <<>>
  <2>1. Len(<<>>) = 0
    OBVIOUS
  <2> QED BY <1>1, <2>1
<1> QED BY <1>1, <1>2, <1>3

LEMMA DataInvalidGood ==
  ASSUME IInv, DataInvalid
  PROVE  /\ IInv' /\ phase = "frame" /\ HeaderValid /\ Len(Stream) >= 3 /\ ~OwnData
         /\ FrameRead(FALSE) /\ stored' = stored /\ outcome' = outcome /\ host' = host
         /\ faults' = faults
         /\ \E n \in 3..Len(Stream) : Consume(n) /\ (Stream[3] = Junk => n = 3)
<1> USE DEF IInv
<1>1. /\ phase = "frame" /\ HeaderValid /\ Len(Stream) >= 3 /\ ~OwnData
      /\ FrameRead(FALSE) /\ stored' = stored /\ outcome' = outcome /\ host' = host
      /\ faults' = faults
      /\ IF Stream[3] = Junk THEN Consume(3) ELSE \E n \in 3..Len(Stream) : Consume(n)
  BY DEF DataInvalid
<1>2. PICK n \in 3..Len(Stream) : Consume(n) /\ (Stream[3] = Junk => n = 3)
  BY <1>1, HeaderSays
<1>3. Remains
  <2>1. n \in 0..Len(Stream)
    BY <1>1, HeaderSays
  <2> QED BY <2>1, <1>2, Consumed
<1>4. ObjectGood /\ phase' \in {"frame", "ack"} /\ obj'.test = obj.test /\ NoNewEnd
  BY <1>1, FrameReadGood, FrameReadSays DEF Types
<1>5. IInv'
  BY <1>1, <1>3, <1>4, SameTests, FaultsSame, TargetKeeps DEF Types
<1> QED BY <1>1, <1>2, <1>5

LEMMA StoreFrameGood ==
  ASSUME IInv, StoreFrame
  PROVE  /\ IInv' /\ phase = "frame" /\ HeaderValid /\ Len(Stream) >= 3 /\ OwnData
         /\ host' = host /\ faults' = faults
         /\ obj.round = 0 /\ stored[Here] # 0 => ObjectFails
         /\ ~(obj.round = 0 /\ stored[Here] # 0) =>
              /\ FrameRead(TRUE) /\ Consume(3) /\ outcome' = outcome
              /\ stored' = [stored EXCEPT ![Here] = Stream[2].test]
              /\ Stream[2].test \in Tests /\ stored'[Here] # 0
              /\ stored' \in [Slots -> 0..MaxTests]
              /\ \A s \in Slots : stored[s] # 0 => stored'[s] # 0
<1> USE DEF IInv
<1>1. /\ phase = "frame" /\ HeaderValid /\ Len(Stream) >= 3 /\ OwnData
      /\ host' = host /\ faults' = faults
      /\ IF obj.round = 0 /\ stored[Stream[2].sequence] # 0
           THEN ObjectFails
           ELSE /\ stored' = [stored EXCEPT ![Stream[2].sequence] = Stream[2].test]
                /\ FrameRead(TRUE) /\ Consume(3) /\ outcome' = outcome
  BY DEF StoreFrame
<1>2. Stream[2].sequence = Here /\ Here \in Slots /\ Stream[2].test \in Tests
  BY <1>1, HeaderSays, WindowFacts, Kinds
<1>3. FaultsGrow
  BY <1>1, FaultsSame
<1>4. CASE obj.round = 0 /\ stored[Here] # 0
  <2>1. ObjectFails
    BY <1>1, <1>2, <1>4
  <2> QED BY <1>1, <1>3, <1>4, <2>1, GivenUpKeeps
<1>5. CASE ~(obj.round = 0 /\ stored[Here] # 0)
  <2>1. /\ stored' = [stored EXCEPT ![Here] = Stream[2].test]
        /\ FrameRead(TRUE) /\ Consume(3) /\ outcome' = outcome
    BY <1>1, <1>2, <1>5
  <2>2. /\ stored' \in [Slots -> 0..MaxTests] /\ stored'[Here] # 0
        /\ \A s \in Slots : stored[s] # 0 => stored'[s] # 0
    BY <1>2, <2>1, TransferAssumption DEF Types, Tests
  <2>3. Remains
    <3>1. 3 \in 0..Len(Stream)
      BY <1>1, HeaderSays
    <3> QED BY <2>1, <3>1, Consumed
  <2>4. ObjectGood /\ phase' \in {"frame", "ack"} /\ obj'.test = obj.test /\ NoNewEnd
    BY <1>1, <2>1, <2>2, FrameReadGood, FrameReadSays
  <2>5. ASSUME "giveup" \notin ToSet(faults)
        PROVE  \A s \in Slots : stored'[s] \in {0, obj.test}
    <3>1. Stream[2].test = obj.test
      <4>1. 2 \in 1..Len(Stream) /\ Stream[2] \notin {Start, Junk}
        BY <1>1, HeaderSays, Kinds
      <4>2. PICK j \in 1..Len(toTarget) : Stream[2] = toTarget[j]
        BY <4>1, StreamTokens
      <4> QED BY <1>1, <2>5, <4>2, HeaderSays DEF OneTest, Carries
    <3> QED BY <1>1, <1>2, <2>1, <2>5, <3>1, SameTests DEF Types
  <2>6. IInv'
    BY <1>1, <1>3, <2>1, <2>2, <2>3, <2>4, <2>5, TargetKeeps DEF Types
  <2> QED BY <1>1, <1>2, <1>5, <2>1, <2>2, <2>6
<1> QED BY <1>4, <1>5
LEMMA AckAgainKeeps ==
  ASSUME IInv, phase = "ack", AckAgain, host' = host, FaultsGrow, Remains
  PROVE  IInv'
<1>1. CASE obj.attempt < AckTries
  <2>1. /\ ObjectGood /\ phase' = "ack" /\ stored' = stored /\ outcome' = outcome
        /\ Say(Ack(obj)) /\ obj'.test = obj.test
    BY <1>1, AckAgainGood DEF IInv
  <2>2. NoNewEnd
    BY <2>1, AckOfObject, SaidNoEnd DEF IInv, Ends
  <2> QED BY <2>1, <2>2, SameTests, TargetKeeps DEF IInv, Types
<1>2. CASE ~(obj.attempt < AckTries)
  <2>1. ObjectFails
    BY <1>2 DEF AckAgain
  <2> QED BY <2>1, GivenUpKeeps
<1> QED BY <1>1, <1>2

LEMMA AcknowledgedKeeps ==
  ASSUME IInv, phase = "ack", ~RoundsExhausted, Acknowledged,
         host' = host, FaultsGrow, Remains
  PROVE  IInv'
<1>1. /\ ObjectGood /\ phase' \in {"window", "frame"} /\ stored' = stored
      /\ outcome' = outcome /\ toHost' = toHost /\ obj'.test = obj.test
  BY AcknowledgedGood DEF IInv
<1>2. NoNewEnd
  BY <1>1, SameToHost DEF IInv
<1> QED BY <1>1, <1>2, SameTests, TargetKeeps DEF IInv, Types

LEMMA ReadConfirmationGood ==
  ASSUME IInv, ReadConfirmation
  PROVE  /\ IInv' /\ phase = "ack" /\ Stream # <<>> /\ Head(Stream) = Stream[1]
         /\ Stream[1] \in {Confirm, Start} /\ host' = host /\ faults' = faults
         /\ RoundsExhausted => ObjectFails
         /\ ~RoundsExhausted =>
              Acknowledged /\ IF Stream[1] = Start THEN KeepStart ELSE Consume(1)
<1>1. /\ phase = "ack" /\ Stream # <<>> /\ Head(Stream).kind \in {"confirm", "start"}
      /\ host' = host /\ faults' = faults
      /\ IF RoundsExhausted THEN ObjectFails
         ELSE Acknowledged /\ IF Head(Stream) = Start THEN KeepStart ELSE Consume(1)
  BY DEF ReadConfirmation
<1>2. /\ Head(Stream) = Stream[1] /\ Stream[1] \in Tokens /\ Len(Stream) \in Nat \ {0}
  BY <1>1, StreamSeq, Beheaded DEF IInv
<1>3. Stream[1] \in {Confirm, Start}
  BY <1>1, <1>2, Kinds
<1>4. FaultsGrow
  BY <1>1, FaultsSame DEF IInv
<1>5. CASE RoundsExhausted
  BY <1>1, <1>2, <1>3, <1>4, <1>5, GivenUpKeeps
<1>6. CASE ~RoundsExhausted
  <2>1. Acknowledged /\ IF Head(Stream) = Start THEN KeepStart ELSE Consume(1)
    BY <1>1, <1>6
  <2>2. Remains
    <3>1. 1 \in 0..Len(Stream)
      BY <1>2
    <3> QED BY <1>1, <2>1, <3>1, Consumed, StartKept DEF IInv
  <2>3. IInv'
    BY <1>1, <1>4, <1>6, <2>1, <2>2, AcknowledgedKeeps
  <2> QED BY <1>1, <1>2, <1>3, <1>6, <2>1, <2>3
<1> QED BY <1>5, <1>6

LEMMA AckTimeoutGood ==
  ASSUME IInv, AckTimeout
  PROVE  /\ IInv' /\ phase = "ack" /\ Stream = <<>> /\ TimedOut /\ AckAgain /\ host' = host
         /\ Stream' = <<>> /\ FaultsGrow
<1>1. /\ phase = "ack" /\ Stream = <<>> /\ TimedOut /\ AckAgain /\ host' = host
      /\ toTarget' = <<>> /\ pushback' = FALSE
  BY DEF AckTimeout
<1>2. Drain
  BY <1>1 DEF Drain
<1>3. FaultsGrow
  BY <1>1, TimeoutFaults DEF IInv
<1>4. IInv'
  BY <1>1, <1>2, <1>3, Drained, AckAgainKeeps
<1> QED BY <1>1, <1>2, <1>3, <1>4, Drained

LEMMA ReadOtherByteGood ==
  ASSUME IInv, ReadOtherByte
  PROVE  /\ IInv' /\ phase = "ack" /\ Stream # <<>> /\ Stream[1] \notin {Confirm, Start}
         /\ Stream[1] \in Tokens
         /\ host' = host /\ faults' = faults
         /\ \/ ObjectFails
            \/ /\ phase' # "command"
               /\ (obj.attempt < AckTries /\ AckAgain) \/ (~RoundsExhausted /\ Acknowledged)
               /\ Len(Stream') = Len(Stream) /\ Stream'[1] = Junk
               /\ \A i \in 2..Len(Stream) : Stream'[i] = Stream[i]
<1>1. /\ phase = "ack" /\ Stream # <<>> /\ Big(Head(Stream))
      /\ AckAgain \/ (IF RoundsExhausted THEN ObjectFails ELSE Acknowledged)
      /\ IF phase' = "command" THEN Drain
         ELSE pushback' = FALSE /\ toTarget' = <<Junk>> \o Tail(Stream)
      /\ host' = host /\ faults' = faults
  BY DEF ReadOtherByte
<1>2. Stream[1] \notin {Confirm, Start} /\ Stream[1] \in Tokens
  <2>1. Head(Stream) = Stream[1] /\ Stream[1] \in Tokens
    BY <1>1, StreamSeq, Beheaded DEF IInv
  <2> QED BY <1>1, <2>1, Kinds DEF Big
<1>3. FaultsGrow
  BY <1>1, FaultsSame DEF IInv
<1>4. CASE ObjectFails
  BY <1>1, <1>2, <1>3, <1>4, GivenUpKeeps
<1>5. CASE ~ObjectFails
  <2>1. (obj.attempt < AckTries /\ AckAgain) \/ (~RoundsExhausted /\ Acknowledged)
    BY <1>1, <1>5 DEF AckAgain
  <2>2. phase' # "command"
    BY <1>1, <2>1, AckAgainGood, AcknowledgedGood DEF IInv
  <2>3. /\ Remains /\ Len(Stream') = Len(Stream) /\ Stream'[1] = Junk
        /\ \A i \in 2..Len(Stream) : Stream'[i] = Stream[i]
    BY <1>1, <2>2, JunkLeft DEF IInv
  <2>4. IInv'
    BY <1>1, <1>3, <2>1, <2>3, AckAgainKeeps, AcknowledgedKeeps
  <2> QED BY <1>1, <1>2, <2>1, <2>2, <2>3, <2>4
<1> QED BY <1>4, <1>5

(* The command: the first one on the line.                                 *)
LEMMA ReadCommandGood ==
  ASSUME IInv, ReadCommand
  PROVE  /\ IInv' /\ phase = "command" /\ pushback' = pushback /\ outcome' = outcome
         /\ host' = host /\ faults' = faults
         /\ \E k \in 1..Len(toTarget) :
              /\ Asked(k) /\ Len(toTarget') = Len(toTarget) - k
              /\ \A i \in 1..(Len(toTarget) - k) : toTarget'[i] = toTarget[k + i]
              /\ \/ /\ phase' = "window" /\ k = 2
                    /\ obj'.test = toTarget[k].test /\ obj'.window = toTarget[k].window
                    /\ obj'.base = 0 /\ obj'.round = 0 /\ obj'.bitmap = {} /\ obj'.pos = 0
                    /\ stored' = [s \in Slots |-> 0] /\ Say(Reply("ready"))
                 \/ /\ phase' = "command" /\ obj' = obj /\ stored' = stored
                    /\ Say(Reply("unknown"))
<1> USE DEF IInv
<1>1. DOMAIN toTarget = 1..Len(toTarget) /\ Len(toTarget) \in Nat /\ toTarget \in Seq(Tokens)
  BY LenProperties DEF Types
<1>2. PICK k \in 1..Len(toTarget) :
        /\ toTarget[k].kind = "command"
        /\ toTarget' = SubSeq(toTarget, k + 1, Len(toTarget))
        /\ IF k = 2 /\ toTarget[1] = Start
             THEN /\ phase' = "window"
                  /\ obj' = [test |-> toTarget[k].test, window |-> toTarget[k].window,
                             base |-> 0, pos |-> 0, round |-> 0, bitmap |-> {},
                             attempt |-> 0, effort |-> 0]
                  /\ stored' = [s \in Slots |-> 0]
                  /\ Say(Reply("ready"))
             ELSE /\ Say(Reply("unknown"))
                  /\ phase' = phase /\ obj' = obj /\ stored' = stored
  BY <1>1 DEF ReadCommand
<1>3. /\ phase = "command" /\ pushback' = pushback /\ outcome' = outcome
      /\ host' = host /\ faults' = faults
  BY DEF ReadCommand
<1>4. /\ toTarget' \in Seq(Tokens) /\ Len(toTarget') = Len(toTarget) - k
      /\ \A i \in 1..(Len(toTarget) - k) : toTarget'[i] = toTarget[k + i]
  <2>1. k \in 0..Len(toTarget)
    BY <1>1
  <2> QED BY <1>1, <1>2, <2>1, Cut
<1>5. toTarget[k] \in Tokens /\ toTarget[k].test \in Tests /\ toTarget[k].window \in Windows
  BY <1>1, <1>2, Kinds, LenProperties
<1>6. FaultsGrow
  BY <1>3, FaultsSame
<1>7. HostShape'
  BY <1>3 DEF HostShape
<1>8. ASSUME "giveup" \notin ToSet(faults)
      PROVE  /\ toTarget[k].test = host.test /\ host.state # "idle"
             /\ \A j \in 1..Len(toHost) : toHost[j].kind \notin Ends
             /\ \A i \in 1..Len(toTarget') :
                  toTarget'[i].kind # "command" /\ Carries(toTarget'[i], host.test)
  <2>1. /\ toTarget[k].test = host.test /\ host.state # "idle"
        /\ \A j \in (k + 1)..Len(toTarget) : ~Asked(j) /\ Carries(toTarget[j], host.test)
    BY <1>2, <1>8 DEF OneTest, Asked
  <2>2. \A j \in 1..Len(toHost) : toHost[j].kind \notin Ends
    BY <1>2, <1>8 DEF OneTest, Asked, Ended
  <2>3. \A i \in 1..Len(toTarget') : k + i \in (k + 1)..Len(toTarget)
    BY <1>1, <1>4
  <2> QED BY <1>1, <1>4, <2>1, <2>2, <2>3 DEF Asked
<1>9. CASE k = 2 /\ toTarget[1] = Start
  <2>1. /\ phase' = "window" /\ stored' = [s \in Slots |-> 0] /\ Say(Reply("ready"))
        /\ obj' = [test |-> toTarget[k].test, window |-> toTarget[k].window,
                   base |-> 0, pos |-> 0, round |-> 0, bitmap |-> {},
                   attempt |-> 0, effort |-> 0]
    BY <1>2, <1>9
  <2>2. 0 \in Slots /\ 0 \in 0..((1 + Rounds) * K) /\ 0 \in 0..Rounds /\ 0 \in 0..Frames
        /\ 0 \in 0..AckTries /\ toTarget[k].test \in 0..MaxTests
    <3>1. 0 \in 0..Rounds
      BY TransferAssumption
    <3>2. (1 + Rounds) * K \in Nat
      BY <3>1, Costs
    <3>3. 0 \in 0..((1 + Rounds) * K)
      BY <3>2
    <3>4. 0 \in Slots /\ 0 \in 0..Frames /\ 0 \in 0..AckTries /\ toTarget[k].test \in 0..MaxTests
      BY <1>5, TransferAssumption DEF Tests, Slots
    <3> QED BY <3>1, <3>3, <3>4
  <2>3. /\ obj' \in Objects
        /\ obj'.test = toTarget[k].test /\ obj'.window = toTarget[k].window
        /\ obj'.base = 0 /\ obj'.round = 0 /\ obj'.bitmap = {} /\ obj'.pos = 0
    BY <1>5, <2>1, <2>2 DEF Objects
  <2>4. ObjShape'
    BY <1>5, <2>1, <2>3 DEF ObjShape
  <2>5. stored' \in [Slots -> 0..MaxTests] /\ TakenStored'
    BY <2>1, <2>3, TransferAssumption DEF TakenStored
  <2>6. NoNewEnd
    BY <2>1, ReplyLines, SaidNoEnd DEF Ends
  <2>7. Types'
    BY <1>3, <1>4, <1>6, <2>1, <2>3, <2>5, <2>6 DEF Types, FaultsGrow, NoNewEnd
  <2>8. OneTest'
    BY <1>3, <1>8, <2>1, <2>3, <2>6 DEF OneTest, Asked, Ended, NoNewEnd
  <2> QED BY <1>2, <1>3, <1>4, <1>7, <1>9, <2>1, <2>3, <2>4, <2>5, <2>7, <2>8 DEF Asked
<1>10. CASE ~(k = 2 /\ toTarget[1] = Start)
  <2>1. Say(Reply("unknown")) /\ phase' = phase /\ obj' = obj /\ stored' = stored
    BY <1>2, <1>10
  <2>2. Reply("unknown") \in Lines /\ Reply("unknown").kind = "unknown"
    BY ReplyLines DEF Ends
  <2>3. toHost' \in Seq(Lines)
    BY <2>1, <2>2, Said
  <2>4. Types' /\ ObjShape' /\ TakenStored'
    BY <1>3, <1>4, <2>1, <2>3 DEF Types, ObjShape, TakenStored, Taken
  <2>5. Len(toHost) \in Nat
    BY LenProperties DEF Types
  <2>6. ASSUME "giveup" \notin ToSet(faults), NEW j \in 1..Len(toHost'), toHost'[j].kind \in Ends
        PROVE  j = Len(toHost')
    <3>1. CASE host.state = "gone"
      <4>1. toHost' = <<>>
        BY <2>1, <2>2, <3>1, Said
      <4> QED BY <4>1, <2>6
    <3>2. CASE host.state # "gone"
      BY <1>8, <2>1, <2>2, <2>5, <2>6, <3>2, Said
    <3> QED BY <3>1, <3>2
  <2>7. Len(toHost') \in Nat
    BY <2>3, LenProperties
  <2>8. ASSUME "giveup" \notin ToSet(faults), NEW j \in 1..Len(toHost'), toHost'[j].kind \in Ends
        PROVE  \A i \in (j + 1)..Len(toHost') : toHost'[i].kind \notin Ends
    <3>1. j = Len(toHost')
      BY <2>8, <2>6
    <3> QED BY <3>1, <2>7
  <2>9. OneTest'
    BY <1>3, <1>8, <2>1, <2>8 DEF OneTest, Asked, Ended
  <2> QED BY <1>2, <1>3, <1>4, <1>7, <2>1, <2>4, <2>9 DEF Asked
<1> QED BY <1>9, <1>10
-----------------------------------------------------------------------------
(* The steps of the host and of the line.                                  *)

LEMMA HostFields ==
  ASSUME Types
  PROVE  /\ host.state \in {"idle", "ready", "send", "ack", "result", "gone"}
         /\ host.test \in 0..MaxTests /\ host.window \in Windows \union {1}
         /\ host.base \in 0..Frames /\ host.todo \in SUBSET Slots /\ host.heard \in -1..Rounds
         /\ toHost \in Seq(Lines) /\ Len(toHost) \in Nat
         /\ toTarget \in Seq(Tokens) /\ Len(toTarget) \in Nat
         /\ \A j \in 1..Len(toHost) : toHost[j] \in Lines
         /\ \A i \in 1..Len(toTarget) : toTarget[i] \in Tokens
         /\ Len(<<>>) = 0
BY LenProperties DEF Types, Hosts

(* What the host heard is gone.                                            *)
LEMMA HeardLine ==
  ASSUME Types, toHost # <<>>
  PROVE  /\ Len(toHost) \in Nat \ {0} /\ Head(toHost) = toHost[1] /\ toHost[1] \in Lines
         /\ Tail(toHost) \in Seq(Lines) /\ Len(Tail(toHost)) = Len(toHost) - 1
         /\ \A j \in 1..(Len(toHost) - 1) : Tail(toHost)[j] = toHost[j + 1]
BY Beheaded DEF Types

LEMMA Sent ==
  ASSUME Types, NEW x \in Seq(Tokens), Send(x), pushback' = pushback
  PROVE  /\ toTarget' \in Seq(Tokens) /\ Len(x) \in Nat
         /\ Len(toTarget') = Len(toTarget) + Len(x)
         /\ \A i \in 1..Len(toTarget) : toTarget'[i] = toTarget[i]
         /\ \A i \in 1..Len(x) : toTarget'[Len(toTarget) + i] = x[i]
         /\ \A i \in 1..Len(toTarget') :
              i \in 1..Len(toTarget) \/ i - Len(toTarget) \in 1..Len(x)
<1>1. toTarget \in Seq(Tokens) /\ Len(toTarget) \in Nat /\ Len(x) \in Nat
  BY LenProperties DEF Types
<1>2. toTarget' = toTarget \o x
  BY DEF Send
<1>3. /\ toTarget' \in Seq(Tokens) /\ Len(toTarget') = Len(toTarget) + Len(x)
      /\ \A i \in 1..(Len(toTarget) + Len(x)) :
           toTarget'[i] = IF i <= Len(toTarget) THEN toTarget[i] ELSE x[i - Len(toTarget)]
  BY <1>1, <1>2, ConcatProperties
<1>4. ASSUME NEW i \in 1..Len(x) PROVE toTarget'[Len(toTarget) + i] = x[i]
  <2>1. /\ Len(toTarget) + i \in 1..(Len(toTarget) + Len(x))
        /\ ~(Len(toTarget) + i <= Len(toTarget)) /\ (Len(toTarget) + i) - Len(toTarget) = i
    BY <1>1
  <2> QED BY <2>1, <1>3
<1>5. ASSUME NEW i \in 1..Len(toTarget) PROVE toTarget'[i] = toTarget[i]
  <2>1. i \in 1..(Len(toTarget) + Len(x)) /\ i <= Len(toTarget)
    BY <1>1
  <2> QED BY <2>1, <1>3
<1> QED BY <1>1, <1>3, <1>4, <1>5

(* A step that leaves the target alone.                                    *)
LEMMA HostKeeps ==
  ASSUME IInv, phase' = phase, obj' = obj, stored' = stored, pushback' = pushback,
         outcome' = outcome, host' \in Hosts, HostShape', toTarget' \in Seq(Tokens),
         toHost' \in Seq(Lines), faults' \in Seq(FaultKinds), Len(faults') <= MaxFaults, OneTest'
  PROVE  IInv'
BY DEF IInv, Types, ObjShape, TakenStored, Taken

(* Tokens may get lost or damaged; what is sent are confirmations, or frames
   of the host's test.                                                     *)
LineFrom(old) ==
  /\ old \in [1..Len(toTarget') -> Nat]
  /\ \A i \in 1..Len(toTarget') :
       IF old[i] # 0
         THEN /\ old[i] \in 1..Len(toTarget)
              /\ toTarget'[i] = toTarget[old[i]] \/ toTarget'[i] = Junk
         ELSE toTarget'[i].kind # "command" /\ Carries(toTarget'[i], host.test)
  /\ \A i, m \in 1..Len(toTarget') : i < m /\ old[m] # 0 => old[i] # 0 /\ old[i] < old[m]

(* Lines are heard or get lost.                                            *)
RepliesFrom(was) ==
  /\ was \in [1..Len(toHost') -> 1..Len(toHost)]
  /\ \A j \in 1..Len(toHost') : toHost'[j] = toHost[was[j]]
  /\ \A j, m \in 1..Len(toHost') : j < m => was[j] < was[m]

LineFollows ==
  /\ toTarget' \in Seq(Tokens)
  /\ \E old \in [1..Len(toTarget') -> Nat] : LineFrom(old)
RepliesFollow ==
  /\ toHost' \in Seq(Lines)
  /\ \E was \in [1..Len(toHost') -> 1..Len(toHost)] : RepliesFrom(was)

(* OneTest when the host neither asks nor is answered.                     *)
LEMMA SameTest ==
  ASSUME Types, OneTest, phase' = phase, obj' = obj, stored' = stored,
         host'.test = host.test, host.state # "idle" => host'.state # "idle",
         FaultsGrow, LineFollows, RepliesFollow
  PROVE  OneTest'
<1> PICK old \in [1..Len(toTarget') -> Nat] : LineFrom(old)
  BY DEF LineFollows
<1> PICK was \in [1..Len(toHost') -> 1..Len(toHost)] : RepliesFrom(was)
  BY DEF RepliesFollow
<1> USE DEF LineFrom, RepliesFrom
<1>1. SUFFICES ASSUME "giveup" \notin ToSet(faults') PROVE OneTest'
  BY DEF OneTest
<1>2. /\ \A i \in 1..Len(toTarget) : Asked(i) =>
           /\ toTarget[i].test = host.test
           /\ host.state # "idle" /\ phase = "command"
           /\ \A j \in (i + 1)..Len(toTarget) : ~Asked(j) /\ Carries(toTarget[j], host.test)
      /\ \A j \in 1..Len(toHost) : Ended(j) =>
           /\ host.state # "idle" /\ phase = "command"
           /\ \A i \in 1..Len(toTarget) : ~Asked(i)
           /\ \A i \in (j + 1)..Len(toHost) : ~Ended(i)
      /\ phase # "command" =>
           /\ host.state # "idle" /\ obj.test = host.test
           /\ \A i \in 1..Len(toTarget) : Carries(toTarget[i], host.test)
           /\ \A s \in Slots : stored[s] \in {0, obj.test}
  BY <1>1 DEF OneTest, FaultsGrow
<1>3. Junk.kind = "junk" /\ Len(toTarget) \in Nat /\ Len(toHost) \in Nat
  BY HostFields DEF Junk
<1>4. ASSUME NEW i \in 1..Len(toTarget'), toTarget'[i].kind = "command"
      PROVE  /\ old[i] \in 1..Len(toTarget) /\ Asked(old[i]) /\ toTarget'[i] = toTarget[old[i]]
             /\ \A j \in (i + 1)..Len(toTarget') :
                  toTarget'[j].kind # "command" /\ Carries(toTarget'[j], host.test)
  <2>1. old[i] \in 1..Len(toTarget) /\ toTarget'[i] = toTarget[old[i]] /\ Asked(old[i])
    BY <1>3, <1>4 DEF Asked
  <2>2. ASSUME NEW j \in (i + 1)..Len(toTarget')
        PROVE  toTarget'[j].kind # "command" /\ Carries(toTarget'[j], host.test)
    <3>1. j \in 1..Len(toTarget') /\ i < j
      OBVIOUS
    <3>2. CASE old[j] = 0
      BY <3>1, <3>2
    <3>3. CASE old[j] # 0
      <4>1. old[j] \in (old[i] + 1)..Len(toTarget)
        BY <2>1, <3>1, <3>3, <1>3
      <4>2. ~Asked(old[j]) /\ Carries(toTarget[old[j]], host.test)
        BY <2>1, <4>1, <1>2
      <4> QED BY <3>1, <3>3, <4>2, <1>3 DEF Asked, Carries
    <3> QED BY <3>2, <3>3
  <2> QED BY <2>1, <2>2
<1>5. ASSUME NEW j \in 1..Len(toHost'), toHost'[j].kind \in Ends
      PROVE  /\ host.state # "idle" /\ phase = "command"
             /\ \A i \in 1..Len(toTarget') : toTarget'[i].kind # "command"
             /\ \A i \in (j + 1)..Len(toHost') : toHost'[i].kind \notin Ends
  <2>1. was[j] \in 1..Len(toHost) /\ Ended(was[j])
    BY <1>5 DEF Ended
  <2>2. \A i \in 1..Len(toTarget') : toTarget'[i].kind # "command"
    BY <1>2, <1>4, <2>1
  <2>3. ASSUME NEW i \in (j + 1)..Len(toHost') PROVE toHost'[i].kind \notin Ends
    <3>1. i \in 1..Len(toHost') /\ j < i
      OBVIOUS
    <3>2. was[j] < was[i] /\ was[i] \in 1..Len(toHost) /\ was[j] \in 1..Len(toHost)
      BY <3>1
    <3>3. was[i] \in (was[j] + 1)..Len(toHost)
      BY <3>2, <1>3
    <3> QED BY <1>2, <2>1, <3>1, <3>3 DEF Ended
  <2> QED BY <1>2, <2>1, <2>2, <2>3
<1>6. ASSUME phase # "command", NEW i \in 1..Len(toTarget')
      PROVE  Carries(toTarget'[i], host.test)
  BY <1>2, <1>3, <1>6 DEF Carries
<1>7. /\ \A i \in 1..Len(toTarget') : Asked(i)' =>
           /\ toTarget'[i].test = host'.test
           /\ host'.state # "idle" /\ phase' = "command"
           /\ \A j \in (i + 1)..Len(toTarget') : ~Asked(j)' /\ Carries(toTarget'[j], host'.test)
  BY <1>2, <1>4 DEF Asked
<1>8. \A j \in 1..Len(toHost') : Ended(j)' =>
           /\ host'.state # "idle" /\ phase' = "command"
           /\ \A i \in 1..Len(toTarget') : ~Asked(i)'
           /\ \A i \in (j + 1)..Len(toHost') : ~Ended(i)'
  BY <1>5 DEF Asked, Ended
<1>9. phase' # "command" =>
           /\ host'.state # "idle" /\ obj'.test = host'.test
           /\ \A i \in 1..Len(toTarget') : Carries(toTarget'[i], host'.test)
           /\ \A s \in Slots : stored'[s] \in {0, obj'.test}
  BY <1>2, <1>6
<1> QED BY <1>7, <1>8, <1>9 DEF OneTest, Asked, Ended, Carries
LEMMA LineSame ==
  ASSUME Types, toTarget' = toTarget
  PROVE  LineFollows
<1> DEFINE old == [i \in 1..Len(toTarget') |-> i]
<1>1. Len(toTarget) \in Nat /\ toTarget \in Seq(Tokens)
  BY HostFields
<1>2. old \in [1..Len(toTarget') -> Nat] /\ LineFrom(old)
  BY <1>1 DEF LineFrom
<1> HIDE DEF old
<1> QED BY <1>1, <1>2 DEF LineFollows

LEMMA LineSent ==
  ASSUME Types, NEW x \in Seq(Tokens), Send(x), pushback' = pushback,
         \A i \in 1..Len(x) : x[i].kind # "command" /\ Carries(x[i], host.test)
  PROVE  LineFollows
<1> DEFINE n == Len(toTarget)
           old == [i \in 1..Len(toTarget') |-> IF i <= n THEN i ELSE 0]
<1>1. n \in Nat
  BY HostFields
<1>2. /\ toTarget' \in Seq(Tokens) /\ Len(x) \in Nat /\ Len(toTarget') = n + Len(x)
      /\ \A i \in 1..n : toTarget'[i] = toTarget[i]
      /\ \A i \in 1..Len(x) : toTarget'[n + i] = x[i]
  BY Sent
<1> HIDE DEF n
<1>3. ASSUME NEW i \in 1..Len(toTarget'), i > n
      PROVE  toTarget'[i].kind # "command" /\ Carries(toTarget'[i], host.test)
  <2>1. i - n \in 1..Len(x) /\ n + (i - n) = i
    BY <1>1, <1>2, <1>3
  <2>2. toTarget'[n + (i - n)] = x[i - n]
    BY <1>2, <2>1
  <2>3. toTarget'[i] = x[i - n]
    BY <2>1, <2>2
  <2> QED BY <2>1, <2>3
<1>4. old \in [1..Len(toTarget') -> Nat]
  BY <1>1
<1>5. \A i \in 1..Len(toTarget') : IF old[i] # 0 THEN i <= n /\ old[i] = i ELSE i > n
  BY <1>1
<1>6. LineFrom(old)
  BY <1>1, <1>2, <1>3, <1>4, <1>5 DEF LineFrom, n
<1> HIDE DEF old
<1> QED BY <1>2, <1>4, <1>6 DEF LineFollows

LEMMA LineRemoved ==
  ASSUME Types, NEW k \in 1..Len(toTarget), toTarget' = RemoveAt(toTarget, k)
  PROVE  LineFollows
<1> DEFINE old == [i \in 1..Len(toTarget') |-> IF i < k THEN i ELSE i + 1]
<1>1. Len(toTarget) \in Nat /\ toTarget \in Seq(Tokens)
  BY HostFields
<1>2. /\ toTarget' \in Seq(Tokens) /\ Len(toTarget') = Len(toTarget) - 1
      /\ \A i \in 1..(Len(toTarget) - 1) :
           toTarget'[i] = IF i < k THEN toTarget[i] ELSE toTarget[i + 1]
  BY <1>1, Removed
<1>3. old \in [1..Len(toTarget') -> Nat]
  BY <1>1, <1>2
<1>4. \A i \in 1..Len(toTarget') :
        old[i] # 0 /\ old[i] \in 1..Len(toTarget) /\ toTarget'[i] = toTarget[old[i]]
  BY <1>1, <1>2
<1>5. \A i, m \in 1..Len(toTarget') : i < m => old[i] < old[m]
  BY <1>1, <1>2
<1> HIDE DEF old
<1>6. LineFrom(old)
  BY <1>3, <1>4, <1>5 DEF LineFrom
<1> QED BY <1>2, <1>3, <1>6 DEF LineFollows

LEMMA LineJunked ==
  ASSUME Types, NEW k \in 1..Len(toTarget), toTarget' = [toTarget EXCEPT ![k] = Junk]
  PROVE  LineFollows
<1> DEFINE old == [i \in 1..Len(toTarget') |-> i]
<1>1. Len(toTarget) \in Nat /\ toTarget \in Seq(Tokens) /\ Junk \in Tokens
  BY HostFields, Kinds
<1>2. /\ toTarget' \in Seq(Tokens) /\ Len(toTarget') = Len(toTarget)
      /\ \A i \in 1..Len(toTarget) : toTarget'[i] = IF i = k THEN Junk ELSE toTarget[i]
  BY <1>1, ExceptSeq
<1>3. old \in [1..Len(toTarget') -> Nat] /\ \A i \in 1..Len(toTarget') : old[i] = i
  BY <1>1, <1>2
<1> HIDE DEF old
<1>4. LineFrom(old)
  BY <1>1, <1>2, <1>3 DEF LineFrom
<1> QED BY <1>2, <1>3, <1>4 DEF LineFollows

LEMMA RepliesSame ==
  ASSUME Types, toHost' = toHost
  PROVE  RepliesFollow
<1> DEFINE was == [j \in 1..Len(toHost') |-> j]
<1>1. Len(toHost) \in Nat /\ toHost \in Seq(Lines)
  BY HostFields
<1>2. was \in [1..Len(toHost') -> 1..Len(toHost)] /\ RepliesFrom(was)
  BY <1>1 DEF RepliesFrom
<1> HIDE DEF was
<1> QED BY <1>1, <1>2 DEF RepliesFollow

LEMMA RepliesHeard ==
  ASSUME Types, toHost # <<>>, toHost' = Tail(toHost)
  PROVE  RepliesFollow
<1> DEFINE was == [j \in 1..Len(toHost') |-> j + 1]
<1>1. /\ Len(toHost) \in Nat \ {0} /\ toHost' \in Seq(Lines) /\ Len(toHost') = Len(toHost) - 1
      /\ \A j \in 1..(Len(toHost) - 1) : toHost'[j] = toHost[j + 1]
  BY HeardLine
<1>2. was \in [1..Len(toHost') -> 1..Len(toHost)]
  BY <1>1
<1>3. RepliesFrom(was)
  BY <1>1, <1>2 DEF RepliesFrom
<1> HIDE DEF was
<1> QED BY <1>1, <1>2, <1>3 DEF RepliesFollow

LEMMA RepliesRemoved ==
  ASSUME Types, NEW k \in 1..Len(toHost), toHost' = RemoveAt(toHost, k)
  PROVE  RepliesFollow
<1> DEFINE was == [j \in 1..Len(toHost') |-> IF j < k THEN j ELSE j + 1]
<1>1. Len(toHost) \in Nat /\ toHost \in Seq(Lines)
  BY HostFields
<1>2. /\ toHost' \in Seq(Lines) /\ Len(toHost') = Len(toHost) - 1
      /\ \A j \in 1..(Len(toHost) - 1) : toHost'[j] = IF j < k THEN toHost[j] ELSE toHost[j + 1]
  BY <1>1, Removed
<1>3. /\ was \in [1..Len(toHost') -> 1..Len(toHost)]
      /\ \A j \in 1..Len(toHost') : toHost'[j] = toHost[was[j]]
      /\ \A j, m \in 1..Len(toHost') : j < m => was[j] < was[m]
  BY <1>1, <1>2
<1> HIDE DEF was
<1>4. RepliesFrom(was)
  BY <1>3 DEF RepliesFrom
<1> QED BY <1>2, <1>3, <1>4 DEF RepliesFollow

LEMMA RepliesGone ==
  ASSUME toHost' = <<>>
  PROVE  RepliesFollow
<1> DEFINE was == [j \in 1..Len(toHost') |-> 1]
<1>1. \A j \in 1..Len(toHost') : FALSE
  <2>1. Len(<<>>) = 0
    OBVIOUS
  <2> QED BY <2>1
<1>2. was \in [1..Len(toHost') -> 1..Len(toHost)] /\ RepliesFrom(was)
  BY <1>1 DEF RepliesFrom
<1> HIDE DEF was
<1>3. toHost' \in Seq(Lines)
  OBVIOUS
<1> QED BY <1>2, <1>3 DEF RepliesFollow
(* A step of the host, or of the line, in the middle of a test.            *)
LEMMA HostGoesOn ==
  ASSUME IInv, phase' = phase, obj' = obj, stored' = stored, pushback' = pushback,
         outcome' = outcome, host' \in Hosts, HostShape', FaultsGrow,
         host'.test = host.test, host.state # "idle" => host'.state # "idle",
         LineFollows, RepliesFollow
  PROVE  IInv'
<1>1. OneTest'
  BY SameTest DEF IInv
<1> QED BY <1>1, HostKeeps DEF LineFollows, RepliesFollow, FaultsGrow

LEMMA Windowed ==
  ASSUME Types, NEW base \in 0..Frames, base < Frames
  PROVE  /\ WindowOf(base) \in SUBSET Slots /\ WindowOf(base) # {}
         /\ base + Count(base, host.window) \in 0..Frames
<1>1. /\ Count(base, host.window) \in 0..MaxWindow /\ Count(base, host.window) >= 1
      /\ base + Count(base, host.window) \in 0..Frames /\ Frames \in Nat /\ MaxWindow \in Nat
  BY HostFields, Sizes
<1>2. base \in WindowOf(base)
  BY <1>1 DEF WindowOf
<1> QED BY <1>1, <1>2 DEF WindowOf, Slots

LEMMA HostCommandKeeps ==
  ASSUME IInv, HostCommand, UNCHANGED <<phase, obj, stored, pushback, outcome, faults>>
  PROVE  IInv'
<1> USE DEF IInv
<1>1. PICK w \in Windows :
        /\ host.state = "idle" /\ host.test < MaxTests
        /\ host' = [host EXCEPT !.state = "ready", !.test = @ + 1, !.window = w,
                                !.base = 0, !.todo = {}, !.heard = -1]
        /\ Send(<<Start, Command(host.test + 1, w)>>) /\ toHost' = toHost
  BY DEF HostCommand
<1>2. host.test + 1 \in Tests /\ host.test + 1 \in 0..MaxTests
  <2>1. host.test \in 0..MaxTests /\ MaxTests \in Nat
    BY HostFields, TransferAssumption
  <2> QED BY <1>1, <2>1 DEF Tests
<1> DEFINE x == <<Start, Command(host.test + 1, w)>>
           c == Command(host.test + 1, w)
<1>3. /\ c \in Tokens /\ c.kind = "command" /\ c.test = host.test + 1
  BY <1>2 DEF Command, Tokens
<1>4. x \in Seq(Tokens) /\ Len(x) = 2 /\ x[1] = Start /\ x[2] = c
  BY <1>3, Kinds
<1>5. /\ host' \in Hosts /\ host'.state = "ready" /\ host'.test = host.test + 1
      /\ host'.base = 0
  <2>1. 0 \in 0..Frames /\ -1 \in -1..Rounds /\ w \in Windows \union {1}
    BY TransferAssumption
  <2> QED BY <1>1, <1>2, <2>1 DEF Types, Hosts
<1> HIDE DEF x, c
<1>6. HostShape'
  <2>1. 0 < Frames
    BY TransferAssumption
  <2> QED BY <1>2, <1>5, <2>1 DEF HostShape
<1>7. /\ toTarget' \in Seq(Tokens) /\ Len(toTarget') = Len(toTarget) + 2
      /\ \A i \in 1..Len(toTarget) : toTarget'[i] = toTarget[i]
      /\ toTarget'[Len(toTarget) + 1] = Start /\ toTarget'[Len(toTarget) + 2] = c
      /\ Len(toTarget) \in Nat
  <2>1. Send(x)
    BY <1>1 DEF x, c
  <2>2. /\ toTarget' \in Seq(Tokens) /\ Len(toTarget') = Len(toTarget) + Len(x)
        /\ \A i \in 1..Len(toTarget) : toTarget'[i] = toTarget[i]
        /\ \A i \in 1..Len(x) : toTarget'[Len(toTarget) + i] = x[i]
    BY <1>4, <2>1, Sent
  <2>3. 1 \in 1..Len(x) /\ 2 \in 1..Len(x)
    BY <1>4
  <2>4. toTarget'[Len(toTarget) + 1] = x[1] /\ toTarget'[Len(toTarget) + 2] = x[2]
    BY <2>2, <2>3
  <2> QED BY <1>4, <2>2, <2>4, HostFields
<1>8. OneTest'
  <2>1. SUFFICES ASSUME "giveup" \notin ToSet(faults) PROVE OneTest'
    BY DEF OneTest
  <2>2. /\ \A i \in 1..Len(toTarget) : toTarget[i].kind # "command"
        /\ \A j \in 1..Len(toHost) : toHost[j].kind \notin Ends
        /\ phase = "command"
    BY <1>1, <2>1 DEF OneTest, Asked, Ended
  <2>3. ASSUME NEW i \in 1..Len(toTarget'), toTarget'[i].kind = "command"
        PROVE  i = Len(toTarget')
    <3>1. i \in 1..Len(toTarget) \/ i = Len(toTarget) + 1 \/ i = Len(toTarget) + 2
      BY <1>7
    <3> QED BY <3>1, <1>7, <2>2, <2>3, Kinds
  <2>4. \A i \in 1..Len(toTarget') : toTarget'[i].kind = "command" =>
           /\ toTarget'[i].test = host'.test
           /\ host'.state # "idle" /\ phase' = "command"
           /\ \A j \in (i + 1)..Len(toTarget') :
                toTarget'[j].kind # "command" /\ Carries(toTarget'[j], host'.test)
    BY <1>3, <1>5, <1>7, <2>2, <2>3
  <2> QED BY <1>1, <2>2, <2>4 DEF OneTest, Asked, Ended
<1> QED BY <1>1, <1>5, <1>6, <1>7, <1>8, HostKeeps DEF Types

LEMMA HostBeginGood ==
  ASSUME IInv, HostBegin, UNCHANGED <<phase, obj, stored, pushback, outcome, faults>>
  PROVE  /\ IInv' /\ toHost # <<>> /\ toHost' = Tail(toHost) /\ toTarget' = toTarget
         /\ host.state = "ready" /\ host'.state = "send" /\ host'.todo = WindowOf(0)
         /\ host'.test = host.test /\ host'.window = host.window /\ host'.base = host.base
         /\ host'.heard = host.heard
<1> USE DEF IInv
<1>1. /\ host.state = "ready" /\ toHost # <<>> /\ toHost' = Tail(toHost)
      /\ host' = [host EXCEPT !.state = "send", !.todo = WindowOf(0)] /\ toTarget' = toTarget
  BY DEF HostBegin, Hears
<1>2. WindowOf(0) \in SUBSET Slots /\ WindowOf(0) # {}
  <2>1. 0 \in 0..Frames /\ 0 < Frames
    BY TransferAssumption
  <2> QED BY <2>1, Windowed
<1>3. /\ host' \in Hosts /\ host'.state = "send" /\ host'.todo = WindowOf(0)
      /\ host'.test = host.test /\ host'.window = host.window /\ host'.base = host.base
      /\ host'.heard = host.heard
  BY <1>1, <1>2 DEF Types, Hosts
<1>4. HostShape'
  BY <1>1, <1>2, <1>3 DEF HostShape
<1>5. IInv'
  BY <1>1, <1>3, <1>4, HostGoesOn, FaultsSame, LineSame, RepliesHeard
<1> QED BY <1>1, <1>3, <1>5

LEMMA HostSendGood ==
  ASSUME IInv, HostSend, UNCHANGED <<phase, obj, stored, pushback, outcome, faults>>
  PROVE  /\ IInv' /\ host.state = "send" /\ toHost' = toHost
         /\ Least(host.todo) \in host.todo /\ \A d \in host.todo : Least(host.todo) <= d
         /\ Send(FrameTokens(Least(host.todo), host.test))
         /\ FrameTokens(Least(host.todo), host.test) \in Seq(Tokens)
         /\ host'.todo = host.todo \ {Least(host.todo)}
         /\ host'.state = IF host'.todo = {} THEN "ack" ELSE "send"
         /\ host'.test = host.test /\ host'.window = host.window /\ host'.base = host.base
         /\ host'.heard = host.heard
<1> USE DEF IInv
<1> DEFINE s == Least(host.todo)
           x == FrameTokens(s, host.test)
<1>1. /\ host.state = "send" /\ Send(x) /\ toHost' = toHost
      /\ host' = [host EXCEPT !.todo = @ \ {s},
                              !.state = IF host.todo = {s} THEN "ack" ELSE "send"]
  BY DEF HostSend
<1>2. host.todo # {} /\ host.todo \in SUBSET Nat /\ host.todo \in SUBSET Slots
  BY <1>1, HostFields, ObjFields DEF HostShape
<1>3. s \in host.todo /\ \A d \in host.todo : s <= d
  BY <1>2, LeastOf
<1> HIDE DEF s
<1>4. /\ host' \in Hosts /\ host'.todo = host.todo \ {s}
      /\ host'.state = IF host.todo = {s} THEN "ack" ELSE "send"
      /\ host'.test = host.test /\ host'.window = host.window /\ host'.base = host.base
      /\ host'.heard = host.heard
  BY <1>1, <1>2 DEF Types, Hosts
<1>5. host.todo = {s} <=> host'.todo = {}
  BY <1>3, <1>4
<1>6. HostShape'
  BY <1>1, <1>4, <1>5 DEF HostShape
<1>7. host.test \in Tests
  BY <1>1 DEF HostShape
<1>8. x \in Seq(Tokens) /\ Len(x) = 3 /\ x[1] = Start
      /\ x[2].kind = "rest" /\ x[2].test = host.test
      /\ x[3].kind = "data" /\ x[3].test = host.test
  <2>1. Rest(s, host.test) \in Tokens /\ Data(s, host.test) \in Tokens
    BY <1>2, <1>3, <1>7 DEF Rest, Data, Tokens
  <2> QED BY <2>1, Kinds DEF FrameTokens, Rest, Data
<1>9. \A i \in 1..Len(x) : x[i].kind # "command" /\ Carries(x[i], host.test)
  <2>1. \A i \in 1..Len(x) : i = 1 \/ i = 2 \/ i = 3
    BY <1>8
  <2> QED BY <1>8, <2>1, Kinds DEF Carries
<1> HIDE DEF x
<1>10. LineFollows
  BY <1>1, <1>8, <1>9, LineSent
<1>11. IInv'
  BY <1>1, <1>4, <1>6, <1>10, HostGoesOn, FaultsSame, RepliesSame
<1> QED BY <1>1, <1>3, <1>4, <1>5, <1>8, <1>11 DEF s, x
LEMMA OneConfirm ==
  ASSUME Types, Send(<<Confirm>>), pushback' = pushback
  PROVE  /\ LineFollows /\ <<Confirm>> \in Seq(Tokens)
         /\ Len(<<Confirm>>) = 1 /\ <<Confirm>>[1] = Confirm
<1>1. /\ <<Confirm>> \in Seq(Tokens) /\ Len(<<Confirm>>) = 1 /\ <<Confirm>>[1] = Confirm
  BY Kinds
<1>2. \A i \in 1..Len(<<Confirm>>) :
        <<Confirm>>[i].kind # "command" /\ Carries(<<Confirm>>[i], host.test)
  BY <1>1, Kinds DEF Carries
<1> QED BY <1>1, <1>2, LineSent

LEMMA HostAckGood ==
  ASSUME IInv, HostAck, UNCHANGED <<phase, obj, stored, pushback, outcome, faults>>
  PROVE  /\ IInv' /\ host.state = "ack" /\ toHost # <<>> /\ toHost[1].kind = "ack"
         /\ toHost[1].base = host.base /\ toHost[1].round > host.heard
         /\ toHost[1].round \in 0..Rounds
         /\ Send(<<Confirm>>) /\ toHost' = Tail(toHost)
         /\ host'.test = host.test /\ host'.window = host.window
         /\ toHost[1].bitmap # {} =>
              /\ host'.state = "send" /\ host'.heard = toHost[1].round
              /\ host'.base = host.base
              /\ host'.todo = {host.base + p : p \in toHost[1].bitmap}
         /\ toHost[1].bitmap = {} =>
              /\ host'.base = host.base + Count(host.base, host.window) /\ host'.heard = -1
              /\ host'.state = IF host'.base = Frames THEN "result" ELSE "send"
              /\ host'.base # Frames => host'.todo = WindowOf(host'.base)
<1> USE DEF IInv
<1> DEFINE a == toHost[1]
<1>1. /\ host.state = "ack" /\ toHost # <<>> /\ a.kind = "ack" /\ Head(toHost) = a
      /\ a.base = host.base /\ a.round > host.heard
      /\ Send(<<Confirm>>) /\ toHost' = Tail(toHost) /\ a \in Lines
      /\ IF a.bitmap # {}
           THEN host' = [host EXCEPT !.state = "send", !.heard = a.round,
                                     !.todo = {host.base + p : p \in a.bitmap}]
           ELSE LET next == host.base + Count(host.base, host.window) IN
                host' = [host EXCEPT !.base = next, !.heard = -1,
                                     !.state = IF next = Frames THEN "result" ELSE "send",
                                     !.todo = IF next = Frames THEN {} ELSE WindowOf(next)]
  BY HeardLine DEF HostAck, Hears
<1>2. a \in Acks
  BY <1>1, ReplyLines
<1>3. /\ a.round \in 0..Rounds /\ a.bitmap \in SUBSET Slots
      /\ \A p \in a.bitmap : host.base + p \in Slots
  BY <1>1, <1>2 DEF Acks
<1> HIDE DEF a
<1>4. host.base < Frames /\ host.base \in 0..Frames /\ host.test \in Tests
  BY <1>1, HostFields DEF HostShape
<1>5. LineFollows /\ RepliesFollow
  BY <1>1, OneConfirm, RepliesHeard
<1>6. CASE a.bitmap # {}
  <2> DEFINE t == {host.base + p : p \in a.bitmap}
  <2>1. t \in SUBSET Slots /\ t # {}
    BY <1>3, <1>6
  <2>2. host' = [host EXCEPT !.state = "send", !.heard = a.round, !.todo = t]
    BY <1>1, <1>6
  <2> HIDE DEF t
  <2>3. a.round \in -1..Rounds
    BY <1>3, TransferAssumption
  <2>4. /\ host' \in Hosts /\ host'.state = "send" /\ host'.heard = a.round
        /\ host'.base = host.base /\ host'.todo = t
        /\ host'.test = host.test /\ host'.window = host.window
    BY <2>1, <2>2, <2>3 DEF Types, Hosts
  <2>5. HostShape'
    BY <1>4, <2>1, <2>4 DEF HostShape
  <2>6. IInv'
    BY <1>1, <1>5, <2>4, <2>5, FaultsSame, HostGoesOn
  <2> QED BY <1>1, <1>3, <1>6, <2>4, <2>6 DEF a, t
<1>7. CASE a.bitmap = {}
  <2> DEFINE next == host.base + Count(host.base, host.window)
             st == IF next = Frames THEN "result" ELSE "send"
             td == IF next = Frames THEN {} ELSE WindowOf(next)
  <2>1. host' = [host EXCEPT !.base = next, !.heard = -1, !.state = st, !.todo = td]
    BY <1>1, <1>7
  <2>2. next \in 0..Frames /\ Frames \in Nat /\ -1 \in -1..Rounds
    BY <1>4, Windowed, TransferAssumption
  <2> HIDE DEF next
  <2>3. td \in SUBSET Slots /\ (next # Frames => td # {} /\ next < Frames)
    <3>1. CASE next = Frames
      BY <3>1
    <3>2. CASE next # Frames
      BY <2>2, <3>2, Windowed
    <3> QED BY <3>1, <3>2
  <2>4. st \in {"send", "result"}
    OBVIOUS
  <2> HIDE DEF st, td
  <2>5. /\ host' \in Hosts /\ host'.base = next /\ host'.heard = -1
        /\ host'.state = st /\ host'.todo = td
        /\ host'.test = host.test /\ host'.window = host.window
    BY <2>1, <2>2, <2>3, <2>4 DEF Types, Hosts
  <2>6. HostShape'
    BY <1>4, <2>3, <2>5 DEF HostShape, st
  <2>7. IInv'
    <3>1. host'.state # "idle"
      BY <2>4, <2>5
    <3> QED BY <1>1, <1>5, <2>5, <2>6, <3>1, FaultsSame, HostGoesOn
  <2>8. next # Frames => td = WindowOf(next)
    BY DEF td
  <2> QED BY <1>1, <1>3, <1>7, <2>5, <2>7, <2>8 DEF a, next, st
<1> QED BY <1>6, <1>7

LEMMA HostAckAgainGood ==
  ASSUME IInv, HostAckAgain, UNCHANGED <<phase, obj, stored, pushback, outcome, faults>>
  PROVE  /\ IInv' /\ host.state \in {"ack", "result"} /\ toHost # <<>>
         /\ toHost[1].kind = "ack" /\ (host.state = "ack" => ~Fresh(toHost[1]))
         /\ toHost' = Tail(toHost) /\ host' = host
         /\ Send(<<Confirm>>) \/ (host.state = "ack" /\ toTarget' = toTarget)
<1> USE DEF IInv
<1>1. /\ host.state \in {"ack", "result"} /\ toHost # <<>> /\ toHost[1].kind = "ack"
      /\ host.state = "ack" => ~Fresh(toHost[1])
      /\ toHost' = Tail(toHost) /\ host' = host
      /\ Send(<<Confirm>>) \/ (host.state = "ack" /\ toTarget' = toTarget)
  BY HeardLine DEF HostAckAgain, Hears, Fresh
<1>2. LineFollows /\ RepliesFollow
  BY <1>1, OneConfirm, LineSame, RepliesHeard
<1>3. host' \in Hosts /\ HostShape'
  BY <1>1 DEF Types, HostShape
<1>4. IInv'
  BY <1>1, <1>2, <1>3, FaultsSame, HostGoesOn
<1> QED BY <1>1, <1>4

LEMMA HostSkipGood ==
  ASSUME IInv, HostSkip, UNCHANGED <<phase, obj, stored, pushback, outcome, faults>>
  PROVE  /\ IInv' /\ toHost # <<>> /\ toHost' = Tail(toHost) /\ host' = host
         /\ toTarget' = toTarget /\ toHost[1] \in Lines
         /\ \/ host.state = "idle"
            \/ host.state = "ready" /\ toHost[1].kind \in {"ack", "pass"}
            \/ host.state \in {"ack", "result"} /\ toHost[1].kind = "ready"
            \/ host.state = "ack" /\ toHost[1].kind = "pass"
<1> USE DEF IInv
<1>1. /\ toHost # <<>> /\ toHost' = Tail(toHost) /\ host' = host /\ toTarget' = toTarget
      /\ toHost[1] \in Lines
      /\ \/ host.state = "idle"
         \/ host.state = "ready" /\ toHost[1].kind \in {"ack", "pass"}
         \/ host.state \in {"ack", "result"} /\ toHost[1].kind = "ready"
         \/ host.state = "ack" /\ toHost[1].kind = "pass"
  BY HeardLine DEF HostSkip, Hears
<1>2. LineFollows /\ RepliesFollow
  BY <1>1, LineSame, RepliesHeard
<1>3. host' \in Hosts /\ HostShape'
  BY <1>1 DEF Types, HostShape
<1>4. IInv'
  BY <1>1, <1>2, <1>3, FaultsSame, HostGoesOn
<1> QED BY <1>1, <1>4

LEMMA HostResultGood ==
  ASSUME IInv, HostResult, UNCHANGED <<phase, obj, stored, pushback, outcome, faults>>
  PROVE  /\ IInv' /\ toHost # <<>> /\ toHost' = Tail(toHost) /\ toTarget' = toTarget
         /\ Ended(1) /\ host'.state = "idle"
         /\ host'.test = host.test /\ host'.window = host.window
         /\ host'.base = host.base /\ host'.heard = host.heard
<1> USE DEF IInv
<1>1. /\ toHost # <<>> /\ toHost' = Tail(toHost) /\ toTarget' = toTarget
      /\ toHost[1].kind \in Ends
      /\ host' = [host EXCEPT !.state = "idle"]
  BY HeardLine DEF HostResult, Hears, Ends
<1>2. /\ host' \in Hosts /\ host'.state = "idle"
      /\ host'.test = host.test /\ host'.window = host.window
      /\ host'.base = host.base /\ host'.heard = host.heard
  BY <1>1 DEF Types, Hosts
<1>3. HostShape'
  BY <1>2 DEF HostShape
<1>4. /\ Len(toHost) \in Nat \ {0} /\ toHost' \in Seq(Lines) /\ Len(toHost') = Len(toHost) - 1
      /\ \A j \in 1..(Len(toHost) - 1) : toHost'[j] = toHost[j + 1]
  BY <1>1, HeardLine
<1>5. OneTest'
  <2>1. SUFFICES ASSUME "giveup" \notin ToSet(faults) PROVE OneTest'
    BY DEF OneTest
  <2>2. 1 \in 1..Len(toHost) /\ Ended(1)
    BY <1>1, <1>4 DEF Ended
  <2>3. /\ phase = "command" /\ \A i \in 1..Len(toTarget) : ~Asked(i)
        /\ \A i \in (1 + 1)..Len(toHost) : ~Ended(i)
    BY <2>1, <2>2 DEF OneTest
  <2>4. \A j \in 1..Len(toHost') : j \in 1..(Len(toHost) - 1) /\ j + 1 \in (1 + 1)..Len(toHost)
    BY <1>4
  <2>5. \A j \in 1..Len(toHost') : toHost'[j].kind \notin Ends
    BY <1>4, <2>3, <2>4 DEF Ended
  <2> QED BY <1>1, <2>3, <2>5 DEF OneTest, Asked, Ended
<1>6. IInv'
  BY <1>1, <1>2, <1>3, <1>4, <1>5, HostKeeps DEF Types
<1> QED BY <1>1, <1>2, <1>6 DEF Ended

LEMMA HostGivesUpKeeps ==
  ASSUME IInv, HostGivesUp
  PROVE  IInv' /\ "giveup" \in ToSet(faults')
<1> USE DEF IInv
<1>1. /\ Noted("giveup") /\ host' = [host EXCEPT !.state = "idle"]
      /\ UNCHANGED <<phase, obj, stored, pushback, outcome, toTarget, toHost>>
  BY DEF HostGivesUp
<1>2. FaultsGrow /\ "giveup" \in ToSet(faults')
  BY <1>1, FaultNoted DEF FaultKinds
<1>3. host' \in Hosts /\ host'.state = "idle"
  BY <1>1 DEF Types, Hosts
<1>4. HostShape' /\ OneTest'
  BY <1>2, <1>3 DEF HostShape, OneTest
<1> QED BY <1>1, <1>2, <1>3, <1>4, HostKeeps DEF Types, FaultsGrow

LEMMA HostVanishesGood ==
  ASSUME IInv, HostVanishes
  PROVE  /\ IInv' /\ host'.state = "gone" /\ toHost' = <<>> /\ toTarget' = toTarget
         /\ phase' = phase /\ obj' = obj /\ stored' = stored /\ pushback' = pushback
         /\ outcome' = outcome /\ faults' = faults
         /\ host'.test = host.test /\ host'.window = host.window
         /\ host'.base = host.base /\ host'.heard = host.heard /\ host'.todo = host.todo
<1> USE DEF IInv
<1>1. /\ host' = [host EXCEPT !.state = "gone"] /\ toHost' = <<>>
      /\ UNCHANGED <<phase, obj, stored, pushback, outcome, toTarget, faults>>
  BY DEF HostVanishes
<1>2. /\ host' \in Hosts /\ host'.state = "gone" /\ host'.test = host.test
      /\ host'.window = host.window /\ host'.base = host.base /\ host'.heard = host.heard
      /\ host'.todo = host.todo
  BY <1>1 DEF Types, Hosts
<1>3. HostShape'
  BY <1>2 DEF HostShape
<1>4. IInv'
  BY <1>1, <1>2, <1>3, FaultsSame, LineSame, RepliesGone, HostGoesOn
<1> QED BY <1>1, <1>2, <1>4

(* The line loses a confirmation, loses or damages a part of a frame, or
   loses an ACK.                                                           *)
LEMMA LineFaultGood ==
  ASSUME IInv, Fault
  PROVE  /\ IInv' /\ phase' = phase /\ obj' = obj /\ stored' = stored
         /\ pushback' = pushback /\ outcome' = outcome /\ host' = host /\ FaultsGrow
         /\ \/ /\ Noted("confirm") /\ toHost' = toHost
               /\ \E k \in 1..Len(toTarget) :
                    toTarget[k] = Confirm /\ toTarget' = RemoveAt(toTarget, k)
            \/ /\ Noted("frame") /\ toHost' = toHost
               /\ \E k \in 1..Len(toTarget) :
                    /\ toTarget[k].kind \in {"start", "rest", "data"}
                    /\ \/ toTarget' = RemoveAt(toTarget, k)
                       \/ toTarget[k] # Start /\ toTarget' = [toTarget EXCEPT ![k] = Junk]
            \/ /\ Noted("ack") /\ toTarget' = toTarget
               /\ \E k \in 1..Len(toHost) :
                    toHost[k].kind = "ack" /\ toHost' = RemoveAt(toHost, k)
<1> USE DEF IInv
<1>1. /\ phase' = phase /\ obj' = obj /\ stored' = stored
      /\ pushback' = pushback /\ outcome' = outcome /\ host' = host
      /\ LoseConfirm \/ DamageFrame \/ DamageAck
  BY DEF Fault
<1>2. DOMAIN toTarget = 1..Len(toTarget) /\ DOMAIN toHost = 1..Len(toHost)
  BY LenProperties DEF Types
<1>3. host' \in Hosts /\ HostShape'
  BY <1>1 DEF Types, HostShape
<1>4. CASE LoseConfirm
  <2>1. PICK k \in 1..Len(toTarget) :
          toTarget[k] = Confirm /\ toTarget' = RemoveAt(toTarget, k)
    BY <1>2, <1>4 DEF LoseConfirm
  <2>2. Noted("confirm") /\ toHost' = toHost
    BY <1>4 DEF LoseConfirm
  <2>3. FaultsGrow
    BY <2>2, FaultNoted DEF FaultKinds
  <2>4. IInv'
    BY <1>1, <1>3, <2>1, <2>2, <2>3, LineRemoved, RepliesSame, HostGoesOn
  <2> QED BY <1>1, <2>1, <2>2, <2>3, <2>4
<1>5. CASE DamageFrame
  <2>1. PICK k \in 1..Len(toTarget) :
          /\ toTarget[k].kind \in {"start", "rest", "data"}
          /\ \/ toTarget' = RemoveAt(toTarget, k)
             \/ toTarget[k] # Start /\ toTarget' = [toTarget EXCEPT ![k] = Junk]
    BY <1>2, <1>5 DEF DamageFrame
  <2>2. Noted("frame") /\ toHost' = toHost
    BY <1>5 DEF DamageFrame
  <2>3. FaultsGrow
    BY <2>2, FaultNoted DEF FaultKinds
  <2>4. IInv'
    BY <1>1, <1>3, <2>1, <2>2, <2>3, LineRemoved, LineJunked, RepliesSame, HostGoesOn
  <2> QED BY <1>1, <2>1, <2>2, <2>3, <2>4
<1>6. CASE DamageAck
  <2>1. PICK k \in 1..Len(toHost) : toHost[k].kind = "ack" /\ toHost' = RemoveAt(toHost, k)
    BY <1>2, <1>6 DEF DamageAck
  <2>2. Noted("ack") /\ toTarget' = toTarget
    BY <1>6 DEF DamageAck
  <2>3. FaultsGrow
    BY <2>2, FaultNoted DEF FaultKinds
  <2>4. IInv'
    BY <1>1, <1>3, <2>1, <2>2, <2>3, LineSame, RepliesRemoved, HostGoesOn
  <2> QED BY <1>1, <2>1, <2>2, <2>3, <2>4
<1> QED BY <1>1, <1>4, <1>5, <1>6

-----------------------------------------------------------------------------
(* Types and what is stored: the theorems.                                 *)

LEMMA Initially ==
  ASSUME Init
  PROVE  IInv
<1>1. /\ phase = "command" /\ pushback = FALSE /\ outcome = "none"
      /\ obj = [test |-> 0, window |-> 1, base |-> 0, pos |-> 0, round |-> 0,
                bitmap |-> {}, attempt |-> 0, effort |-> 0]
      /\ stored = [s \in Slots |-> 0]
      /\ host = [state |-> "idle", test |-> 0, window |-> 1, base |-> 0,
                 todo |-> {}, heard |-> -1]
      /\ toTarget = <<>> /\ toHost = <<>> /\ faults = <<>>
  BY DEF Init
<1>2. /\ 0 \in 0..MaxTests /\ 0 \in 0..Frames /\ 0 \in Slots /\ 0 \in 0..Rounds
      /\ 0 \in 0..AckTries /\ -1 \in -1..Rounds /\ MaxFaults \in Nat
  BY TransferAssumption DEF Slots
<1>3. 0 \in 0..((1 + Rounds) * K)
  <2>1. (1 + Rounds) * K \in Nat
    BY <1>2, Costs
  <2> QED BY <2>1
<1>4. obj \in Objects
  BY <1>1, <1>2, <1>3 DEF Objects
<1>5. host \in Hosts
  BY <1>1, <1>2 DEF Hosts
<1>6. Types
  BY <1>1, <1>2, <1>4, <1>5 DEF Types
<1>7. ObjShape /\ HostShape /\ TakenStored
  BY <1>1 DEF ObjShape, HostShape, TakenStored
<1>8. (\A i \in 1..Len(toTarget) : FALSE) /\ \A j \in 1..Len(toHost) : FALSE
  <2>1. Len(<<>>) = 0
    OBVIOUS
  <2> QED BY <1>1, <2>1
<1>9. OneTest
  BY <1>1, <1>8 DEF OneTest
<1> QED BY <1>6, <1>7, <1>9 DEF IInv

LEMMA Inductive ==
  ASSUME IInv, [Next]_vars
  PROVE  IInv'
<1>1. CASE ReadCommand
  BY <1>1, ReadCommandGood
<1>2. CASE OpenWindow
  BY <1>2, OpenWindowGood
<1>3. CASE FinishObject
  BY <1>3, FinishKeeps
<1>4. CASE HeaderInvalid \/ HeaderTimeout \/ PayloadTimeout
  BY <1>4, BadHeaderKeeps
<1>5. CASE DataInvalid
  BY <1>5, DataInvalidGood
<1>6. CASE StoreFrame
  BY <1>6, StoreFrameGood
<1>7. CASE ReadConfirmation
  BY <1>7, ReadConfirmationGood
<1>8. CASE AckTimeout
  BY <1>8, AckTimeoutGood
<1>9. CASE ReadOtherByte
  BY <1>9, ReadOtherByteGood
<1>10. CASE DeadlinePassed
  BY <1>10, DeadlineKeeps
<1>11. CASE Host
  <2>1. UNCHANGED <<phase, obj, stored, pushback, outcome, faults>>
    BY <1>11 DEF Host
  <2>2. \/ HostCommand \/ HostBegin \/ HostSend \/ HostAck \/ HostAckAgain
        \/ HostResult \/ HostSkip
    BY <1>11 DEF Host
  <2> QED BY <2>1, <2>2, HostCommandKeeps, HostBeginGood, HostSendGood, HostAckGood,
             HostAckAgainGood, HostResultGood, HostSkipGood
<1>12. CASE HostGivesUp
  BY <1>12, HostGivesUpKeeps
<1>13. CASE HostVanishes
  BY <1>13, HostVanishesGood
<1>14. CASE Fault
  BY <1>14, LineFaultGood
<1>15. CASE UNCHANGED vars
  BY <1>15 DEF vars, IInv, Types, ObjShape, HostShape, TakenStored, Taken, OneTest,
               Asked, Ended, Carries
<1> QED BY <1>1, <1>2, <1>3, <1>4, <1>5, <1>6, <1>7, <1>8, <1>9, <1>10, <1>11, <1>12,
           <1>13, <1>14, <1>15 DEF Next, Target

LEMMA Invariant == Spec => []IInv
<1>1. Init => IInv
  BY Initially
<1>2. IInv /\ [Next]_vars => IInv'
  BY Inductive
<1> QED BY <1>1, <1>2, PTL DEF Spec

(* Every variable keeps its type; the effort of the target in a window, which
   is what stands between two looks at the deadline, has the bound that the
   rounds and the repeated ACKs of receive_v3_object give it.              *)
THEOREM TypeCorrect == Spec => []TypeOK
<1>1. IInv => TypeOK
  BY DEF IInv, Types, Objects, K, TypeOK
<1> QED BY <1>1, Invariant, PTL

(* The receiver leaves no window behind before each of its frames is stored,
   from this test unless the host gave up an earlier one (receive_v3_object,
   frame_slot_mark).                                                       *)
THEOREM WindowsStored == Spec => []WindowStored
<1>1. ASSUME IInv, phase # "command", NEW s \in 0..(obj.base - 1)
      PROVE  stored[s] # 0 /\ ("giveup" \notin ToSet(faults) => stored[s] = obj.test)
  <2>1. stored[s] # 0
    BY <1>1 DEF IInv, TakenStored
  <2>2. s \in Slots
    BY <1>1, ObjFields, TransferAssumption DEF IInv
  <2> QED BY <1>1, <2>1, <2>2 DEF IInv, OneTest
<1>2. IInv => WindowStored
  BY <1>1 DEF WindowStored
<1> QED BY <1>2, Invariant, PTL

-----------------------------------------------------------------------------
(* The two ends stay in step: general facts.                               *)

LEMMA PunctualBack ==
  ASSUME Types, FaultsGrow, Punctual'
  PROVE  Punctual /\ "giveup" \notin ToSet(faults) /\ "giveup" \notin ToSet(faults')
                  /\ "late" \notin ToSet(faults')
BY DEF FaultsGrow, Punctual, Only

LEMMA MidLine ==
  ASSUME OneTest', Punctual', phase' # "command"
  PROVE  LineRule'
<1>1. "giveup" \notin ToSet(faults')
  BY DEF Punctual, Only
<1> QED BY <1>1 DEF OneTest, LineRule

LEMMA OverLine ==
  ASSUME IInv, Punctual, phase # "command", phase' = "command", pushback' = FALSE,
         host' = host, Remains, NEW k \in Ends, Say(Reply(k))
  PROVE  LineRule'
<1>1. Types /\ "giveup" \notin ToSet(faults)
  BY DEF IInv, Punctual, Only
<1>2. /\ host.state # "idle"
      /\ \A i \in 1..Len(toTarget) : ~Asked(i)
      /\ \A j \in 1..Len(toHost) : ~Ended(j)
  BY <1>1 DEF IInv, OneTest
<1>3. ASSUME NEW i \in 1..Len(toTarget') PROVE ~Asked(i)'
  <2>1. CASE toTarget'[i] \in {Start, Junk}
    BY <2>1, Kinds DEF Asked
  <2>2. CASE \E j \in 1..Len(toTarget) : toTarget'[i] = toTarget[j]
    BY <2>2, <1>2 DEF Asked
  <2> QED BY <2>1, <2>2 DEF Remains
<1>4. Reply(k) \in Lines
  BY ReplyLines
<1>5. ASSUME NEW j \in 1..Len(toHost'), Ended(j)' PROVE j = Len(toHost')
  <2>1. toHost' # <<>> /\ host.state # "gone"
    <3>1. toHost' = <<>> => Len(toHost') = 0
      OBVIOUS
    <3> QED BY <3>1, <1>1, <1>4, <1>5, Said
  <2>2. /\ Len(toHost') = Len(toHost) + 1 /\ Len(toHost) \in Nat
        /\ \A i \in 1..Len(toHost) : toHost'[i] = toHost[i]
    BY <2>1, <1>1, <1>4, Said, LenProperties DEF Types
  <2>3. j \in 1..Len(toHost) => ~Ended(j)'
    BY <2>2, <1>2 DEF Ended
  <2> QED BY <1>5, <2>2, <2>3
<1> QED BY <1>2, <1>3, <1>5 DEF LineRule

LEMMA DueFacts ==
  ASSUME Types, ObjShape, phase # "command"
  PROVE  /\ Due \subseteq Slots /\ Slots \subseteq Nat /\ Next1 \in 0..Frames
         /\ Next1 = obj.base + Count(obj.base, obj.window)
         /\ Frames \in Nat /\ obj.base \in 0..Frames
<1>1. /\ obj.base \in 0..Frames /\ obj.window \in Windows \union {1}
      /\ Slots = 0..(Frames - 1) /\ Slots \subseteq Nat
  BY ObjFields
<1>2. /\ Frames \in Nat /\ Next1 \in 0..Frames
      /\ Count(obj.base, obj.window) \in Nat
  <2>1. /\ Frames \in Nat \ {0} /\ MaxWindow \in Nat \ {0}
        /\ Count(obj.base, obj.window) \in 0..MaxWindow
        /\ obj.base + Count(obj.base, obj.window) \in 0..Frames
    BY <1>1, Sizes
  <2> QED BY <2>1 DEF Next1
<1>3. /\ Count(Next1, obj.window) \in Nat /\ Next1 + Count(Next1, obj.window) \in 0..Frames
  <2>1. /\ MaxWindow \in Nat \ {0}
        /\ Count(Next1, obj.window) \in 0..MaxWindow
        /\ Next1 + Count(Next1, obj.window) \in 0..Frames
    BY <1>1, <1>2, Sizes
  <2> QED BY <2>1
<1>4. Span(obj.base) \subseteq Slots
  BY <1>1, <1>2 DEF Span, Next1
<1>5. Span(Next1) \subseteq Slots
  BY <1>1, <1>2, <1>3 DEF Span
<1> QED BY <1>1, <1>2, <1>4, <1>5 DEF Due, Next1

(* Frames that were due, in order and still under way, remain so when the
   stream loses some of its tokens or some become junk, as long as what was
   due beyond h still is.                                                  *)
LEMMA FramesKept ==
  ASSUME Stream \in Seq(Tokens), Stream' \in Seq(Tokens), InOrder, StillDue, Due \subseteq Nat,
         NEW old \in [1..Len(Stream') -> 1..Len(Stream)],
         \A i \in 1..Len(Stream') : /\ Stream'[i] \in {Stream[old[i]], Junk}
                                    /\ Len(Stream') - i <= Len(Stream) - old[i],
         \A i, j \in 1..Len(Stream') : i < j => j - i <= old[j] - old[i],
         host'.state = "send" => host.state = "send" /\ host'.todo \subseteq host.todo,
         NEW h \in Int, \A d \in Due : d > h => d \in Due',
         \A i \in 1..Len(Stream') : Framed(i)' => Stream'[i].sequence > h
  PROVE  InOrder' /\ StillDue'
<1>1. Len(Stream) \in Nat /\ Len(Stream') \in Nat
  BY LenProperties
<1>2. \A i \in 1..Len(Stream') : old[i] \in 1..Len(Stream)
  OBVIOUS
<1>3. ASSUME NEW i \in 1..Len(Stream'), Framed(i)'
      PROVE  Stream'[i] = Stream[old[i]] /\ Framed(old[i])
  <2>1. Junk.kind = "junk"
    BY Kinds
  <2> QED BY <1>3, <2>1 DEF Framed
<1>4. InOrder'
  <2>1. SUFFICES ASSUME NEW i \in 1..Len(Stream'), NEW j \in 1..Len(Stream'), i < j,
                        Framed(i)', Framed(j)'
                 PROVE  \/ Stream'[i].sequence < Stream'[j].sequence
                        \/ /\ Stream'[i].sequence = Stream'[j].sequence /\ j = i + 1
                           /\ Stream'[i].kind = "rest" /\ Stream'[j].kind = "data"
    BY DEF InOrder
  <2>2. j - i <= old[j] - old[i] /\ old[i] \in 1..Len(Stream) /\ old[j] \in 1..Len(Stream)
    BY <2>1, <1>2
  <2>3. old[i] < old[j] /\ (old[j] = old[i] + 1 => j = i + 1)
    BY <2>1, <2>2, <1>1
  <2>4. /\ Stream'[i] = Stream[old[i]] /\ Framed(old[i])
        /\ Stream'[j] = Stream[old[j]] /\ Framed(old[j])
    BY <1>3, <2>1
  <2>5. \/ Stream[old[i]].sequence < Stream[old[j]].sequence
        \/ /\ Stream[old[i]].sequence = Stream[old[j]].sequence /\ old[j] = old[i] + 1
           /\ Stream[old[i]].kind = "rest" /\ Stream[old[j]].kind = "data"
    BY <2>2, <2>3, <2>4 DEF InOrder
  <2> QED BY <2>3, <2>4, <2>5
<1>5. StillDue'
  <2>1. SUFFICES ASSUME NEW i \in 1..Len(Stream'), Framed(i)'
                 PROVE  /\ Stream'[i].sequence \in Due'
                        /\ host'.state = "send" => \A d \in host'.todo : Stream'[i].sequence < d
                        /\ Closing(i)' \/ \E d \in Due' : d > Stream'[i].sequence
    BY DEF StillDue
  <2>2. old[i] \in 1..Len(Stream) /\ Stream'[i] = Stream[old[i]] /\ Framed(old[i])
    BY <1>2, <1>3, <2>1
  <2>3. /\ Stream[old[i]].sequence \in Due
        /\ host.state = "send" => \A d \in host.todo : Stream[old[i]].sequence < d
        /\ Closing(old[i]) \/ \E d \in Due : d > Stream[old[i]].sequence
    BY <2>2 DEF StillDue
  <2>4. Stream'[i].sequence > h /\ Stream'[i].sequence \in Due
    BY <2>1, <2>2, <2>3
  <2>5. Len(Stream') - i <= Len(Stream) - old[i]
    OBVIOUS
  <2>6. Closing(old[i]) => Closing(i)'
    BY <1>1, <2>2, <2>5 DEF Closing
  <2>7. ASSUME NEW d \in Due, d > Stream'[i].sequence PROVE d \in Due'
    <3>1. d \in Nat /\ Stream'[i].sequence \in Nat
      BY <2>4, <2>7
    <3>2. d > h
      BY <2>4, <2>7, <3>1
    <3> QED BY <2>7, <3>2
  <2> QED BY <2>2, <2>3, <2>4, <2>6, <2>7
<1> QED BY <1>4, <1>5

-----------------------------------------------------------------------------
(* What the target does in step.                                           *)

(* All that is in the stream in the middle of a test is of this test.      *)
LEMMA OwnTokens ==
  ASSUME IInv, Punctual, phase # "command"
  PROVE  \A i \in 1..Len(Stream) : Framed(i) => Stream[i].test = host.test
<1>1. Types /\ "giveup" \notin ToSet(faults)
  BY DEF IInv, Punctual, Only
<1>2. \A i \in 1..Len(toTarget) : Carries(toTarget[i], host.test)
  BY <1>1 DEF IInv, OneTest
<1>3. \A i \in 1..Len(Stream) :
        Stream[i] \in {Start, Junk} \/ \E j \in 1..Len(toTarget) : Stream[i] = toTarget[j]
  BY <1>1, StreamTokens
<1> QED BY <1>2, <1>3, Kinds DEF Framed, Carries

(* What is behind the first three tokens, or behind data that are not those
   of the header, belongs to later frames.                                 *)
LEMMA LaterFrames ==
  ASSUME IInv, Punctual, phase = "frame", InOrder, HeaderValid, Len(Stream) >= 3,
         NEW n \in 3..Len(Stream), ~OwnData \/ n = 3
  PROVE  \A i \in (n + 1)..Len(Stream) : Framed(i) => Stream[i].sequence > Here
<1>1. Types /\ ObjShape
  BY DEF IInv
<1>2. /\ Len(Stream) \in Nat /\ Stream[2].kind = "rest" /\ Stream[2].sequence = Here
      /\ Stream \in Seq(Tokens) /\ \A i \in 1..Len(Stream) : Stream[i] \in Tokens
  BY <1>1, HeaderSays, StreamSeq
<1>3. SUFFICES ASSUME NEW i \in (n + 1)..Len(Stream), Framed(i)
               PROVE  Stream[i].sequence > Here
  OBVIOUS
<1>4. i \in 1..Len(Stream) /\ 2 \in 1..Len(Stream) /\ 2 < i /\ i # 3 /\ Framed(2)
  BY <1>2, <1>3 DEF Framed
<1>5. Stream[2].sequence < Stream[i].sequence
  BY <1>3, <1>4 DEF InOrder
<1>6. Stream[i].sequence \in Nat /\ Here \in Nat
  <2>1. Stream[i].sequence \in Slots /\ Here \in Slots /\ Slots \subseteq Nat
    BY <1>1, <1>2, <1>3, <1>4, Kinds, WindowFacts, ObjFields DEF Framed
  <2> QED BY <2>1
<1> QED BY <1>2, <1>5, <1>6

(* What is still due after a frame was read.                               *)
LEMMA DueNext ==
  ASSUME Types, ObjShape, phase = "frame", NEW bm \in SUBSET InWindow,
         \A p \in InWindow : p # obj.pos => (p \in bm <=> p \in obj.bitmap),
         obj'.base = obj.base, obj'.window = obj.window, obj'.round = obj.round,
         obj'.bitmap = bm
  PROVE  /\ Remaining(bm) = {} => \A d \in Due : d <= Here
         /\ phase' = "frame" /\ Remaining(bm) # {} /\ obj'.pos = Least(Remaining(bm)) =>
              \A d \in Due : d > Here => d \in Due'
<1> DEFINE c == Count(obj.base, obj.window)
<1>1. /\ obj.base \in Nat /\ obj.pos \in Nat /\ obj.pos \in InWindow /\ c \in Nat
      /\ InWindow = 0..(c - 1) /\ Due \subseteq Nat
  <2>1. /\ obj.base \in Slots /\ Slots \subseteq Nat /\ obj.pos \in InWindow
        /\ c \in 1..MaxWindow /\ MaxWindow \in Nat /\ Due \subseteq Slots
    BY WindowFacts, ObjFields, TransferAssumption, DueFacts
  <2>5. Due \subseteq Nat
    BY <2>1
  <2>6. \A x \in 1..MaxWindow : x \in Nat
    BY <2>1
  <2>2. obj.base \in Nat /\ c \in Nat /\ Due \subseteq Nat
    BY <2>1, <2>5, <2>6
  <2>3. InWindow = 0..(c - 1)
    BY DEF InWindow
  <2>4. obj.pos \in Nat
    BY <2>1, <2>2, <2>3
  <2> QED BY <2>1, <2>2, <2>3, <2>4
<1>0. Span(obj.base) = obj.base..(obj.base + c - 1)
  BY DEF Span
<1>9. Remaining(bm) = {p \in InWindow : p > obj.pos /\ (obj.round = 0 \/ p \in bm)}
  BY DEF Remaining, InWindow
<1> HIDE DEF c
<1>2. ASSUME NEW d \in Due, d > Here
      PROVE  /\ d - obj.base \in Remaining(bm) /\ d \in Span(obj.base)
             /\ d = obj.base + (d - obj.base) /\ d \in Nat
             /\ d - obj.base \in bm \/ obj.round = 0
  <2>1. d \in Span(obj.base) /\ (obj.round = 0 \/ d - obj.base \in obj.bitmap)
    BY <1>2 DEF Due
  <2>2. d \in Nat /\ d - obj.base \in InWindow /\ d - obj.base > obj.pos
    BY <1>0, <1>1, <1>2, <2>1 DEF Here
  <2>3. obj.round = 0 \/ d - obj.base \in bm
    BY <1>1, <2>1, <2>2
  <2> QED BY <1>1, <1>9, <2>1, <2>2, <2>3
<1>3. ASSUME Remaining(bm) = {}, NEW d \in Due PROVE d <= Here
  <2>1. d \in Nat /\ Here \in Nat
    BY <1>1 DEF Here
  <2> QED BY <1>2, <1>3, <2>1
<1>4. ASSUME phase' = "frame", Remaining(bm) # {}, obj'.pos = Least(Remaining(bm)),
             NEW d \in Due, d > Here
      PROVE  d \in Due'
  <2>1. obj'.pos <= d - obj.base /\ obj'.pos \in InWindow
    BY <1>2, <1>4, NextPosition
  <2>2. d >= obj'.base + obj'.pos
    BY <1>1, <1>2, <2>1
  <2>3. Span(obj.base)' = Span(obj.base)
    BY DEF Span
  <2> QED BY <1>2, <1>4, <2>2, <2>3 DEF Due
<1> QED BY <1>3, <1>4

LEMMA Nothing ==
  /\ Len(<<>>) = 0
  /\ \A S : <<>> \in Seq(S)
  /\ \A S : \A s \in Seq(S) : Len(s) = 0 => s = <<>>
  /\ \A x : <<x>> # <<>> /\ Len(<<x>>) = 1 /\ <<x>>[1] = x /\ Append(<<>>, x) = <<x>>
<1>1. \A S : \A s \in Seq(S) : Len(s) = 0 => s = <<>>
  BY EmptySeq
<1>2. ASSUME NEW x PROVE Append(<<>>, x) = <<x>>
  OBVIOUS
<1>3. \A S : <<>> \in Seq(S)
  OBVIOUS
<1>4. \A x : <<x>> # <<>> /\ Len(<<x>>) = 1 /\ <<x>>[1] = x
  OBVIOUS
<1> QED BY <1>1, <1>2, <1>3, <1>4

LEMMA Three ==
  ASSUME NEW l \in Nat, l >= 3, 2 = l \/ 2 + 1 = l
  PROVE  l = 3
OBVIOUS

(* A frame was read, taken or not: the next one of the round is due, or the
   target says what it has and the host has not heard it.                  *)
LEMMA FrameTaken ==
  ASSUME IInv, IInv', Punctual, phase = "frame", MidTest, Heard, HeardState,
         HeaderValid, Len(Stream) >= 3, NEW ok \in BOOLEAN, FrameRead(ok),
         stored' \in [Slots -> 0..MaxTests],
         \A s \in Slots : stored[s] # 0 => stored'[s] # 0,
         ok => stored'[Here] # 0,
         NEW n \in 3..Len(Stream), Consume(n), ~OwnData \/ n = 3, host' = host
  PROVE  MidTest'
<1>1. Types /\ ObjShape /\ TakenStored /\ HostShape /\ "giveup" \notin ToSet(faults)
  BY DEF IInv, Punctual, Only
<1>2. /\ phase' \in {"frame", "ack"}
      /\ obj'.test = obj.test /\ obj'.window = obj.window /\ obj'.base = obj.base
      /\ obj'.round = obj.round /\ obj'.bitmap = MarkFrame(ok)
      /\ obj'.bitmap \in SUBSET InWindow
      /\ phase' = "frame" => /\ Remaining(obj'.bitmap) # {}
                             /\ obj'.pos = Least(Remaining(obj'.bitmap))
                             /\ toHost' = toHost
      /\ phase' = "ack" => Remaining(obj'.bitmap) = {} /\ Say(Ack(obj'))
  BY <1>1, FrameReadGood
<1>3. /\ Len(Stream) \in Nat /\ Stream[1] = Start /\ Stream[2].kind = "rest"
      /\ Stream[2].sequence = Here /\ Stream \in Seq(Tokens)
      /\ 2 \in 1..Len(Stream) /\ Framed(2)
  BY <1>1, HeaderSays, StreamSeq DEF Framed
<1>4. ~JunkFirst /\ ~OnlyConfirms
  BY <1>3, Kinds DEF JunkFirst, OnlyConfirms
<1>5. /\ toHost = <<>> /\ InOrder /\ StillDue
      /\ host.state = "send" => host.todo \subseteq Due /\ obj.window # 1
      /\ host.state \in {"send", "ack", "result", "gone"} /\ host.base # Frames
  BY <1>4 DEF HeardState, Burst
<1>6. /\ Here \in Due
      /\ host.state = "send" => \A d \in host.todo : Here < d
      /\ Closing(2) \/ \E d \in Due : d > Here
  BY <1>3, <1>5 DEF StillDue
<1>7. /\ host.base = obj.base /\ host.window = obj.window
      /\ host.state # "result" /\ host.heard = obj.round - 1
  BY <1>5 DEF MidTest, Heard
<1>8. \A p \in InWindow : p # obj.pos => (p \in obj'.bitmap <=> p \in obj.bitmap)
  BY <1>2 DEF MarkFrame
<1>9. /\ Remaining(obj'.bitmap) = {} => \A d \in Due : d <= Here
      /\ phase' = "frame" => \A d \in Due : d > Here => d \in Due'
  BY <1>1, <1>2, <1>8, DueNext
<1>10. /\ Stream' \in Seq(Tokens) /\ Len(Stream') = Len(Stream) - n
       /\ \A i \in 1..(Len(Stream) - n) : Stream'[i] = Stream[n + i]
  <2>1. n \in 0..Len(Stream)
    BY <1>3
  <2> QED BY <1>1, <2>1, Consumed
<1>11. Due \subseteq Nat /\ Here \in Nat
  <2>1. Due \subseteq Slots /\ Slots \subseteq Nat /\ Here \in Slots
    BY <1>1, DueFacts, WindowFacts
  <2> QED BY <2>1
<1>12. CASE phase' = "ack"
  <2>1. \A d \in Due : d <= Here
    BY <1>2, <1>9, <1>12
  <2>2. ~(\E d \in Due : d > Here)
    BY <2>1, <1>11
  <2>3. Len(Stream') = 0
    <3>1. Closing(2)
      BY <2>2, <1>6
    <3>2. Len(Stream) = 3
      <4>1. 2 = Len(Stream) \/ 2 + 1 = Len(Stream)
        BY <3>1 DEF Closing
      <4>2. Len(Stream) \in Nat
        BY <1>3
      <4> QED BY <4>1, <4>2, Three
    <3> QED BY <3>2, <1>10
  <2>4. Stream' = <<>>
    BY <2>3, <1>10, Nothing
  <2>5. host.state \in {"ack", "gone"}
    <3>1. host.state = "send" => \E d \in host.todo : d \in Due /\ d > Here
      BY <1>1, <1>5, <1>6 DEF HostShape
    <3> QED BY <2>2, <3>1, <1>5, <1>7
  <2>6. toHost' \in {<<>>, <<Ack(obj')>>}
    BY <1>2, <1>5, <1>12, Nothing DEF Say
  <2>7. host.heard < obj'.round
    BY <1>1, <1>2, <1>7, ObjFields
  <2>8. UnheardClean'
    BY <1>2, <1>7, <1>12, <2>4, <2>5, <2>6, <2>7 DEF UnheardClean
  <2> QED BY <1>2, <1>5, <1>7, <2>5, <2>8 DEF MidTest
<1>13. CASE phase' = "frame"
  <2>1. Heard'
    BY <1>2, <1>7, <1>13 DEF Heard
  <2>2. InOrder' /\ StillDue'
    <3> DEFINE old == [i \in 1..Len(Stream') |-> n + i]
    <3>1. old \in [1..Len(Stream') -> 1..Len(Stream)]
      BY <1>3, <1>10
    <3>2. \A i \in 1..Len(Stream') : /\ Stream'[i] \in {Stream[old[i]], Junk}
                                     /\ Len(Stream') - i <= Len(Stream) - old[i]
      BY <1>3, <1>10
    <3>3. \A i, j \in 1..Len(Stream') : i < j => j - i <= old[j] - old[i]
      BY <1>3, <1>10
    <3>4. \A i \in 1..Len(Stream') : Framed(i)' => Stream'[i].sequence > Here
      <4>1. \A i \in (n + 1)..Len(Stream) : Framed(i) => Stream[i].sequence > Here
        BY <1>5, LaterFrames
      <4>2. \A i \in 1..Len(Stream') : n + i \in (n + 1)..Len(Stream) /\ Stream'[i] = Stream[n + i]
        BY <1>3, <1>10
      <4> QED BY <4>1, <4>2 DEF Framed
    <3>5. Here \in Int
      BY <1>11
    <3> HIDE DEF old
    <3> QED BY <1>3, <1>5, <1>9, <1>10, <1>11, <1>13, <3>1, <3>2, <3>3, <3>4, <3>5, FramesKept
  <2>3. host'.state = "send" => host'.todo \subseteq Due'
    BY <1>5, <1>6, <1>9, <1>13
  <2>4. Burst'
    BY <1>2, <1>5, <2>2, <2>3 DEF Burst
  <2>5. HeardState'
    BY <1>2, <1>5, <1>13, <2>4, Nothing DEF HeardState
  <2> QED BY <1>2, <1>5, <1>7, <2>1, <2>5 DEF MidTest
<1> QED BY <1>2, <1>12, <1>13

-----------------------------------------------------------------------------
(* A window of one frame whose frame is given up is asked for again.       *)
LEMMA RecoverOne ==
  ASSUME IInv, IInv', phase = "frame", MidTest, Recover, host' = host, obj.window = 1,
         host.state \in {"ack", "gone"}, host.base = obj.base, host.heard < obj.round,
         \A j \in 1..Len(toHost) : toHost[j].kind = "ack" /\ ~Fresh(toHost[j])
  PROVE  MidTest'
<1>1. Types /\ ObjShape /\ TakenStored /\ obj' \in Objects /\ Types'
  BY DEF IInv, Types
<1>2. FrameRead(FALSE) /\ Drain /\ stored' = stored
  BY DEF Recover
<1>3. /\ phase' \in {"frame", "ack"}
      /\ obj'.window = obj.window /\ obj'.base = obj.base
      /\ obj'.round = obj.round /\ obj'.bitmap = MarkFrame(FALSE)
      /\ obj'.bitmap \in SUBSET InWindow
      /\ phase' = "frame" => Remaining(obj'.bitmap) # {}
      /\ phase' = "ack" => Say(Ack(obj'))
  <2>1. stored' \in [Slots -> 0..MaxTests] /\ \A s \in Slots : stored[s] # 0 => stored'[s] # 0
    BY <1>1, <1>2 DEF Types
  <2> QED BY <1>1, <1>2, <2>1, FrameReadGood
<1>4. Remaining(obj'.bitmap) = {}
  <2>1. Count(obj.base, obj.window) = 1 /\ obj.pos \in InWindow
    <3>1. obj.base \in 0..Frames /\ obj.window \in Windows \union {1} /\ obj.base < Frames
      BY <1>1, ObjFields DEF ObjShape
    <3> QED BY <1>1, <3>1, Sizes, WindowFacts
  <2>2. InWindow = {0}
    BY <2>1 DEF InWindow
  <2>3. obj.pos = 0
    BY <2>1, <2>2
  <2> QED BY <2>1, <2>3 DEF Remaining
<1>5. phase' = "ack" /\ Say(Ack(obj')) /\ obj'.bitmap # {}
  BY <1>3, <1>4 DEF MarkFrame
<1>6. Stream' = <<>>
  BY <1>2, Drained
<1>7. /\ Ack(obj') \in Lines /\ Ack(obj').kind = "ack"
      /\ Ack(obj').round = obj'.round /\ Ack(obj').bitmap = obj'.bitmap
  BY <1>1, <1>3, AckOfNewObject
<1>8. /\ host.state = "gone" => toHost' = <<>>
      /\ host.state # "gone" =>
           /\ Len(toHost') = Len(toHost) + 1 /\ Len(toHost) \in Nat
           /\ \A j \in 1..Len(toHost) : toHost'[j] = toHost[j]
           /\ toHost'[Len(toHost) + 1] = Ack(obj')
  BY <1>1, <1>5, <1>7, Said, HostFields
<1>9. ASSUME NEW j \in 1..Len(toHost')
      PROVE  /\ toHost'[j].kind = "ack"
             /\ Fresh(toHost[j])' => j = Len(toHost') /\ toHost'[j] = Ack(obj')
  <2>1. host.state # "gone"
    BY <1>8, <1>9, Nothing
  <2>2. CASE j \in 1..Len(toHost)
    <3>1. toHost'[j] = toHost[j] /\ toHost[j].kind = "ack" /\ ~Fresh(toHost[j])
      BY <2>1, <2>2, <1>8
    <3>2. Fresh(toHost[j])' = Fresh(toHost[j])
      BY <3>1 DEF Fresh
    <3> QED BY <3>1, <3>2
  <2>3. CASE j = Len(toHost) + 1
    BY <2>1, <2>3, <1>7, <1>8
  <2> QED BY <2>1, <2>2, <2>3, <1>8, <1>9
<1>10. OnlyConfirms'
  BY <1>6, Nothing DEF OnlyConfirms
<1>11. UnheardState'
  <2>1. /\ (host.base = obj.base)' /\ (host.state \in {"ack", "gone"})'
        /\ (phase \in {"frame", "ack"})' /\ (obj.bitmap # {})' /\ (obj.window = 1)'
        /\ (host.heard < obj.round)' /\ (phase = "ack")'
    BY <1>3, <1>5
  <2>2. ASSUME NEW j \in 1..Len(toHost')
        PROVE  /\ toHost'[j].kind = "ack"
               /\ Fresh(toHost[j])' => /\ j = Len(toHost') /\ toHost'[j].bitmap = obj'.bitmap
                                        /\ toHost'[j].round = obj'.round
    BY <1>7, <1>9
  <2> QED BY <2>1, <2>2, <1>10 DEF UnheardState
<1> QED BY <1>3, <1>5, <1>11 DEF MidTest

LEMMA ConfirmsOnly ==
  ASSUME Types, OnlyConfirms
  PROVE  ~HeaderArrived /\ ~HeaderValid /\ ~JunkFirst /\ ~pushback
<1>1. Len(Stream) \in Nat /\ \A i \in 1..Len(Stream) : Stream[i] = Confirm
  BY StreamSeq DEF OnlyConfirms
<1>2. DOMAIN Stream = 1..Len(Stream)
  BY StreamSeq, LenProperties
<1>3. ~HeaderArrived
  BY <1>1, <1>2, Kinds DEF HeaderArrived, Big
<1>4. ~JunkFirst
  <2>1. Stream # <<>> => 1 \in 1..Len(Stream)
    BY StreamSeq, Beheaded
  <2> QED BY <1>1, <2>1, Kinds DEF JunkFirst
<1>5. ~HeaderValid
  BY <1>1, Kinds DEF HeaderValid
<1>6. ~pushback
  <2>1. pushback => 1 \in 1..Len(Stream) /\ Stream[1] = Start
    BY StreamSeq
  <2> QED BY <1>1, <2>1, Kinds
<1> QED BY <1>3, <1>4, <1>5, <1>6

LEMMA OverGivenUp ==
  ASSUME IInv, Punctual, phase # "command", ObjectFails, host' = host
  PROVE  LineRule' /\ phase' = "command"
<1>1. Types /\ "fail" \in Ends
  BY DEF IInv, Ends
<1> QED BY <1>1, GivenUp, OverLine

LEMMA BadHeaderIn ==
  ASSUME IInv, IInv', Punctual, Punctual', phase = "frame", MidTest,
         HeaderInvalid \/ HeaderTimeout \/ PayloadTimeout
  PROVE  LineRule' /\ (phase' # "command" => MidTest')
<1>1. Recover /\ host' = host /\ Types /\ OneTest'
  BY DEF HeaderInvalid, HeaderTimeout, PayloadTimeout, IInv
<1>2. HeaderInvalid => HeaderArrived
  BY DEF HeaderInvalid
<1>3. ~HeaderInvalid => Quiet
  <2>1. ~HeaderInvalid => TimedOut
    BY DEF HeaderTimeout, PayloadTimeout
  <2>2. "late" \notin ToSet(faults')
    BY DEF Punctual, Only
  <2> QED BY <1>1, <2>1, <2>2, TimeoutFaults
<1>4. CASE obj.window # 1
  BY <1>1, <1>4, OverGivenUp DEF Recover
<1>5. CASE obj.window = 1
  <2>1. /\ host.base = obj.base /\ host.window = obj.window /\ host.base < Frames
        /\ host.state # "result"
    <3>1. obj.base < Frames /\ Frames \in Nat /\ obj.base \in Nat
      BY <1>1, WindowFacts, ObjFields, DueFacts DEF IInv, ObjShape
    <3> QED BY <3>1 DEF MidTest
  <2>2. /\ host.state \in {"ack", "gone"} /\ host.heard < obj.round
        /\ \A j \in 1..Len(toHost) : toHost[j].kind = "ack" /\ ~Fresh(toHost[j])
    <3>0. obj.round \in Nat /\ host.heard \in Int /\ (Quiet => \A j \in 1..Len(toHost) : FALSE)
      <4>1. obj.round \in 0..Rounds /\ host.heard \in -1..Rounds
        BY <1>1, ObjFields, HostFields
      <4>2. Quiet => Len(toHost) = 0
        BY Nothing DEF Quiet
      <4> QED BY <4>1, <4>2
    <3>1. CASE Ready
      <4>1. Stream = <<>> /\ host.heard = -1 /\ host.state \in {"ready", "gone"}
        BY <3>1 DEF Ready
      <4>2. ~HeaderArrived
        BY <4>1 DEF HeaderArrived
      <4>3. toHost = <<>>
        BY <4>2, <1>2, <1>3 DEF Quiet
      <4>4. host.state = "gone"
        BY <3>1, <4>3, Nothing DEF Ready
      <4> QED BY <3>0, <4>1, <4>2, <4>4, <1>2, <1>3
    <3>2. CASE Heard /\ HeardState
      <4>1. host.state = "send" => OnlyConfirms
        BY <3>2, <1>5 DEF HeardState, Burst
      <4>2. host.state # "send"
        BY <4>1, <1>1, <1>2, <1>3, ConfirmsOnly DEF Quiet
      <4>3. host.state \in {"ack", "gone"}
        BY <2>1, <3>2, <4>2 DEF HeardState
      <4>4. host.heard < obj.round
        BY <3>0, <3>2 DEF Heard
      <4> QED BY <3>2, <4>3, <4>4 DEF HeardState
    <3>3. CASE UnheardState
      <4>1. OnlyConfirms /\ host.state \in {"ack", "gone"} /\ host.heard < obj.round - 1
        BY <3>3 DEF UnheardState
      <4>2. Quiet
        BY <4>1, <1>1, <1>2, <1>3, ConfirmsOnly
      <4> QED BY <3>0, <4>1, <4>2
    <3>4. CASE UnheardClean
      BY <3>4 DEF UnheardClean
    <3> QED BY <3>1, <3>2, <3>3, <3>4 DEF MidTest
  <2>3. MidTest'
    BY <1>1, <1>5, <2>1, <2>2, RecoverOne
  <2>4. phase' # "command"
    <3>1. MidTest' => phase' # "command" \/ phase' = "command"
      OBVIOUS
    <3>2. FrameRead(FALSE)
      BY <1>1, <1>5 DEF Recover
    <3> QED BY <3>2 DEF FrameRead
  <2> QED BY <1>1, <2>3, <2>4, MidLine
<1> QED BY <1>4, <1>5

-----------------------------------------------------------------------------
(* A frame that belongs to the window is on the line only after the host has
   heard what it was asked for.                                            *)
LEMMA ValidHeard ==
  ASSUME IInv, phase = "frame", MidTest, HeaderValid
  PROVE  Heard /\ HeardState
<1>1. Types /\ Len(Stream) >= 2 /\ phase # "ack"
  BY HeaderSays DEF IInv
<1>2. ~Ready
  <2>1. Stream = <<>> => Len(Stream) = 0
    BY Nothing
  <2> QED BY <1>1, <2>1 DEF Ready
<1>3. ~UnheardState
  BY <1>1, ConfirmsOnly DEF UnheardState
<1>4. ~UnheardClean
  BY <1>1 DEF UnheardClean
<1> QED BY <1>2, <1>3, <1>4 DEF MidTest

LEMMA DataInvalidIn ==
  ASSUME IInv, IInv', Punctual, Punctual', MidTest, DataInvalid
  PROVE  LineRule' /\ (phase' # "command" => MidTest')
<1>1. /\ phase = "frame" /\ HeaderValid /\ Len(Stream) >= 3 /\ ~OwnData
      /\ FrameRead(FALSE) /\ stored' = stored /\ host' = host
      /\ \E n \in 3..Len(Stream) : Consume(n)
  BY DataInvalidGood
<1>2. PICK n \in 3..Len(Stream) : Consume(n)
  BY <1>1
<1>3. Heard /\ HeardState
  BY <1>1, ValidHeard
<1>4. stored' \in [Slots -> 0..MaxTests] /\ \A s \in Slots : stored[s] # 0 => stored'[s] # 0
  BY <1>1 DEF IInv, Types
<1>5. MidTest'
  BY <1>1, <1>2, <1>3, <1>4, FrameTaken
<1>6. phase' # "command" /\ OneTest'
  BY <1>1 DEF FrameRead, IInv
<1> QED BY <1>5, <1>6, MidLine

LEMMA StoreFrameIn ==
  ASSUME IInv, IInv', Punctual, Punctual', MidTest, StoreFrame
  PROVE  LineRule' /\ (phase' # "command" => MidTest')
<1>1. /\ phase = "frame" /\ HeaderValid /\ Len(Stream) >= 3 /\ OwnData /\ host' = host
      /\ obj.round = 0 /\ stored[Here] # 0 => ObjectFails
      /\ ~(obj.round = 0 /\ stored[Here] # 0) =>
           /\ FrameRead(TRUE) /\ Consume(3) /\ stored'[Here] # 0
           /\ stored' \in [Slots -> 0..MaxTests]
           /\ \A s \in Slots : stored[s] # 0 => stored'[s] # 0
  BY StoreFrameGood
<1>2. CASE obj.round = 0 /\ stored[Here] # 0
  BY <1>1, <1>2, OverGivenUp
<1>3. CASE ~(obj.round = 0 /\ stored[Here] # 0)
  <2>1. Heard /\ HeardState
    BY <1>1, ValidHeard
  <2>2. 3 \in 3..Len(Stream)
    BY <1>1, HeaderSays DEF IInv
  <2>3. MidTest'
    BY <1>1, <1>3, <2>1, <2>2, FrameTaken
  <2>4. phase' # "command" /\ OneTest'
    BY <1>1, <1>3 DEF FrameRead, IInv
  <2> QED BY <2>3, <2>4, MidLine
<1> QED BY <1>2, <1>3

LEMMA DeadlineIn ==
  ASSUME IInv, Punctual, DeadlinePassed
  PROVE  LineRule' /\ (phase' # "command" => MidTest')
<1>1. phase # "command" /\ ObjectFails /\ host' = host
  BY DEF DeadlinePassed
<1> QED BY <1>1, OverGivenUp

(* The test ends with nothing but confirmations under way: no byte was
   pushed back.                                                            *)
LEMMA FinishIn ==
  ASSUME IInv, IInv', Punctual, Punctual', MidTest, FinishObject
  PROVE  LineRule' /\ (phase' # "command" => MidTest')
<1>1. /\ phase = "window" /\ obj.base >= Frames /\ host' = host
      /\ Types /\ ObjShape
  BY DEF FinishObject, IInv
<1>2. CASE ~ObjectVerified
  <2>1. ObjectFails
    BY <1>2 DEF FinishObject
  <2> QED BY <1>1, <2>1, OverGivenUp
<1>3. CASE ObjectVerified
  <2>1. /\ phase' = "command" /\ Say(Reply("pass"))
        /\ toTarget' = toTarget /\ pushback' = pushback
    BY <1>3 DEF FinishObject
  <2>2. obj.base = Frames /\ Frames # 0
    BY <1>1, ObjFields, TransferAssumption
  <2>3. ~Ready /\ ~UnheardState /\ ~UnheardClean /\ host.base = obj.base
    BY <1>1, <2>2 DEF Ready, UnheardState, UnheardClean, MidTest
  <2>4. OnlyConfirms
    BY <2>2, <2>3 DEF MidTest, HeardState, Burst
  <2>5. pushback' = FALSE
    BY <1>1, <2>1, <2>4, ConfirmsOnly DEF Types
  <2>6. Remains /\ "pass" \in Ends
    BY <1>1, <2>1, SameToTarget DEF Ends
  <2> QED BY <1>1, <2>1, <2>5, <2>6, OverLine
<1> QED BY <1>2, <1>3

(* A new window is what the host sends already.                            *)
LEMMA OpenWindowIn ==
  ASSUME IInv, IInv', Punctual, Punctual', MidTest, OpenWindow
  PROVE  LineRule' /\ (phase' # "command" => MidTest')
<1>1. /\ phase = "window" /\ phase' = "frame" /\ host' = host /\ toHost' = toHost
      /\ obj'.pos = 0 /\ obj'.round = 0 /\ obj'.bitmap = {}
      /\ obj'.base = obj.base /\ obj'.window = obj.window /\ Stream' = Stream
      /\ Types /\ ObjShape /\ OneTest'
  BY OpenWindowGood DEF OpenWindow, IInv
<1>2. ~UnheardState /\ ~UnheardClean /\ host.base = obj.base
  BY <1>1 DEF UnheardState, UnheardClean, MidTest
<1>3. CASE Ready
  <2>1. Ready'
    BY <1>1, <1>3 DEF Ready
  <2> QED BY <1>1, <1>2, <2>1, MidLine DEF MidTest
<1>4. CASE Heard /\ HeardState
  <2>1. Heard'
    BY <1>1, <1>4 DEF Heard
  <2>2. Due' = Due
    <3>1. obj.base \in Nat
      BY <1>1, DueFacts
    <3>2. Span(obj.base)' = Span(obj.base)
      BY <1>1 DEF Span
    <3>3. \A s \in Span(obj.base) : s >= obj.base + 0
      BY <3>1 DEF Span
    <3> QED BY <1>1, <3>2, <3>3 DEF Due
  <2>3. /\ JunkFirst' = JunkFirst /\ InOrder' = InOrder /\ OnlyConfirms' = OnlyConfirms
    BY <1>1 DEF JunkFirst, InOrder, Framed, OnlyConfirms
  <2>4. StillDue' = StillDue
    BY <1>1, <2>2 DEF StillDue, Framed, Closing
  <2>5. Burst'
    BY <1>1, <1>4, <2>2, <2>3, <2>4 DEF Burst, HeardState
  <2>6. HeardState'
    BY <1>1, <1>4, <2>3, <2>5 DEF HeardState, Fresh
  <2> QED BY <1>1, <1>2, <2>1, <2>6, MidLine DEF MidTest
<1> QED BY <1>2, <1>3, <1>4 DEF MidTest

-----------------------------------------------------------------------------
(* What is under way remains in order when tokens are read, lost or damaged. *)
LEMMA BurstKept ==
  ASSUME Types, Stream' \in Seq(Tokens), ObjShape, phase # "command", Burst, Due' = Due,
         host'.base = host.base, obj'.window = obj.window,
         host'.state = "send" => host.state = "send" /\ host'.todo \subseteq host.todo,
         OnlyConfirms => OnlyConfirms', JunkFirst => JunkFirst',
         NEW old \in [1..Len(Stream') -> 1..Len(Stream)],
         \A i \in 1..Len(Stream') : /\ Stream'[i] \in {Stream[old[i]], Junk}
                                    /\ Len(Stream') - i <= Len(Stream) - old[i],
         \A i, j \in 1..Len(Stream') : i < j => j - i <= old[j] - old[i]
  PROVE  Burst'
<1>1. /\ Stream \in Seq(Tokens) /\ Stream' \in Seq(Tokens)
      /\ \A i \in 1..Len(Stream') : Stream'[i] \in Tokens
  BY StreamSeq, LenProperties
<1>2. Due \subseteq Nat
  BY DueFacts
<1>3. ASSUME NEW i \in 1..Len(Stream'), Framed(i)' PROVE Stream'[i].sequence > -1
  <2>1. Stream'[i].sequence \in Slots /\ Slots = 0..(Frames - 1)
    BY <1>1, <1>3, Kinds, ObjFields DEF Framed
  <2> QED BY <2>1, TransferAssumption
<1>4. ASSUME ~JunkFirst PROVE InOrder' /\ StillDue'
  <2>1. InOrder /\ StillDue
    BY <1>4 DEF Burst
  <2>2. -1 \in Int /\ \A d \in Due : d > -1 => d \in Due'
    OBVIOUS
  <2> QED BY <1>1, <1>2, <1>3, <2>1, <2>2, FramesKept
<1>5. /\ (host.base = Frames)' => OnlyConfirms'
      /\ (host.state = "send")' => host'.todo \subseteq Due'
      /\ (host.state = "send" /\ obj.window = 1)' => OnlyConfirms'
  BY DEF Burst
<1>6. (~JunkFirst)' => InOrder' /\ StillDue'
  BY <1>4
<1> QED BY <1>5, <1>6 DEF Burst

LEMMA NoneLeft ==
  ASSUME Stream = <<>>
  PROVE  OnlyConfirms /\ InOrder /\ StillDue /\ ~JunkFirst
<1>1. \A i \in 1..Len(Stream) : FALSE
  BY Nothing
<1> QED BY <1>1 DEF OnlyConfirms, InOrder, StillDue, JunkFirst

(* A repetition of what the host has heard says nothing new.               *)
LEMMA Stale ==
  ASSUME Types, ObjShape, phase = "ack", MidTest, Heard
  PROVE  ~Fresh(Ack(obj))
<1>1. /\ Ack(obj).base = obj.base /\ Ack(obj).round = obj.round /\ obj.round \in Nat
  <2>1. obj.round \in 0..Rounds
    BY ObjFields
  <2> QED BY <2>1, AckOfObject
<1>2. CASE obj.bitmap = {}
  <2>1. host.base = Next1
    BY <1>2 DEF Heard
  <2>2. Next1 # obj.base
    <3>1. Count(obj.base, obj.window) \in 1..MaxWindow /\ obj.base \in 0..Frames
      BY WindowFacts, ObjFields
    <3>2. obj.base \in Nat /\ Count(obj.base, obj.window) \in Nat \ {0}
      BY <3>1, TransferAssumption
    <3> QED BY <3>2 DEF Next1
  <2> QED BY <1>1, <2>1, <2>2 DEF Fresh
<1>3. CASE obj.bitmap # {}
  <2>1. host.heard = obj.round
    BY <1>3 DEF Heard
  <2> QED BY <1>1, <2>1 DEF Fresh
<1> QED BY <1>2, <1>3

(* The ACK is taken as heard, and it was.                                  *)
LEMMA OnwardsHeard ==
  ASSUME IInv, phase = "ack", MidTest, Heard, ~RoundsExhausted, Acknowledged, host' = host
  PROVE  /\ phase' \in {"window", "frame"} /\ obj'.window = obj.window
         /\ host.base = obj'.base /\ Heard' /\ Due' = Due /\ toHost' = toHost
<1>1. Types /\ ObjShape /\ TakenStored
  BY DEF IInv
<1>2. /\ obj'.window = obj.window /\ toHost' = toHost
      /\ obj.bitmap = {} => phase' = "window" /\ obj'.base = Next1
      /\ obj.bitmap # {} =>
           /\ phase' = "frame" /\ obj'.base = obj.base /\ obj'.bitmap = obj.bitmap
           /\ obj'.round = obj.round + 1
           /\ obj'.pos \in obj.bitmap /\ \A p \in obj.bitmap : obj'.pos <= p
  BY <1>1, AcknowledgedGood DEF Next1
<1>3. CASE obj.bitmap = {}
  <2>1. host.base = Next1 /\ host.heard = -1
    BY <1>3 DEF Heard
  <2>2. Heard'
    BY <1>2, <1>3, <2>1 DEF Heard
  <2>3. Due' = Span(Next1)
    BY <1>2, <1>3 DEF Due, Span
  <2>4. Due = Span(Next1)
    BY <1>3 DEF Due
  <2> QED BY <1>2, <1>3, <2>1, <2>2, <2>3, <2>4
<1>4. CASE obj.bitmap # {}
  <2>1. host.base = obj.base /\ host.heard = obj.round
    BY <1>4 DEF Heard, MidTest
  <2>2. obj.round \in Nat
    <3>1. obj.round \in 0..Rounds
      BY <1>1, ObjFields
    <3> QED BY <3>1
  <2>3. Heard'
    BY <1>2, <1>4, <2>1, <2>2 DEF Heard
  <2>4. Due = {s \in Span(obj.base) : s - obj.base \in obj.bitmap}
    BY <1>4 DEF Due
  <2>5. Due' = {s \in Span(obj.base) : s >= obj.base + obj'.pos /\ s - obj.base \in obj.bitmap}
    <3>1. obj.round + 1 # 0
      BY <2>2
    <3>2. Span(obj.base)' = Span(obj.base)
      BY <1>2, <1>4 DEF Span
    <3> QED BY <1>2, <1>4, <3>1, <3>2 DEF Due
  <2>6. ASSUME NEW s \in Span(obj.base), s - obj.base \in obj.bitmap
        PROVE  s >= obj.base + obj'.pos
    <3>1. obj'.pos <= s - obj.base
      BY <1>2, <1>4, <2>6
    <3>2. obj.base \in Nat /\ obj'.pos \in Nat /\ s \in Nat
      <4>1. obj.base \in Slots /\ obj.bitmap \subseteq Slots /\ Slots \subseteq Nat
        BY <1>1, WindowFacts, ObjFields
      <4>2. obj.base \in Nat /\ obj'.pos \in Nat
        BY <1>2, <1>4, <4>1
      <4> QED BY <4>2, <2>6 DEF Span
    <3> QED BY <3>1, <3>2
  <2>7. Due' = Due
    BY <2>4, <2>5, <2>6
  <2> QED BY <1>2, <1>4, <2>1, <2>3, <2>7
<1> QED BY <1>3, <1>4

LEMMA ReadConfirmationIn ==
  ASSUME IInv, IInv', Punctual, Punctual', MidTest, ReadConfirmation
  PROVE  LineRule' /\ (phase' # "command" => MidTest')
<1>1. /\ phase = "ack" /\ Stream # <<>> /\ Stream[1] \in {Confirm, Start} /\ host' = host
      /\ Head(Stream) = Stream[1]
      /\ RoundsExhausted => ObjectFails
      /\ ~RoundsExhausted =>
           Acknowledged /\ IF Stream[1] = Start THEN KeepStart ELSE Consume(1)
      /\ Types /\ ObjShape /\ TakenStored /\ OneTest'
  BY ReadConfirmationGood DEF IInv
<1>2. CASE RoundsExhausted
  BY <1>1, <1>2, OverGivenUp
<1>3. CASE ~RoundsExhausted
  <2>1. /\ Acknowledged
        /\ Stream[1] = Start => KeepStart
        /\ Stream[1] # Start => Consume(1)
    BY <1>1, <1>3
  <2>2. phase' # "command"
    BY <1>1, <1>3, <2>1, AcknowledgedGood
  <2>3. /\ Len(Stream) \in Nat \ {0} /\ Stream \in Seq(Tokens)
    BY <1>1, StreamSeq, Beheaded
  <2>4. /\ Stream' \in Seq(Tokens)
        /\ \E h \in 0..1 : /\ Len(Stream') = Len(Stream) - h
                           /\ \A i \in 1..Len(Stream') : Stream'[i] = Stream[i + h]
    <3>1. CASE Stream[1] = Start
      <4>1. /\ Stream' \in Seq(Tokens) /\ Len(Stream') = Len(Stream)
            /\ \A i \in 1..Len(Stream) : Stream'[i] = Stream[i]
        BY <1>1, <2>1, <3>1, StartKept
      <4>2. /\ Len(Stream') = Len(Stream) - 0
            /\ \A i \in 1..Len(Stream') : Stream'[i] = Stream[i + 0]
        BY <2>3, <4>1
      <4>3. 0 \in 0..1
        OBVIOUS
      <4> QED BY <4>1, <4>2, <4>3
    <3>2. CASE Stream[1] # Start
      <4>1. 1 \in 0..Len(Stream)
        BY <2>3
      <4>2. /\ Stream' \in Seq(Tokens) /\ Len(Stream') = Len(Stream) - 1
            /\ \A i \in 1..(Len(Stream) - 1) : Stream'[i] = Stream[1 + i]
        BY <1>1, <2>1, <3>2, <4>1, Consumed
      <4>3. \A i \in 1..Len(Stream') : Stream'[i] = Stream[i + 1]
        BY <2>3, <4>2
      <4>4. 1 \in 0..1
        OBVIOUS
      <4> QED BY <4>2, <4>3, <4>4
    <3> QED BY <3>1, <3>2
  <2>5. PICK h \in 0..1 : /\ Len(Stream') = Len(Stream) - h
                          /\ \A i \in 1..Len(Stream') : Stream'[i] = Stream[i + h]
    BY <2>4
  <2>6. OnlyConfirms => OnlyConfirms'
    <3>1. \A i \in 1..Len(Stream') : i + h \in 1..Len(Stream)
      BY <2>3, <2>5
    <3> QED BY <2>5, <3>1 DEF OnlyConfirms
  <2>7. ~JunkFirst /\ ~Ready /\ ~UnheardClean
    BY <1>1, Kinds DEF JunkFirst, Ready, UnheardClean
  <2>8. CASE UnheardState
    <3>1. obj.bitmap # {} /\ host.base = obj.base /\ host.state # "result"
      BY <2>8 DEF UnheardState
    <3>2. /\ phase' = "frame" /\ obj'.base = obj.base /\ obj'.bitmap = obj.bitmap
          /\ obj'.round = obj.round + 1 /\ obj'.window = obj.window /\ toHost' = toHost
      BY <1>1, <1>3, <2>1, <3>1, AcknowledgedGood
    <3>3. obj.round \in Nat
      <4>1. obj.round \in 0..Rounds
        BY <1>1, ObjFields
      <4> QED BY <4>1
    <3>4. /\ (host.base = obj.base)' /\ (host.state \in {"ack", "gone"})'
          /\ (phase = "frame")' /\ (obj.bitmap # {})' /\ (obj.window = 1)' /\ OnlyConfirms'
          /\ host'.heard < obj'.round - 1
      BY <1>1, <2>6, <2>8, <3>2, <3>3 DEF UnheardState
    <3>5. ASSUME NEW j \in 1..Len(toHost')
          PROVE  /\ toHost'[j].kind = "ack"
                 /\ Fresh(toHost[j])' => /\ j = Len(toHost') /\ toHost'[j].bitmap = obj'.bitmap
                                         /\ toHost'[j].round = obj'.round - 1
      <4>1. Fresh(toHost[j])' = Fresh(toHost[j])
        BY <1>1, <3>2 DEF Fresh
      <4>2. obj'.round - 1 = obj.round
        BY <3>2, <3>3
      <4> QED BY <1>1, <2>8, <3>2, <4>1, <4>2 DEF UnheardState
    <3>6. UnheardState'
      BY <3>4, <3>5 DEF UnheardState
    <3>7. MidTest'
      BY <1>1, <3>1, <3>2, <3>6 DEF MidTest
    <3> QED BY <1>1, <2>2, <3>7, MidLine
  <2>9. CASE Heard /\ HeardState
    <3>1. /\ phase' \in {"window", "frame"} /\ obj'.window = obj.window
          /\ host.base = obj'.base /\ Heard' /\ Due' = Due /\ toHost' = toHost
      BY <1>1, <1>3, <2>1, <2>9, OnwardsHeard
    <3>2. toHost' = <<>> /\ host.state \in {"send", "ack", "result", "gone"} /\ Burst
      BY <1>1, <2>7, <2>9, <3>1 DEF HeardState
    <3>3. Burst'
      <4> DEFINE old == [i \in 1..Len(Stream') |-> i + h]
      <4>1. old \in [1..Len(Stream') -> 1..Len(Stream)]
        BY <2>3, <2>5
      <4>2. \A i \in 1..Len(Stream') : /\ Stream'[i] \in {Stream[old[i]], Junk}
                                       /\ Len(Stream') - i <= Len(Stream) - old[i]
        BY <2>3, <2>5
      <4>3. \A i, j \in 1..Len(Stream') : i < j => j - i <= old[j] - old[i]
        BY <2>3, <2>5
      <4> HIDE DEF old
      <4> QED BY <1>1, <2>4, <2>6, <2>7, <3>1, <3>2, <4>1, <4>2, <4>3, BurstKept
    <3>4. HeardState'
      BY <1>1, <3>2, <3>3, Nothing DEF HeardState
    <3>5. MidTest'
      BY <1>1, <3>1, <3>4 DEF MidTest
    <3> QED BY <1>1, <2>2, <3>5, MidLine
  <2> QED BY <2>7, <2>8, <2>9 DEF MidTest
<1> QED BY <1>2, <1>3

(* The ACK is repeated: Due and what the host has heard of it do not change. *)
LEMMA AgainSame ==
  ASSUME IInv, phase = "ack", obj.attempt < AckTries, AckAgain, host' = host
  PROVE  /\ phase' = "ack" /\ obj'.window = obj.window /\ obj'.base = obj.base
         /\ obj'.round = obj.round /\ obj'.bitmap = obj.bitmap
         /\ Ack(obj') = Ack(obj) /\ Say(Ack(obj))
         /\ Due' = Due /\ Heard' = Heard /\ Next1' = Next1
<1>1. /\ phase' = "ack" /\ obj'.window = obj.window /\ obj'.base = obj.base
      /\ obj'.round = obj.round /\ obj'.bitmap = obj.bitmap
      /\ Ack(obj') = Ack(obj) /\ Say(Ack(obj))
  BY AckAgainGood DEF IInv
<1>2. Next1' = Next1
  BY <1>1 DEF Next1
<1>3. Span(obj.base)' = Span(obj.base) /\ Span(Next1)' = Span(Next1)
  BY <1>1, <1>2 DEF Span
<1>4. Due' = Due
  BY <1>1, <1>3 DEF Due
<1>5. Heard' = Heard
  BY <1>1, <1>2 DEF Heard
<1> QED BY <1>1, <1>2, <1>4, <1>5

LEMMA AckTimeoutIn ==
  ASSUME IInv, IInv', Punctual, Punctual', MidTest, AckTimeout
  PROVE  LineRule' /\ (phase' # "command" => MidTest')
<1>1. /\ phase = "ack" /\ Stream = <<>> /\ TimedOut /\ AckAgain /\ host' = host
      /\ Stream' = <<>> /\ Types /\ ObjShape /\ OneTest'
  BY AckTimeoutGood DEF IInv
<1>2. toHost = <<>> /\ host.state # "send"
  BY <1>1, PunctualBack, TimeoutFaults, AckTimeoutGood DEF Punctual, Only, Quiet
<1>3. CASE ~(obj.attempt < AckTries)
  <2>1. ObjectFails
    BY <1>1, <1>3 DEF AckAgain
  <2> QED BY <1>1, <2>1, OverGivenUp
<1>4. CASE obj.attempt < AckTries
  <2>1. /\ phase' = "ack" /\ obj'.window = obj.window /\ obj'.base = obj.base
        /\ obj'.round = obj.round /\ obj'.bitmap = obj.bitmap
        /\ Ack(obj') = Ack(obj) /\ Say(Ack(obj))
        /\ Due' = Due /\ Heard' = Heard /\ Next1' = Next1
    BY <1>1, <1>4, AgainSame
  <2>2. /\ host.state = "gone" => toHost' = <<>>
        /\ host.state # "gone" => toHost' = <<Ack(obj)>>
    BY <1>2, <2>1, Nothing DEF Say
  <2>3. OnlyConfirms' /\ InOrder' /\ StillDue' /\ ~JunkFirst'
    <3>1. \A i \in 1..Len(Stream') : FALSE
      BY <1>1, Nothing
    <3> QED BY <1>1, <3>1 DEF OnlyConfirms, InOrder, StillDue, JunkFirst
  <2>4. /\ Ack(obj).kind = "ack" /\ Ack(obj).round = obj.round
        /\ Ack(obj).bitmap = obj.bitmap
    BY <1>1, AckOfObject
  <2>5. ASSUME NEW j \in 1..Len(toHost')
        PROVE  /\ j = 1 /\ Len(toHost') = 1 /\ toHost'[j] = Ack(obj) /\ host.state # "gone"
    <3>1. host.state # "gone"
      BY <2>2, <2>5, Nothing
    <3>2. toHost' = <<Ack(obj)>>
      BY <2>2, <3>1
    <3>3. Len(toHost') = 1 /\ toHost'[1] = Ack(obj)
      BY <3>2, Nothing
    <3>4. j = 1
      BY <2>5, <3>3
    <3> QED BY <3>1, <3>3, <3>4
  <2>6. /\ (host.window = obj.window)'
        /\ (host.state # "gone" => (host.state = "result" <=> host.base = Frames))'
        /\ (host.base = obj.base \/ (phase = "ack" /\ obj.bitmap = {} /\ host.base = Next1))'
    BY <1>1, <2>1 DEF MidTest
  <2>7. ASSUME Heard /\ HeardState PROVE MidTest'
    <3>1. host.state \in {"ack", "result", "gone"}
      BY <1>2, <2>7 DEF HeardState
    <3>2. Burst'
      BY <1>1, <2>3, <3>1 DEF Burst
    <3>3. ~Fresh(Ack(obj))
      BY <1>1, <2>7, Stale
    <3>4. ASSUME NEW j \in 1..Len(toHost')
          PROVE  (toHost[j].kind = "ack")' /\ ~Fresh(toHost[j])'
      <4>1. toHost'[j] = Ack(obj)
        BY <2>5
      <4>2. Fresh(toHost[j])' = Fresh(Ack(obj))
        BY <1>1, <4>1 DEF Fresh
      <4> QED BY <2>4, <3>3, <4>1, <4>2
    <3>5. toHost' # <<>> => Len(toHost') = 1 /\ host.state # "gone"
      BY <2>2, Nothing
    <3>6. HeardState'
      BY <1>1, <2>1, <3>1, <3>2, <3>4, <3>5 DEF HeardState
    <3> QED BY <2>1, <2>6, <2>7, <3>6 DEF MidTest
  <2>8. ASSUME UnheardState PROVE MidTest'
    <3>1. ASSUME NEW j \in 1..Len(toHost')
          PROVE  (toHost[j].kind = "ack")'
                   /\ (j = Len(toHost) /\ toHost[j].bitmap = obj.bitmap
                         /\ toHost[j].round = obj.round)'
      BY <2>1, <2>4, <2>5
    <3>2. /\ (host.base = obj.base /\ host.state \in {"ack", "gone"})'
          /\ (phase = "ack" /\ obj.bitmap # {} /\ obj.window = 1 /\ host.heard < obj.round)'
      BY <1>1, <2>1, <2>8 DEF UnheardState
    <3>3. UnheardState'
      BY <2>3, <3>1, <3>2 DEF UnheardState
    <3> QED BY <2>6, <3>3 DEF MidTest
  <2>9. ASSUME UnheardClean PROVE MidTest'
    <3>1. UnheardClean'
      BY <1>1, <2>1, <2>2, <2>9 DEF UnheardClean
    <3> QED BY <2>6, <3>1 DEF MidTest
  <2>10. MidTest'
    BY <1>1, <2>7, <2>8, <2>9 DEF MidTest, Ready
  <2> QED BY <1>1, <2>1, <2>10, MidLine
<1> QED BY <1>3, <1>4

(* The middle of a frame in place of a confirmation: the host has heard the
   ACK, or it would not have sent that frame.                              *)
LEMMA ReadOtherByteIn ==
  ASSUME IInv, IInv', Punctual, Punctual', MidTest, ReadOtherByte
  PROVE  LineRule' /\ (phase' # "command" => MidTest')
<1>1. /\ phase = "ack" /\ Stream # <<>> /\ Stream[1] \notin {Confirm, Start}
      /\ host' = host /\ Types /\ ObjShape /\ OneTest'
      /\ \/ ObjectFails
         \/ /\ phase' # "command"
            /\ (obj.attempt < AckTries /\ AckAgain) \/ (~RoundsExhausted /\ Acknowledged)
            /\ Len(Stream') = Len(Stream) /\ Stream'[1] = Junk
  BY ReadOtherByteGood DEF IInv
<1>2. Len(Stream) \in Nat \ {0} /\ 1 \in 1..Len(Stream)
  BY <1>1, StreamSeq, Beheaded
<1>3. ~OnlyConfirms /\ ~Ready /\ ~UnheardState /\ ~UnheardClean
  BY <1>1, <1>2 DEF OnlyConfirms, Ready, UnheardState, UnheardClean
<1>4. Heard /\ HeardState
  BY <1>3 DEF MidTest
<1>5. CASE ObjectFails
  BY <1>1, <1>5, OverGivenUp
<1>6. CASE /\ phase' # "command"
           /\ (obj.attempt < AckTries /\ AckAgain) \/ (~RoundsExhausted /\ Acknowledged)
           /\ Len(Stream') = Len(Stream) /\ Stream'[1] = Junk
  <2>1. JunkFirst'
    <3>1. Stream' # <<>>
      BY <1>2, <1>6, Nothing
    <3> QED BY <1>6, <3>1 DEF JunkFirst
  <2>2. /\ Due' = Due /\ Heard' /\ obj'.window = obj.window
        /\ toHost' = toHost \/ Say(Ack(obj))
        /\ host.base = obj'.base \/ (phase' = "ack" /\ obj'.bitmap = {} /\ host.base = Next1')
    <3>1. CASE obj.attempt < AckTries /\ AckAgain
      BY <1>1, <1>4, <3>1, AgainSame DEF MidTest
    <3>2. CASE ~RoundsExhausted /\ Acknowledged
      BY <1>1, <1>4, <3>2, OnwardsHeard
    <3> QED BY <1>6, <3>1, <3>2
  <2>3. Burst'
    BY <1>1, <1>3, <1>4, <2>1, <2>2 DEF HeardState, Burst
  <2>4. ASSUME NEW j \in 1..Len(toHost')
        PROVE  (toHost[j].kind = "ack")' /\ ~Fresh(toHost[j])'
    <3>1. Ack(obj) \in Lines /\ Ack(obj).kind = "ack" /\ ~Fresh(Ack(obj))
      BY <1>1, <1>4, AckOfObject, Stale
    <3>2. toHost'[j] = Ack(obj) \/ (j \in 1..Len(toHost) /\ toHost'[j] = toHost[j])
      <4>1. CASE toHost' = toHost
        BY <4>1, <2>4
      <4>2. CASE Say(Ack(obj))
        <5>1. /\ host.state = "gone" => toHost' = <<>>
              /\ host.state # "gone" =>
                   /\ Len(toHost') = Len(toHost) + 1
                   /\ \A i \in 1..Len(toHost) : toHost'[i] = toHost[i]
                   /\ toHost'[Len(toHost) + 1] = Ack(obj)
          BY <1>1, <3>1, <4>2, Said
        <5>2. host.state # "gone"
          BY <2>4, <5>1, Nothing
        <5>3. j \in 1..Len(toHost) \/ j = Len(toHost) + 1
          BY <1>1, <2>4, <5>1, <5>2, HostFields
        <5> QED BY <5>1, <5>2, <5>3
      <4> QED BY <2>2, <4>1, <4>2
    <3>3. toHost'[j].kind = "ack" /\ ~Fresh(toHost'[j])
      BY <1>4, <3>1, <3>2 DEF HeardState
    <3>4. Fresh(toHost[j])' = Fresh(toHost'[j])
      BY <1>1 DEF Fresh
    <3> QED BY <3>3, <3>4
  <2>5. HeardState'
    BY <1>1, <1>4, <2>1, <2>3, <2>4 DEF HeardState
  <2>6. MidTest'
    BY <1>1, <2>2, <2>5 DEF MidTest
  <2> QED BY <1>1, <1>6, <2>6, MidLine
<1> QED BY <1>1, <1>5, <1>6

-----------------------------------------------------------------------------
(* What the host does in step.                                             *)

LEMMA SameDue ==
  ASSUME phase' = phase, obj' = obj
  PROVE  Due' = Due /\ Next1' = Next1
BY DEF Due, Next1, Span

LEMMA StreamSent ==
  ASSUME Types, NEW x \in Seq(Tokens), Send(x), pushback' = pushback
  PROVE  /\ Stream' \in Seq(Tokens) /\ Len(x) \in Nat /\ Len(Stream) \in Nat
         /\ Len(Stream') = Len(Stream) + Len(x)
         /\ \A i \in 1..Len(Stream) : Stream'[i] = Stream[i]
         /\ \A i \in 1..Len(x) : Stream'[Len(Stream) + i] = x[i]
         /\ \A i \in 1..Len(Stream') :
              i \in 1..Len(Stream) \/ i - Len(Stream) \in 1..Len(x)
<1> DEFINE head == IF pushback THEN <<Start>> ELSE <<>>
<1>1. /\ head \in Seq(Tokens) /\ toTarget \in Seq(Tokens)
      /\ head \o toTarget = Stream
  BY Kinds DEF Types, Stream
<1>2. Stream' = head \o (toTarget \o x)
  BY DEF Send, Stream
<1> HIDE DEF head
<1>3. head \o (toTarget \o x) = (head \o toTarget) \o x
  <2>1. \A a, b, c \in Seq(Tokens) : (a \o b) \o c = a \o (b \o c)
    BY ConcatAssociative
  <2> QED BY <1>1, <2>1
<1>4. Stream' = Stream \o x /\ Stream \in Seq(Tokens)
  BY <1>1, <1>2, <1>3, StreamSeq
<1>5. /\ Stream \o x \in Seq(Tokens) /\ Len(Stream \o x) = Len(Stream) + Len(x)
      /\ Len(Stream) \in Nat /\ Len(x) \in Nat
      /\ \A i \in 1..(Len(Stream) + Len(x)) :
           (Stream \o x)[i] = IF i <= Len(Stream) THEN Stream[i] ELSE x[i - Len(Stream)]
  BY <1>4, ConcatProperties, LenProperties
<1>6. ASSUME NEW i \in 1..Len(x) PROVE (Stream \o x)[Len(Stream) + i] = x[i]
  <2>1. /\ Len(Stream) + i \in 1..(Len(Stream) + Len(x)) /\ ~(Len(Stream) + i <= Len(Stream))
        /\ (Len(Stream) + i) - Len(Stream) = i
    BY <1>5
  <2> QED BY <2>1, <1>5
<1>7. \A i \in 1..Len(Stream) : (Stream \o x)[i] = Stream[i]
  BY <1>5
<1>8. \A i \in 1..(Len(Stream) + Len(x)) :
        i \in 1..Len(Stream) \/ i - Len(Stream) \in 1..Len(x)
  BY <1>5
<1> QED BY <1>4, <1>5, <1>6, <1>7, <1>8

LEMMA ConfirmsInOrder ==
  ASSUME OnlyConfirms'
  PROVE  InOrder' /\ StillDue'
<1>1. \A i \in 1..Len(Stream') : ~Framed(i)'
  BY Kinds DEF OnlyConfirms, Framed
<1> QED BY <1>1 DEF InOrder, StillDue

(* The host reads a line: the target has not been asked for anything.      *)
LEMMA HostLine ==
  ASSUME IInv, LineRule, toHost # <<>>, toHost' = Tail(toHost), LineFollows,
         phase' = phase, pushback' = pushback,
         host'.state = "idle" => host.state = "idle" \/ toHost' = <<>>
  PROVE  LineRule'
<1>1. Types
  BY DEF IInv
<1>2. \A i \in 1..Len(toTarget) : ~Asked(i)
  BY DEF LineRule
<1>3. ASSUME NEW i \in 1..Len(toTarget') PROVE ~Asked(i)'
  <2>1. PICK old \in [1..Len(toTarget') -> Nat] : LineFrom(old)
    BY DEF LineFollows
  <2>2. CASE old[i] # 0
    <3>1. old[i] \in 1..Len(toTarget) /\ (toTarget'[i] = toTarget[old[i]] \/ toTarget'[i] = Junk)
      BY <2>1, <2>2 DEF LineFrom
    <3> QED BY <3>1, <1>2, Kinds DEF Asked
  <2>3. CASE old[i] = 0
    BY <2>1, <2>3 DEF LineFrom, Asked
  <2> QED BY <2>2, <2>3
<1>4. ASSUME NEW j \in 1..Len(toHost'), Ended(j)' PROVE j = Len(toHost')
  <2>1. /\ Len(toHost) \in Nat \ {0} /\ Len(toHost') = Len(toHost) - 1
        /\ \A m \in 1..(Len(toHost) - 1) : toHost'[m] = toHost[m + 1]
    BY <1>1, HeardLine
  <2>2. j + 1 \in 1..Len(toHost) /\ Ended(j + 1)
    BY <1>4, <2>1 DEF Ended
  <2>3. j + 1 = Len(toHost)
    BY <2>2 DEF LineRule
  <2>4. j \in Nat /\ Len(toHost) \in Nat /\ Len(toHost') = Len(toHost) - 1
    BY <2>1
  <2>5. \A l, m \in Nat : m + 1 = l => m = l - 1
    OBVIOUS
  <2> QED BY <2>3, <2>4, <2>5
<1>5. host'.state = "idle" => toHost' = <<>>
  BY DEF LineRule
<1>6. (pushback => phase # "command")'
  BY DEF LineRule
<1> QED BY <1>3, <1>4, <1>5, <1>6 DEF LineRule

LEMMA ReadCommandIn ==
  ASSUME IInv, IInv', Punctual, Punctual', LineRule, ReadCommand
  PROVE  LineRule' /\ (phase' # "command" => MidTest' /\ Ready')
<1>1. /\ Types /\ OneTest' /\ phase = "command" /\ pushback' = pushback /\ host' = host
      /\ \E k \in 1..Len(toTarget) :
           /\ Asked(k) /\ Len(toTarget') = Len(toTarget) - k
           /\ \/ /\ phase' = "window" /\ obj'.window = toTarget[k].window
                 /\ obj'.base = 0 /\ Say(Reply("ready"))
              \/ phase' = "command" /\ Say(Reply("unknown"))
  BY ReadCommandGood DEF IInv
<1>2. PICK k \in 1..Len(toTarget) :
           /\ Asked(k) /\ Len(toTarget') = Len(toTarget) - k
           /\ \/ /\ phase' = "window" /\ obj'.window = toTarget[k].window
                 /\ obj'.base = 0 /\ Say(Reply("ready"))
              \/ phase' = "command" /\ Say(Reply("unknown"))
  BY <1>1
<1>3. /\ k = Len(toTarget) /\ toHost = <<>> /\ host.state \in {"ready", "gone"}
      /\ host.base = 0 /\ host.heard = -1 /\ toTarget[k].window = host.window
  BY <1>2 DEF LineRule
<1>4. pushback' = FALSE /\ toTarget' \in Seq(Tokens)
  BY <1>1 DEF LineRule, Types, IInv
<1>5. Len(toTarget') = 0 /\ toTarget' = <<>>
  BY <1>1, <1>2, <1>3, <1>4, Nothing, HostFields
<1>6. Stream' = <<>>
  BY <1>4, <1>5, LineOnly
<1>7. CASE phase' = "window" /\ obj'.window = toTarget[k].window
             /\ obj'.base = 0 /\ Say(Reply("ready"))
  <2>1. toHost' = IF host.state = "gone" THEN <<>> ELSE <<Reply("ready")>>
    BY <1>3, <1>7, Nothing DEF Say
  <2>2. Ready'
    BY <1>1, <1>3, <1>6, <1>7, <2>1 DEF Ready
  <2>3. Frames # 0
    BY TransferAssumption
  <2>4. MidTest'
    BY <1>1, <1>3, <1>7, <2>2, <2>3 DEF MidTest
  <2> QED BY <1>1, <1>7, <2>2, <2>4, MidLine
<1>8. CASE phase' = "command" /\ Say(Reply("unknown"))
  <2>1. toHost' = <<>> \/ toHost' = <<Reply("unknown")>>
    BY <1>3, <1>8, Nothing DEF Say
  <2>2. \A j \in 1..Len(toHost') : j = Len(toHost')
    <3>1. CASE toHost' = <<>>
      BY <3>1, Nothing
    <3>2. CASE toHost' = <<Reply("unknown")>>
      BY <3>2, Nothing
    <3> QED BY <2>1, <3>1, <3>2
  <2>3. \A i \in 1..Len(toTarget') : FALSE
    BY <1>5
  <2>4. host'.state # "idle"
    BY <1>1, <1>3
  <2> QED BY <1>4, <1>8, <2>2, <2>3, <2>4 DEF LineRule
<1> QED BY <1>2, <1>7, <1>8

LEMMA HostCommandIn ==
  ASSUME IInv, IInv', Punctual, Punctual', LineRule, HostCommand,
         UNCHANGED <<phase, obj, stored, pushback, outcome, faults>>
  PROVE  LineRule' /\ phase = "command"
<1>1. Types /\ "giveup" \notin ToSet(faults)
  BY DEF IInv, Punctual, Only
<1>2. host.state = "idle" /\ toHost' = toHost
  BY DEF HostCommand
<1>3. phase = "command" /\ toHost = <<>> /\ \A i \in 1..Len(toTarget) : ~Asked(i)
  BY <1>1, <1>2 DEF IInv, OneTest, LineRule
<1>4. PICK w \in Windows :
        /\ host' = [host EXCEPT !.state = "ready", !.test = @ + 1, !.window = w,
                                !.base = 0, !.todo = {}, !.heard = -1]
        /\ Send(<<Start, Command(host.test + 1, w)>>)
  BY DEF HostCommand
<1> DEFINE x == <<Start, Command(host.test + 1, w)>>
<1>5. /\ Len(x) = 2 /\ x[1] = Start /\ x[2] = Command(host.test + 1, w) /\ x \in Seq(Tokens)
  <2>1. Command(host.test + 1, w) \in Tokens
    <3>1. host.test + 1 \in Tests
      <4>1. host.test \in 0..MaxTests /\ host.test < MaxTests /\ MaxTests \in Nat
        BY <1>1, HostFields, TransferAssumption DEF HostCommand
      <4> QED BY <4>1 DEF Tests
    <3> QED BY <3>1 DEF Tokens, Command
  <2> QED BY <2>1, Kinds
<1>6. Send(x)
  BY <1>4
<1> HIDE DEF x
<1>7. /\ Len(toTarget') = Len(toTarget) + 2 /\ Len(toTarget) \in Nat
      /\ \A i \in 1..Len(toTarget) : toTarget'[i] = toTarget[i]
      /\ \A i \in 1..2 : toTarget'[Len(toTarget) + i] = x[i]
      /\ \A i \in 1..Len(toTarget') : i \in 1..Len(toTarget) \/ i - Len(toTarget) \in 1..2
  BY <1>1, <1>5, <1>6, Sent, HostFields
<1>8. ASSUME NEW i \in 1..Len(toTarget'), Asked(i)'
      PROVE  i = Len(toTarget') /\ toTarget'[i].window = w
  <2>1. i \notin 1..Len(toTarget)
    BY <1>3, <1>7, <1>8 DEF Asked
  <2>2. i = Len(toTarget) + 1 \/ i = Len(toTarget) + 2
    BY <1>7, <2>1
  <2>3. i # Len(toTarget) + 1
    <3>1. toTarget'[Len(toTarget) + 1] = Start
      BY <1>5, <1>7
    <3> QED BY <1>8, <3>1, Kinds DEF Asked
  <2>4. toTarget'[Len(toTarget) + 2] = Command(host.test + 1, w)
    BY <1>5, <1>7
  <2> QED BY <1>7, <2>2, <2>3, <2>4 DEF Command
<1>9. host'.state = "ready" /\ host'.base = 0 /\ host'.heard = -1 /\ host'.window = w
  BY <1>1, <1>4 DEF Types, Hosts
<1>10. \A j \in 1..Len(toHost') : FALSE
  BY <1>2, <1>3, Nothing
<1>11. phase' = "command" /\ phase = "command" /\ pushback' = FALSE
  BY <1>1, <1>3 DEF LineRule, Types
<1> QED BY <1>2, <1>3, <1>8, <1>9, <1>10, <1>11 DEF LineRule

LEMMA HostBeginIn ==
  ASSUME IInv, IInv', Punctual, Punctual', LineRule, phase # "command" => MidTest, HostBegin,
         UNCHANGED <<phase, obj, stored, pushback, outcome, faults>>
  PROVE  LineRule' /\ (phase' # "command" => MidTest')
<1>1. /\ Types /\ ObjShape /\ toHost # <<>> /\ toHost' = Tail(toHost) /\ toTarget' = toTarget
      /\ host.state = "ready" /\ host'.state = "send" /\ host'.todo = WindowOf(0)
      /\ host'.window = host.window /\ host'.base = host.base /\ host'.heard = host.heard
  BY HostBeginGood DEF IInv
<1>2. LineRule'
  BY <1>1, HostLine, LineSame
<1>3. ASSUME phase # "command" PROVE MidTest'
  <2>1. Ready
    BY <1>1, <1>3 DEF MidTest, HeardState, UnheardState, UnheardClean
  <2>2. /\ Stream' = <<>> /\ toHost = <<Reply("ready")>> /\ host.base = 0 /\ obj.base = 0
        /\ host.heard = -1
    BY <1>1, <2>1, SameToTarget DEF Ready
  <2>3. toHost' = <<>>
    BY <1>1, <2>2
  <2>4. OnlyConfirms'
    BY <2>2, Nothing DEF OnlyConfirms
  <2>5. Heard'
    BY <1>1, <2>1, <2>2 DEF Ready, Heard
  <2>6. Due' = Due /\ Due = WindowOf(0)
    <3>1. WindowOf(0) = Span(obj.base)
      BY <1>3, <2>2 DEF WindowOf, Span, MidTest
    <3>2. Due = Span(obj.base)
      <4>1. phase = "frame" => obj.round = 0 /\ obj.pos = 0
        BY <2>1 DEF Ready
      <4>2. \A s \in Span(obj.base) : s >= obj.base + 0
        BY <2>2 DEF Span
      <4> QED BY <2>1, <4>1, <4>2 DEF Due, Ready
    <3> QED BY <3>1, <3>2, SameDue
  <2>7. Burst'
    <3>1. ~(host'.base = Frames)
      BY <1>1, <2>2, TransferAssumption
    <3> QED BY <1>1, <2>4, <2>6, <3>1, ConfirmsInOrder DEF Burst
  <2>8. HeardState'
    <3>1. \A j \in 1..Len(toHost') : FALSE
      BY <2>3, Nothing
    <3>2. (host.state \in {"send", "ack", "result", "gone"})'
      BY <1>1
    <3> QED BY <2>3, <2>7, <3>1, <3>2 DEF HeardState
  <2>9. /\ (host.window = obj.window)' /\ (host.base = obj.base)'
        /\ host'.state # "result" /\ host'.base # Frames
    BY <1>1, <1>3, <2>2, TransferAssumption DEF MidTest
  <2> QED BY <2>5, <2>8, <2>9 DEF MidTest
<1> QED BY <1>2, <1>3

(* In a window of one frame one slot is due.                               *)
LEMMA OneDue ==
  ASSUME Types, ObjShape, phase # "command", obj.window = 1
  PROVE  \A d, e \in Due : d = e
<1>1. obj.base \in Nat /\ Next1 \in Nat /\ Frames \in Nat
  <2>1. obj.base \in 0..Frames /\ Next1 \in 0..Frames /\ Frames \in Nat
    BY DueFacts
  <2> QED BY <2>1
<1>2. \A b \in Nat : \A d, e \in Span(b) : d = e
  BY <1>1 DEF Span, Count
<1> QED BY <1>1, <1>2 DEF Due

LEMMA HostSendIn ==
  ASSUME IInv, IInv', Punctual, Punctual', LineRule, phase # "command" => MidTest, HostSend,
         UNCHANGED <<phase, obj, stored, pushback, outcome, faults>>
  PROVE  LineRule' /\ (phase' # "command" => MidTest')
<1> DEFINE s == Least(host.todo)
           x == FrameTokens(s, host.test)
<1>1. /\ Types /\ ObjShape /\ host.state = "send" /\ toHost' = toHost
      /\ s \in host.todo /\ \A d \in host.todo : s <= d
      /\ Send(x) /\ x \in Seq(Tokens)
      /\ host'.todo = host.todo \ {s}
      /\ host'.state = IF host'.todo = {} THEN "ack" ELSE "send"
      /\ host'.window = host.window /\ host'.base = host.base
      /\ host'.heard = host.heard
  BY HostSendGood DEF IInv
<1>2. x = <<Start, Rest(s, host.test), Data(s, host.test)>>
  BY DEF FrameTokens
<1> HIDE DEF s, x
<1>3. /\ Len(x) = 3 /\ x[1] = Start /\ x[2] = Rest(s, host.test) /\ x[3] = Data(s, host.test)
  BY <1>2
<1>4. /\ x[1].kind = "start"
      /\ x[2].kind = "rest" /\ x[2].sequence = s
      /\ x[3].kind = "data" /\ x[3].sequence = s
  BY <1>3, Kinds DEF Rest, Data
<1>5. LineRule'
  <2>1. \A i \in 1..Len(toTarget) : ~Asked(i)
    BY <1>1 DEF LineRule
  <2>2. /\ \A i \in 1..Len(toTarget) : toTarget'[i] = toTarget[i]
        /\ \A i \in 1..3 : toTarget'[Len(toTarget) + i] = x[i]
        /\ \A i \in 1..Len(toTarget') : i \in 1..Len(toTarget) \/ i - Len(toTarget) \in 1..3
        /\ Len(toTarget) \in Nat
    BY <1>1, <1>3, Sent, HostFields
  <2>3. ASSUME NEW i \in 1..Len(toTarget') PROVE ~Asked(i)'
    <3>1. CASE i \in 1..Len(toTarget)
      BY <2>1, <2>2, <3>1 DEF Asked
    <3>2. CASE i - Len(toTarget) \in 1..3
      <4> DEFINE m == i - Len(toTarget)
      <4>1. m \in 1..3 /\ i = Len(toTarget) + m
        BY <2>2, <3>2
      <4> HIDE DEF m
      <4>2. toTarget'[i] = x[m] /\ m \in {1, 2, 3}
        BY <2>2, <4>1
      <4> QED BY <1>4, <4>2 DEF Asked
    <3> QED BY <2>2, <3>1, <3>2
  <2> QED BY <1>1, <2>3 DEF LineRule, Ended
<1>6. ASSUME phase # "command" PROVE MidTest'
  <2>1. MidTest /\ Heard /\ HeardState
    BY <1>1, <1>6 DEF MidTest, Ready, UnheardState, UnheardClean
  <2>2. /\ Stream' \in Seq(Tokens) /\ Len(Stream) \in Nat
        /\ Len(Stream') = Len(Stream) + 3
        /\ \A i \in 1..Len(Stream) : Stream'[i] = Stream[i]
        /\ \A i \in 1..3 : Stream'[Len(Stream) + i] = x[i]
        /\ \A i \in 1..Len(Stream') : i \in 1..Len(Stream) \/ i - Len(Stream) \in 1..3
    BY <1>1, <1>3, StreamSent
  <2>3. Due' = Due /\ Due \subseteq Nat /\ host.todo \subseteq Due /\ s \in Due /\ s \in Nat
    <3>1. Due' = Due
      BY SameDue
    <3>2. Due \subseteq Slots /\ Slots \subseteq Nat
      BY <1>1, <1>6, DueFacts
    <3>3. host.todo \subseteq Due
      BY <1>1, <2>1 DEF HeardState, Burst
    <3> QED BY <1>1, <3>1, <3>2, <3>3
  <2>4. host.base # Frames
    BY <1>1, <2>1 DEF MidTest
  <2>5. JunkFirst => JunkFirst'
    <3>1. ASSUME JunkFirst PROVE JunkFirst'
      <4>1. Stream # <<>> /\ Stream[1] = Junk
        BY <3>1 DEF JunkFirst
      <4>2. 1 \in 1..Len(Stream)
        BY <1>1, <4>1, StreamSeq, Beheaded
      <4>3. Stream'[1] = Junk /\ Len(Stream') # 0
        BY <2>2, <4>1, <4>2
      <4> QED BY <4>3, Nothing DEF JunkFirst
    <3> QED BY <3>1
  <2>6. ASSUME NEW i \in 1..Len(Stream'), Framed(i)'
        PROVE  \/ i \in 1..Len(Stream) /\ Framed(i) /\ Stream'[i] = Stream[i]
               \/ /\ i = Len(Stream) + 2 /\ Stream'[i].sequence = s
                  /\ Stream'[i].kind = "rest"
               \/ /\ i = Len(Stream) + 3 /\ Stream'[i].sequence = s
                  /\ Stream'[i].kind = "data"
    <3>1. CASE i \in 1..Len(Stream)
      BY <2>2, <2>6, <3>1 DEF Framed
    <3>2. CASE i - Len(Stream) \in 1..3
      <4>1. i = Len(Stream) + 1 \/ i = Len(Stream) + 2 \/ i = Len(Stream) + 3
        BY <2>2, <3>2
      <4>2. i # Len(Stream) + 1
        <5>1. Stream'[Len(Stream) + 1] = x[1]
          BY <2>2
        <5> QED BY <1>4, <2>6, <5>1 DEF Framed
      <4>3. Stream'[Len(Stream) + 2] = x[2] /\ Stream'[Len(Stream) + 3] = x[3]
        BY <2>2
      <4> QED BY <1>4, <4>1, <4>2, <4>3
    <3> QED BY <2>2, <3>1, <3>2
  <2>7. ASSUME ~JunkFirst PROVE InOrder' /\ StillDue'
    <3>1. InOrder /\ StillDue
      BY <2>1, <2>7 DEF HeardState, Burst
    <3>2. ASSUME NEW i \in 1..Len(Stream), Framed(i)
          PROVE  /\ Stream[i].sequence \in Due /\ Stream[i].sequence < s
      BY <1>1, <3>1, <3>2 DEF StillDue
    <3>3. InOrder'
      <4>1. SUFFICES ASSUME NEW i \in 1..Len(Stream'), NEW j \in 1..Len(Stream'), i < j,
                            Framed(i)', Framed(j)'
                     PROVE  \/ Stream'[i].sequence < Stream'[j].sequence
                            \/ /\ Stream'[i].sequence = Stream'[j].sequence /\ j = i + 1
                               /\ Stream'[i].kind = "rest" /\ Stream'[j].kind = "data"
        BY DEF InOrder
      <4>2. CASE j \in 1..Len(Stream)
        <5>1. i \in 1..Len(Stream)
          BY <2>2, <4>1, <4>2
        <5>2. Framed(i) /\ Framed(j) /\ Stream'[i] = Stream[i] /\ Stream'[j] = Stream[j]
          BY <2>2, <4>1, <4>2, <5>1 DEF Framed
        <5> QED BY <3>1, <4>1, <4>2, <5>1, <5>2 DEF InOrder
      <4>3. CASE j \notin 1..Len(Stream)
        <5>1. /\ Stream'[j].sequence = s
              /\ \/ j = Len(Stream) + 2
                 \/ j = Len(Stream) + 3 /\ Stream'[j].kind = "data"
          BY <2>6, <4>1, <4>3
        <5>2. CASE i \in 1..Len(Stream)
          <6>1. Framed(i) /\ Stream'[i] = Stream[i]
            BY <2>2, <4>1, <5>2 DEF Framed
          <6> QED BY <3>2, <5>1, <5>2, <6>1
        <5>3. CASE i \notin 1..Len(Stream)
          <6>1. /\ Stream'[i].sequence = s
                /\ \/ i = Len(Stream) + 2 /\ Stream'[i].kind = "rest"
                   \/ i = Len(Stream) + 3
            BY <2>6, <4>1, <5>3
          <6>2. i = Len(Stream) + 2 /\ j = Len(Stream) + 3
            BY <2>2, <4>1, <5>1, <6>1
          <6>3. j = i + 1 /\ Len(Stream) + 2 # Len(Stream) + 3
            BY <2>2, <6>2
          <6> QED BY <5>1, <6>1, <6>2, <6>3
        <5> QED BY <5>2, <5>3
      <4> QED BY <4>2, <4>3
    <3>4. StillDue'
      <4>1. SUFFICES ASSUME NEW i \in 1..Len(Stream'), Framed(i)'
                     PROVE  /\ Stream'[i].sequence \in Due'
                            /\ host'.state = "send" => \A d \in host'.todo : Stream'[i].sequence < d
                            /\ Closing(i)' \/ \E d \in Due' : d > Stream'[i].sequence
        BY DEF StillDue
      <4>2. ASSUME NEW d \in host'.todo PROVE s < d /\ d \in host.todo /\ d \in Nat
        <5>1. d \in host.todo /\ d # s /\ s <= d /\ d \in Nat
          BY <1>1, <2>3, <4>2
        <5> QED BY <2>3, <5>1
      <4>3. CASE i \in 1..Len(Stream)
        <5>1. Framed(i) /\ Stream'[i] = Stream[i]
          BY <2>2, <4>1, <4>3 DEF Framed
        <5>2. Stream'[i].sequence \in Due /\ Stream'[i].sequence < s /\ Stream'[i].sequence \in Nat
          BY <2>3, <3>2, <4>3, <5>1
        <5>3. \A d \in host'.todo : Stream'[i].sequence < d
          BY <2>3, <4>2, <5>2
        <5>4. s \in Due' /\ s > Stream'[i].sequence
          BY <2>3, <5>2
        <5> QED BY <2>3, <5>2, <5>3, <5>4
      <4>4. CASE i \notin 1..Len(Stream)
        <5>1. /\ Stream'[i].sequence = s
              /\ \/ i = Len(Stream) + 2 /\ Stream'[i].kind = "rest"
                 \/ i = Len(Stream) + 3
          BY <2>6, <4>1, <4>4
        <5>2. Closing(i)'
          <6>1. i = Len(Stream) + 3 => i = Len(Stream')
            BY <2>2
          <6>2. i = Len(Stream) + 2 => i + 1 = Len(Stream')
            BY <2>2
          <6> QED BY <5>1, <6>1, <6>2 DEF Closing
        <5> QED BY <2>3, <4>2, <5>1, <5>2
      <4> QED BY <4>3, <4>4
    <3> QED BY <3>3, <3>4
  <2>8. Burst'
    <3>1. ASSUME host'.state = "send" PROVE obj'.window # 1
      <4>1. PICK d \in host'.todo : TRUE
        BY <1>1, <3>1
      <4>2. d \in Due /\ d # s
        BY <1>1, <2>3, <4>1
      <4> QED BY <1>1, <1>6, <2>3, <4>2, OneDue
    <3>2. host'.todo \subseteq Due'
      BY <1>1, <2>3
    <3>3. (~JunkFirst)' => InOrder' /\ StillDue'
      BY <2>5, <2>7
    <3>4. ~(host.base = Frames)'
      BY <1>1, <2>4
    <3> QED BY <3>1, <3>2, <3>3, <3>4 DEF Burst
  <2>9. HeardState'
    <3>1. toHost' # <<>> => JunkFirst'
      BY <1>1, <2>1, <2>5 DEF HeardState
    <3>2. ASSUME NEW j \in 1..Len(toHost') PROVE (toHost[j].kind = "ack")' /\ ~Fresh(toHost[j])'
      <4>1. toHost[j].kind = "ack" /\ ~Fresh(toHost[j])
        BY <1>1, <2>1, <3>2 DEF HeardState
      <4> QED BY <1>1, <4>1 DEF Fresh
    <3>3. (host.state \in {"send", "ack", "result", "gone"})'
      BY <1>1
    <3> QED BY <2>8, <3>1, <3>2, <3>3 DEF HeardState
  <2>10. Heard' /\ Next1' = Next1
    BY <1>1, <2>1, SameDue DEF Heard
  <2>11. /\ (host.window = obj.window)' /\ host'.state # "result" /\ (host.base # Frames)'
         /\ (host.base = obj.base \/ (phase = "ack" /\ obj.bitmap = {} /\ host.base = Next1))'
    BY <1>1, <2>1, <2>4, <2>10 DEF MidTest
  <2> QED BY <2>9, <2>10, <2>11 DEF MidTest
<1> QED BY <1>5, <1>6

LEMMA ConfirmsGrow ==
  ASSUME Types, OnlyConfirms, Send(<<Confirm>>), pushback' = pushback
  PROVE  OnlyConfirms'
<1>1. /\ <<Confirm>> \in Seq(Tokens) /\ Len(<<Confirm>>) = 1 /\ <<Confirm>>[1] = Confirm
  BY OneConfirm
<1>2. /\ \A i \in 1..Len(Stream) : Stream'[i] = Stream[i]
      /\ \A i \in 1..1 : Stream'[Len(Stream) + i] = <<Confirm>>[i]
      /\ \A i \in 1..Len(Stream') : i \in 1..Len(Stream) \/ i - Len(Stream) \in 1..1
      /\ Len(Stream) \in Nat
  BY <1>1, StreamSent
<1>3. ASSUME NEW i \in 1..Len(Stream') PROVE Stream'[i] = Confirm
  <2>1. CASE i \in 1..Len(Stream)
    BY <1>2, <2>1 DEF OnlyConfirms
  <2>2. CASE i - Len(Stream) \in 1..1
    <3>1. i = Len(Stream) + 1 /\ 1 \in 1..1
      BY <1>2, <2>2
    <3> QED BY <1>1, <1>2, <3>1
  <2> QED BY <1>2, <2>1, <2>2
<1> QED BY <1>3 DEF OnlyConfirms

(* The host hears what the target waits for, and what it then sends is due. *)
LEMMA HostAckIn ==
  ASSUME IInv, IInv', Punctual, Punctual', LineRule, phase # "command" => MidTest, HostAck,
         UNCHANGED <<phase, obj, stored, pushback, outcome, faults>>
  PROVE  LineRule' /\ (phase' # "command" => MidTest')
<1> DEFINE a == toHost[1]
<1>1. /\ Types /\ ObjShape
      /\ host.state = "ack" /\ toHost # <<>> /\ toHost' = Tail(toHost)
      /\ a.kind = "ack" /\ a.base = host.base /\ a.round > host.heard /\ a.round \in 0..Rounds
      /\ Send(<<Confirm>>) /\ pushback' = pushback
      /\ host'.window = host.window
      /\ a.bitmap # {} =>
              /\ host'.state = "send" /\ host'.heard = a.round
              /\ host'.base = host.base
              /\ host'.todo = {host.base + p : p \in a.bitmap}
      /\ a.bitmap = {} =>
              /\ host'.base = host.base + Count(host.base, host.window) /\ host'.heard = -1
              /\ host'.state = IF host'.base = Frames THEN "result" ELSE "send"
              /\ host'.base # Frames => host'.todo = WindowOf(host'.base)
  BY HostAckGood DEF IInv
<1>2. LineRule'
  <2>1. host'.state # "idle"
    BY <1>1
  <2> QED BY <1>1, <2>1, HostLine, OneConfirm
<1>3. ASSUME phase # "command" PROVE MidTest'
  <2>1. Fresh(a)
    BY <1>1 DEF Fresh
  <2>2. 1 \in 1..Len(toHost)
    BY <1>1, HeardLine
  <2>3. ~Ready /\ ~(Heard /\ HeardState) /\ MidTest
    BY <1>1, <1>3, <2>1, <2>2 DEF Ready, HeardState
  <2>4. /\ a.round = (IF phase = "frame" THEN obj.round - 1 ELSE obj.round)
        /\ a.bitmap = obj.bitmap /\ host.base = obj.base /\ OnlyConfirms
        /\ phase \in {"frame", "ack"} /\ Len(toHost) = 1
        /\ phase = "frame" => obj.bitmap # {} /\ obj.window = 1
    <3>1. CASE UnheardState
      BY <1>1, <2>1, <2>2, <3>1 DEF UnheardState
    <3>2. CASE UnheardClean
      <4>1. toHost = <<Ack(obj)>> /\ Stream = <<>> /\ phase = "ack" /\ host.base = obj.base
        BY <1>1, <3>2 DEF UnheardClean
      <4>2. Len(toHost) = 1 /\ a = Ack(obj)
        BY <4>1
      <4>3. a.round = obj.round /\ a.bitmap = obj.bitmap
        BY <1>1, <4>1, <4>2, AckOfObject
      <4> QED BY <4>1, <4>2, <4>3, NoneLeft
    <3> QED BY <2>3, <3>1, <3>2 DEF MidTest
  <2>5. toHost' = <<>>
    <3>1. toHost' \in Seq(Lines) /\ Len(toHost') = Len(toHost) - 1
      BY <1>1, HeardLine
    <3>2. Len(toHost') = 0
      BY <2>4, <3>1
    <3> QED BY <3>1, <3>2, Nothing
  <2>6. OnlyConfirms'
    BY <1>1, <2>4, ConfirmsGrow
  <2>7. Due' = Due /\ Next1' = Next1
    BY SameDue
  <2>8. host.window = obj.window
    BY <2>3 DEF MidTest
  <2>9. obj.base \in Nat /\ obj.base \in Slots /\ obj.bitmap \subseteq InWindow
        /\ InWindow = 0..(Count(obj.base, obj.window) - 1) /\ obj.base < Frames
        /\ Count(obj.base, obj.window) \in Nat /\ obj.pos \in InWindow
    <3>1. /\ obj.base \in Slots /\ Slots \subseteq Nat /\ obj.bitmap \subseteq InWindow
          /\ Count(obj.base, obj.window) \in 1..MaxWindow /\ obj.pos \in InWindow
      BY <1>1, <2>4, WindowFacts, ObjFields
    <3>2. Count(obj.base, obj.window) \in Nat
      BY <3>1, TransferAssumption
    <3> QED BY <1>1, <2>4, <3>1, <3>2 DEF InWindow, ObjShape
  <2>10. CASE obj.bitmap # {}
    <3>1. /\ host'.state = "send" /\ host'.heard = a.round /\ host'.base = obj.base
          /\ host'.todo = {obj.base + p : p \in obj.bitmap}
      BY <1>1, <2>4, <2>10
    <3>2. Heard'
      BY <2>4, <2>10, <3>1 DEF Heard
    <3>3. host'.todo \subseteq Due
      <4>1. SUFFICES ASSUME NEW p \in obj.bitmap PROVE obj.base + p \in Due
        BY <3>1
      <4>2. p \in InWindow /\ p \in Nat
        BY <2>9
      <4>3. obj.base + p \in Span(obj.base) /\ (obj.base + p) - obj.base = p
        BY <2>9, <4>2 DEF Span
      <4>4. CASE phase = "ack"
        BY <2>10, <4>3, <4>4 DEF Due
      <4>5. CASE phase = "frame"
        <5>1. obj.window = 1
          BY <2>4, <4>5
        <5>2. InWindow = {0}
          <6>1. Count(obj.base, obj.window) = 1
            BY <1>1, <2>9, <5>1, TransferAssumption DEF Count
          <6> QED BY <2>9, <6>1
        <5>3. obj.pos = 0 /\ p = 0
          BY <2>9, <4>2, <5>2
        <5> QED BY <2>9, <4>3, <4>5, <5>3 DEF Due
      <4> QED BY <2>4, <4>4, <4>5
    <3>4. (host.base # Frames)'
      BY <2>9, <3>1, TransferAssumption
    <3>5. Burst'
      BY <2>6, <2>7, <3>3, ConfirmsInOrder DEF Burst
    <3>6. HeardState'
      <4>1. \A j \in 1..Len(toHost') : FALSE
        BY <2>5, Nothing
      <4> QED BY <2>5, <3>1, <3>5, <4>1 DEF HeardState
    <3>7. /\ (host.window = obj.window)' /\ (host.base = obj.base)' /\ host'.state # "result"
      BY <1>1, <2>8, <3>1
    <3> HIDE DEF a
    <3> QED BY <3>2, <3>4, <3>6, <3>7 DEF MidTest
  <2>11. CASE obj.bitmap = {}
    <3>1. /\ host'.base = Next1 /\ host'.heard = -1 /\ phase = "ack"
          /\ host'.state = IF host'.base = Frames THEN "result" ELSE "send"
          /\ host'.base # Frames => host'.todo = WindowOf(Next1)
      <4>1. phase = "ack"
        BY <2>4, <2>11
      <4>2. host'.base = Next1
        BY <1>1, <2>4, <2>8, <2>11 DEF Next1
      <4> HIDE DEF a
      <4> QED BY <1>1, <2>4, <2>11, <4>1, <4>2
    <3>2. Heard'
      BY <2>7, <2>11, <3>1 DEF Heard
    <3>3. host'.state = "send" => host'.todo \subseteq Due'
      <4>1. Due = Span(Next1)
        BY <2>11, <3>1 DEF Due
      <4>3. WindowOf(Next1) = Span(Next1)
        BY <2>8 DEF WindowOf, Span
      <4> QED BY <2>7, <3>1, <4>1, <4>3
    <3>5. Burst'
      BY <2>6, <3>3, ConfirmsInOrder DEF Burst
    <3>6. HeardState'
      <4>1. \A j \in 1..Len(toHost') : FALSE
        BY <2>5, Nothing
      <4> QED BY <2>5, <3>1, <3>5, <4>1 DEF HeardState
    <3>7. /\ (host.window = obj.window)'
          /\ (host.state = "result" <=> host.base = Frames)'
          /\ (phase = "ack" /\ obj.bitmap = {} /\ host.base = Next1)'
      BY <1>1, <2>7, <2>8, <2>11, <3>1
    <3> HIDE DEF a
    <3> QED BY <3>2, <3>6, <3>7 DEF MidTest
  <2> QED BY <2>10, <2>11
<1> QED BY <1>2, <1>3

LEMMA HostAckAgainIn ==
  ASSUME IInv, IInv', Punctual, Punctual', LineRule, phase # "command" => MidTest, HostAckAgain,
         UNCHANGED <<phase, obj, stored, pushback, outcome, faults>>
  PROVE  LineRule' /\ (phase' # "command" => MidTest')
<1>1. /\ Types /\ ObjShape
      /\ host.state \in {"ack", "result"} /\ toHost # <<>>
      /\ toHost[1].kind = "ack" /\ (host.state = "ack" => ~Fresh(toHost[1]))
      /\ toHost' = Tail(toHost) /\ host' = host
      /\ Send(<<Confirm>>) \/ toTarget' = toTarget
      /\ pushback' = pushback
  BY HostAckAgainGood DEF IInv
<1>2. LineRule'
  <2>1. LineFollows
    BY <1>1, OneConfirm, LineSame
  <2> QED BY <1>1, <2>1, HostLine
<1>3. ASSUME phase # "command" PROVE MidTest'
  <2>1. MidTest /\ ~Ready
    BY <1>1, <1>3 DEF Ready
  <2>2. /\ Len(toHost) \in Nat \ {0} /\ Len(toHost') = Len(toHost) - 1
        /\ \A j \in 1..(Len(toHost) - 1) : toHost'[j] = toHost[j + 1]
        /\ toHost' \in Seq(Lines)
    BY <1>1, HeardLine
  <2>3. OnlyConfirms => OnlyConfirms'
    <3>1. CASE Send(<<Confirm>>)
      BY <1>1, <3>1, ConfirmsGrow
    <3>2. CASE toTarget' = toTarget
      <4>1. Stream' = Stream
        BY <1>1, <3>2, SameToTarget
      <4> QED BY <4>1 DEF OnlyConfirms
    <3> QED BY <1>1, <3>1, <3>2
  <2>4. JunkFirst => JunkFirst'
    <3>1. ASSUME JunkFirst PROVE JunkFirst'
      <4>1. Stream # <<>> /\ Stream[1] = Junk
        BY <3>1 DEF JunkFirst
      <4>2. CASE Send(<<Confirm>>)
        <5>1. 1 \in 1..Len(Stream)
          BY <1>1, <4>1, StreamSeq, Beheaded
        <5>2. /\ Len(<<Confirm>>) \in Nat /\ Len(Stream) \in Nat
              /\ Len(Stream') = Len(Stream) + Len(<<Confirm>>)
              /\ \A i \in 1..Len(Stream) : Stream'[i] = Stream[i]
          BY <1>1, <4>2, OneConfirm, StreamSent
        <5>3. Stream'[1] = Junk /\ Len(Stream') # 0
          BY <4>1, <5>1, <5>2
        <5> QED BY <5>3, Nothing DEF JunkFirst
      <4>3. CASE toTarget' = toTarget
        <5>1. Stream' = Stream
          BY <1>1, <4>3, SameToTarget
        <5> QED BY <4>1, <5>1 DEF JunkFirst
      <4> QED BY <1>1, <4>2, <4>3
    <3> QED BY <3>1
  <2>5. Due' = Due /\ Next1' = Next1 /\ Heard' = Heard
    BY <1>1, SameDue DEF Heard
  <2>6. ASSUME NEW j \in 1..Len(toHost')
        PROVE  /\ j + 1 \in 1..Len(toHost) /\ toHost'[j] = toHost[j + 1]
               /\ Fresh(toHost[j])' = Fresh(toHost[j + 1])
    <3>1. j + 1 \in 1..Len(toHost) /\ toHost'[j] = toHost[j + 1]
      BY <2>2
    <3> QED BY <1>1, <3>1 DEF Fresh
  <2>7. /\ (host.window = obj.window)'
        /\ (host.state # "gone" => (host.state = "result" <=> host.base = Frames))'
        /\ (host.base = obj.base \/ (phase = "ack" /\ obj.bitmap = {} /\ host.base = Next1))'
    BY <1>1, <2>1, <2>5 DEF MidTest
  <2>8. ASSUME Heard /\ HeardState PROVE MidTest'
    <3>1. Burst' /\ (toHost' # <<>> => JunkFirst')
      <4>1. CASE JunkFirst
        <5>1. ~OnlyConfirms
          <6>1. 1 \in 1..Len(Stream) /\ Stream[1] = Junk
            BY <1>1, <4>1, StreamSeq, Beheaded DEF JunkFirst
          <6> QED BY <6>1, Kinds DEF OnlyConfirms
        <5>2. host.base # Frames
          BY <2>8, <5>1 DEF HeardState, Burst
        <5> QED BY <1>1, <2>4, <4>1, <5>2 DEF Burst
      <4>2. CASE Stream = <<>> /\ Len(toHost) = 1
        <5>1. OnlyConfirms'
          BY <2>3, <4>2, NoneLeft
        <5>2. Len(toHost') = 0
          BY <2>2, <4>2
        <5>3. toHost' = <<>>
          BY <2>2, <5>2, Nothing
        <5> QED BY <1>1, <5>1, <5>3, ConfirmsInOrder DEF Burst
      <4> QED BY <1>1, <2>8, <4>1, <4>2 DEF HeardState
    <3>2. ASSUME NEW j \in 1..Len(toHost') PROVE (toHost[j].kind = "ack")' /\ ~Fresh(toHost[j])'
      BY <2>6, <2>8 DEF HeardState
    <3>3. HeardState'
      BY <1>1, <3>1, <3>2 DEF HeardState
    <3> QED BY <2>5, <2>7, <2>8, <3>3 DEF MidTest
  <2>9. ASSUME UnheardState PROVE MidTest'
    <3>1. ASSUME NEW j \in 1..Len(toHost')
          PROVE  /\ (toHost[j].kind = "ack")'
                 /\ Fresh(toHost[j])' =>
                      /\ j = Len(toHost') /\ (toHost[j].bitmap = obj.bitmap)'
                      /\ (toHost[j].round = IF phase = "frame" THEN obj.round - 1 ELSE obj.round)'
      <4>1. toHost[j + 1].kind = "ack" /\ (Fresh(toHost[j + 1]) =>
              /\ j + 1 = Len(toHost) /\ toHost[j + 1].bitmap = obj.bitmap
              /\ toHost[j + 1].round = IF phase = "frame" THEN obj.round - 1 ELSE obj.round)
        BY <2>6, <2>9 DEF UnheardState
      <4>2. j + 1 = Len(toHost) => j = Len(toHost')
        <5>1. j \in Nat /\ Len(toHost) \in Nat /\ Len(toHost') = Len(toHost) - 1
          BY <2>2
        <5>2. \A l, m \in Nat : m + 1 = l => m = l - 1
          OBVIOUS
        <5> QED BY <5>1, <5>2
      <4> QED BY <2>6, <4>1, <4>2
    <3>2. UnheardState'
      BY <1>1, <2>3, <2>9, <3>1 DEF UnheardState
    <3> QED BY <2>7, <3>2 DEF MidTest
  <2>10. ~UnheardClean
    <3>1. ASSUME UnheardClean PROVE FALSE
      <4>1. toHost[1] = Ack(obj) /\ host.state = "ack" /\ host.base = obj.base
            /\ phase = "ack" /\ host.heard < obj.round
        BY <1>1, <3>1 DEF UnheardClean
      <4>2. obj.round \in Nat /\ host.heard \in Int
        <5>1. obj.round \in 0..Rounds /\ host.heard \in -1..Rounds
          BY <1>1, ObjFields, HostFields
        <5> QED BY <5>1
      <4>3. Fresh(Ack(obj))
        BY <1>1, <4>1, <4>2, AckOfObject DEF Fresh
      <4> QED BY <1>1, <4>1, <4>3
    <3> QED BY <3>1
  <2> QED BY <2>1, <2>8, <2>9, <2>10 DEF MidTest
<1> QED BY <1>2, <1>3

LEMMA HostResultIn ==
  ASSUME IInv, IInv', Punctual, Punctual', LineRule, HostResult,
         UNCHANGED <<phase, obj, stored, pushback, outcome, faults>>
  PROVE  LineRule' /\ phase = "command"
<1>1. /\ Types /\ "giveup" \notin ToSet(faults)
      /\ toHost # <<>> /\ toHost' = Tail(toHost) /\ toTarget' = toTarget /\ Ended(1)
  BY HostResultGood DEF IInv, Punctual, Only
<1>2. /\ Len(toHost) \in Nat \ {0} /\ Len(toHost') = Len(toHost) - 1 /\ toHost' \in Seq(Lines)
      /\ 1 \in 1..Len(toHost)
  BY <1>1, HeardLine
<1>3. phase = "command"
  BY <1>1, <1>2 DEF IInv, OneTest
<1>4. Len(toHost) = 1
  BY <1>1, <1>2 DEF LineRule
<1>5. toHost' = <<>>
  <2>1. Len(toHost') = 0
    BY <1>2, <1>4
  <2> QED BY <1>2, <2>1, Nothing
<1>6. LineRule'
  BY <1>1, <1>5, HostLine, LineSame
<1> QED BY <1>3, <1>6

LEMMA HostSkipIn ==
  ASSUME IInv, IInv', Punctual, Punctual', LineRule, phase # "command" => MidTest, HostSkip,
         UNCHANGED <<phase, obj, stored, pushback, outcome, faults>>
  PROVE  LineRule' /\ phase = "command"
<1>1. /\ Types /\ ObjShape /\ "giveup" \notin ToSet(faults) /\ host' = host
      /\ toHost # <<>> /\ toHost' = Tail(toHost) /\ toTarget' = toTarget
      /\ \/ host.state = "idle"
         \/ host.state = "ready" /\ toHost[1].kind \in {"ack", "pass"}
         \/ host.state \in {"ack", "result"} /\ toHost[1].kind = "ready"
         \/ host.state = "ack" /\ toHost[1].kind = "pass"
  BY HostSkipGood DEF IInv, Punctual, Only
<1>2. 1 \in 1..Len(toHost)
  BY <1>1, HeardLine
<1>3. phase = "command"
  <2>1. SUFFICES ASSUME phase # "command" PROVE FALSE
    OBVIOUS
  <2>2. host.state # "idle"
    BY <1>1, <2>1 DEF IInv, OneTest
  <2>3. CASE Ready
    <3>1. toHost = <<Reply("ready")>> /\ host.state = "ready"
      BY <1>1, <2>3 DEF Ready
    <3>2. toHost[1].kind = "ready"
      BY <3>1 DEF Reply
    <3> QED BY <1>1, <3>1, <3>2
  <2>4. CASE HeardState \/ UnheardState
    <3>1. toHost[1].kind = "ack" /\ host.state # "ready"
      BY <1>2, <2>4 DEF HeardState, UnheardState
    <3> QED BY <1>1, <2>2, <3>1
  <2>5. CASE UnheardClean
    <3>1. toHost = <<Ack(obj)>> /\ phase = "ack" /\ host.state \in {"ack", "gone"}
      BY <1>1, <2>5 DEF UnheardClean
    <3>2. toHost[1].kind = "ack"
      BY <1>1, <3>1, AckOfObject
    <3> QED BY <1>1, <2>2, <3>1, <3>2
  <2> QED BY <2>1, <2>3, <2>4, <2>5 DEF MidTest
<1>4. LineRule'
  BY <1>1, HostLine, LineSame
<1> QED BY <1>3, <1>4

LEMMA HostVanishesIn ==
  ASSUME IInv, IInv', Punctual, Punctual', LineRule, phase # "command" => MidTest, HostVanishes
  PROVE  LineRule' /\ (phase' # "command" => MidTest')
<1>1. /\ Types /\ host'.state = "gone" /\ toHost' = <<>> /\ toTarget' = toTarget
      /\ phase' = phase /\ obj' = obj /\ stored' = stored /\ pushback' = pushback
      /\ host'.window = host.window
      /\ host'.base = host.base /\ host'.heard = host.heard /\ host'.todo = host.todo
  BY HostVanishesGood DEF IInv
<1>2. \A j \in 1..Len(toHost') : FALSE
  BY <1>1, Nothing
<1>3. LineRule'
  BY <1>1, <1>2 DEF LineRule, Asked
<1>4. ASSUME phase # "command" PROVE MidTest'
  <2>1. /\ Stream' = Stream /\ Due' = Due /\ Next1' = Next1 /\ Heard' = Heard
    BY <1>1, SameToTarget, SameDue DEF Heard
  <2>2. /\ (host.window = obj.window)'
        /\ (host.base = obj.base \/ (phase = "ack" /\ obj.bitmap = {} /\ host.base = Next1))'
    BY <1>1, <1>4, <2>1 DEF MidTest
  <2>3. Ready => Ready'
    BY <1>1, <2>1 DEF Ready
  <2>4. /\ OnlyConfirms' = OnlyConfirms /\ JunkFirst' = JunkFirst /\ InOrder' = InOrder
    BY <2>1 DEF OnlyConfirms, JunkFirst, InOrder, Framed
  <2>5. StillDue => StillDue'
    BY <1>1, <2>1 DEF StillDue, Framed, Closing
  <2>6. Burst => Burst'
    BY <1>1, <2>1, <2>4, <2>5 DEF Burst
  <2>7. HeardState => HeardState'
    BY <1>1, <1>2, <2>6 DEF HeardState
  <2>8. UnheardState => UnheardState'
    BY <1>1, <1>2, <2>4 DEF UnheardState
  <2>9. UnheardClean => UnheardClean'
    BY <1>1, <2>1 DEF UnheardClean
  <2> QED BY <1>1, <1>4, <2>1, <2>2, <2>3, <2>7, <2>8, <2>9 DEF MidTest
<1> QED BY <1>1, <1>3, <1>4

-----------------------------------------------------------------------------
(* A fault of the line, seen in the stream.                                *)
Shifted(k) == IF pushback THEN k + 1 ELSE k

LEMMA StreamNew ==
  ASSUME Types, toTarget' \in Seq(Tokens), pushback' = pushback
  PROVE  /\ Stream' \in Seq(Tokens) /\ Len(toTarget') \in Nat
         /\ Len(Stream') = Shifted(Len(toTarget'))
         /\ pushback => Stream'[1] = Start
         /\ \A i \in 1..Len(toTarget') : Stream'[Shifted(i)] = toTarget'[i]
<1>1. Len(toTarget') \in Nat
  BY LenProperties
<1>2. CASE pushback
  <2>1. Stream' = <<Start>> \o toTarget'
    BY <1>2 DEF Stream
  <2>2. /\ <<Start>> \o toTarget' \in Seq(Tokens)
        /\ Len(<<Start>> \o toTarget') = Len(toTarget') + 1
        /\ (<<Start>> \o toTarget')[1] = Start
        /\ \A i \in 2..(Len(toTarget') + 1) : (<<Start>> \o toTarget')[i] = toTarget'[i - 1]
    BY Kinds, Prefixed
  <2>3. \A i \in 1..Len(toTarget') : i + 1 \in 2..(Len(toTarget') + 1) /\ (i + 1) - 1 = i
    BY <1>1
  <2>4. \A i \in 1..Len(toTarget') : (<<Start>> \o toTarget')[i + 1] = toTarget'[i]
    BY <2>2, <2>3
  <2> QED BY <1>1, <1>2, <2>1, <2>2, <2>4 DEF Shifted
<1>3. CASE ~pushback
  <2>1. pushback' = FALSE
    BY <1>3 DEF Types
  <2>2. Stream' = toTarget'
    BY <2>1, LineOnly
  <2> QED BY <1>1, <1>3, <2>2 DEF Shifted
<1> QED BY <1>2, <1>3

LEMMA StreamOld ==
  ASSUME Types
  PROVE  /\ Stream \in Seq(Tokens) /\ Len(toTarget) \in Nat
         /\ Len(Stream) = Shifted(Len(toTarget))
         /\ pushback => Stream[1] = Start
         /\ \A i \in 1..Len(toTarget) : Stream[Shifted(i)] = toTarget[i]
BY StreamSeq DEF Shifted, Types

LEMMA StreamLost ==
  ASSUME Types, NEW k \in 1..Len(toTarget), toTarget' = RemoveAt(toTarget, k),
         pushback' = pushback
  PROVE  /\ Stream' \in Seq(Tokens) /\ Shifted(k) \in 1..Len(Stream)
         /\ Stream[Shifted(k)] = toTarget[k]
         /\ Len(Stream) \in Nat \ {0} /\ Len(Stream') = Len(Stream) - 1
         /\ \A i \in 1..Len(Stream') :
              Stream'[i] = IF i < Shifted(k) THEN Stream[i] ELSE Stream[i + 1]
<1>1. /\ toTarget' \in Seq(Tokens) /\ Len(toTarget') = Len(toTarget) - 1
      /\ \A i \in 1..(Len(toTarget) - 1) :
           toTarget'[i] = IF i < k THEN toTarget[i] ELSE toTarget[i + 1]
  BY Removed DEF Types
<1>2. /\ Stream' \in Seq(Tokens) /\ Len(toTarget') \in Nat
      /\ Len(Stream') = Shifted(Len(toTarget'))
      /\ pushback => Stream'[1] = Start
      /\ \A i \in 1..Len(toTarget') : Stream'[Shifted(i)] = toTarget'[i]
  BY <1>1, StreamNew
<1>3. /\ Len(toTarget) \in Nat /\ Len(Stream) = Shifted(Len(toTarget))
      /\ pushback => Stream[1] = Start
      /\ \A i \in 1..Len(toTarget) : Stream[Shifted(i)] = toTarget[i]
  BY StreamOld
<1>4. /\ Shifted(k) \in 1..Len(Stream) /\ Len(Stream) \in Nat \ {0}
      /\ Len(Stream') = Len(Stream) - 1
  BY <1>1, <1>2, <1>3 DEF Shifted
<1>5. ASSUME NEW i \in 1..Len(Stream')
      PROVE  Stream'[i] = IF i < Shifted(k) THEN Stream[i] ELSE Stream[i + 1]
  <2>1. CASE pushback /\ i = 1
    <3>1. i < Shifted(k)
      BY <2>1, <1>3 DEF Shifted
    <3> QED BY <1>2, <1>3, <2>1, <3>1
  <2>2. CASE ~(pushback /\ i = 1)
    <3> DEFINE j == IF pushback THEN i - 1 ELSE i
    <3>1. j \in 1..Len(toTarget') /\ i = Shifted(j) /\ i + 1 = Shifted(j + 1)
      BY <1>1, <1>2, <1>3, <1>4, <2>2 DEF Shifted
    <3>2. /\ j \in 1..(Len(toTarget) - 1) /\ j \in 1..Len(toTarget)
          /\ j + 1 \in 1..Len(toTarget)
      BY <1>1, <1>3, <3>1
    <3>3. j < k <=> i < Shifted(k)
      BY <1>3, <3>1, <3>2 DEF Shifted
    <3> HIDE DEF j
    <3>4. Stream'[i] = toTarget'[j] /\ Stream[i] = toTarget[j] /\ Stream[i + 1] = toTarget[j + 1]
      BY <1>2, <1>3, <3>1, <3>2
    <3> QED BY <1>1, <3>2, <3>3, <3>4
  <2> QED BY <2>1, <2>2
<1> QED BY <1>2, <1>3, <1>4, <1>5

LEMMA StreamJunked ==
  ASSUME Types, NEW k \in 1..Len(toTarget), toTarget' = [toTarget EXCEPT ![k] = Junk],
         pushback' = pushback
  PROVE  /\ Stream' \in Seq(Tokens) /\ Shifted(k) \in 1..Len(Stream)
         /\ Stream[Shifted(k)] = toTarget[k]
         /\ Len(Stream) \in Nat \ {0} /\ Len(Stream') = Len(Stream)
         /\ \A i \in 1..Len(Stream') : Stream'[i] = IF i = Shifted(k) THEN Junk ELSE Stream[i]
<1>1. /\ toTarget' \in Seq(Tokens) /\ Len(toTarget') = Len(toTarget)
      /\ \A i \in 1..Len(toTarget) : toTarget'[i] = IF i = k THEN Junk ELSE toTarget[i]
  BY Kinds, ExceptSeq DEF Types
<1>2. /\ Stream' \in Seq(Tokens) /\ Len(toTarget') \in Nat
      /\ Len(Stream') = Shifted(Len(toTarget'))
      /\ pushback => Stream'[1] = Start
      /\ \A i \in 1..Len(toTarget') : Stream'[Shifted(i)] = toTarget'[i]
  BY <1>1, StreamNew
<1>3. /\ Len(toTarget) \in Nat /\ Len(Stream) = Shifted(Len(toTarget))
      /\ pushback => Stream[1] = Start
      /\ \A i \in 1..Len(toTarget) : Stream[Shifted(i)] = toTarget[i]
  BY StreamOld
<1>4. /\ Shifted(k) \in 1..Len(Stream) /\ Len(Stream) \in Nat \ {0}
      /\ Len(Stream') = Len(Stream)
  BY <1>1, <1>2, <1>3 DEF Shifted
<1>5. ASSUME NEW i \in 1..Len(Stream')
      PROVE  Stream'[i] = IF i = Shifted(k) THEN Junk ELSE Stream[i]
  <2>1. CASE pushback /\ i = 1
    <3>1. i # Shifted(k)
      BY <2>1, <1>3 DEF Shifted
    <3> QED BY <1>2, <1>3, <2>1, <3>1
  <2>2. CASE ~(pushback /\ i = 1)
    <3> DEFINE j == IF pushback THEN i - 1 ELSE i
    <3>1. j \in 1..Len(toTarget') /\ i = Shifted(j)
      BY <1>1, <1>2, <1>3, <1>4, <2>2 DEF Shifted
    <3>2. j \in 1..Len(toTarget)
      BY <1>1, <3>1
    <3>3. j = k <=> i = Shifted(k)
      BY <1>3, <3>1, <3>2 DEF Shifted
    <3> HIDE DEF j
    <3>4. Stream'[i] = toTarget'[j] /\ Stream[i] = toTarget[j]
      BY <1>2, <1>3, <3>1, <3>2
    <3> QED BY <1>1, <3>2, <3>3, <3>4
  <2> QED BY <2>1, <2>2
<1> QED BY <1>2, <1>3, <1>4, <1>5

(* What a fault of the line leaves in the stream: the same tokens in the same
   order, without one or with junk in place of one.                        *)
LEMMA StreamDamaged ==
  ASSUME Types, NEW k \in 1..Len(toTarget), pushback' = pushback,
         toTarget[k].kind \in {"confirm", "start", "rest", "data"},
         \/ toTarget' = RemoveAt(toTarget, k)
         \/ /\ toTarget[k].kind # "confirm"
            /\ toTarget' = [toTarget EXCEPT ![k] = Junk]
  PROVE  /\ Stream' \in Seq(Tokens) /\ Stream # <<>>
         /\ OnlyConfirms => OnlyConfirms'
         /\ JunkFirst => JunkFirst'
         /\ \E old \in [1..Len(Stream') -> 1..Len(Stream)] :
              /\ \A i \in 1..Len(Stream') : /\ Stream'[i] \in {Stream[old[i]], Junk}
                                            /\ Len(Stream') - i <= Len(Stream) - old[i]
              /\ \A i, j \in 1..Len(Stream') : i < j => j - i <= old[j] - old[i]
<1> DEFINE q == Shifted(k)
<1>1. CASE toTarget' = RemoveAt(toTarget, k)
  <2> DEFINE old == [i \in 1..Len(Stream') |-> IF i < q THEN i ELSE i + 1]
  <2>1. /\ Stream' \in Seq(Tokens) /\ q \in 1..Len(Stream) /\ Stream[q] = toTarget[k]
        /\ Len(Stream) \in Nat \ {0} /\ Len(Stream') = Len(Stream) - 1
        /\ \A i \in 1..Len(Stream') : Stream'[i] = IF i < q THEN Stream[i] ELSE Stream[i + 1]
    BY <1>1, StreamLost
  <2> HIDE DEF q
  <2>2. old \in [1..Len(Stream') -> 1..Len(Stream)]
    BY <2>1
  <2>3. \A i \in 1..Len(Stream') : /\ Stream'[i] \in {Stream[old[i]], Junk}
                                   /\ Len(Stream') - i <= Len(Stream) - old[i]
    BY <2>1
  <2>4. \A i, j \in 1..Len(Stream') : i < j => j - i <= old[j] - old[i]
    BY <2>1
  <2>5. \A i \in 1..Len(Stream') : Stream'[i] = Stream[old[i]]
    BY <2>1
  <2>6. ASSUME JunkFirst PROVE JunkFirst'
    <3>1. Stream[1] = Junk
      BY <2>6 DEF JunkFirst
    <3>2. q # 1
      BY <2>1, <3>1, Kinds
    <3>3. Len(Stream') # 0 /\ 1 \in 1..Len(Stream') /\ 1 < q
      BY <2>1, <3>2
    <3>4. Stream'[1] = Junk
      BY <2>1, <3>1, <3>3
    <3> QED BY <3>3, <3>4, Nothing DEF JunkFirst
  <2>7. Stream # <<>>
    BY <2>1, Nothing
  <2> HIDE DEF old
  <2>8. OnlyConfirms => OnlyConfirms'
    BY <2>2, <2>5 DEF OnlyConfirms
  <2> QED BY <2>1, <2>2, <2>3, <2>4, <2>6, <2>7, <2>8
<1>2. CASE toTarget[k].kind # "confirm" /\ toTarget' = [toTarget EXCEPT ![k] = Junk]
  <2> DEFINE old == [i \in 1..Len(Stream') |-> i]
  <2>1. /\ Stream' \in Seq(Tokens) /\ q \in 1..Len(Stream) /\ Stream[q] = toTarget[k]
        /\ Len(Stream) \in Nat \ {0} /\ Len(Stream') = Len(Stream)
        /\ \A i \in 1..Len(Stream') : Stream'[i] = IF i = q THEN Junk ELSE Stream[i]
    BY <1>2, StreamJunked
  <2> HIDE DEF q
  <2>2. old \in [1..Len(Stream') -> 1..Len(Stream)]
    BY <2>1
  <2>3. \A i \in 1..Len(Stream') : /\ Stream'[i] \in {Stream[old[i]], Junk}
                                   /\ Len(Stream') - i <= Len(Stream) - old[i]
    BY <2>1
  <2>4. \A i, j \in 1..Len(Stream') : i < j => j - i <= old[j] - old[i]
    BY <2>1
  <2>5. ~OnlyConfirms
    BY <1>2, <2>1, Kinds DEF OnlyConfirms
  <2>6. ASSUME JunkFirst PROVE JunkFirst'
    <3>1. Stream[1] = Junk /\ 1 \in 1..Len(Stream')
      BY <2>1, <2>6 DEF JunkFirst
    <3>2. Stream'[1] = Junk
      BY <2>1, <3>1
    <3>3. Len(Stream') # 0
      BY <2>1
    <3> QED BY <3>2, <3>3, Nothing DEF JunkFirst
  <2>7. Stream # <<>>
    BY <2>1, Nothing
  <2> HIDE DEF old
  <2> QED BY <2>1, <2>2, <2>3, <2>4, <2>5, <2>6, <2>7
<1> QED BY <1>1, <1>2

(* A token of the line is lost or damaged: nothing overtakes, nothing new
   becomes due.                                                            *)
LEMMA LineFaultIn ==
  ASSUME IInv, IInv', Punctual, Punctual', LineRule, phase # "command" => MidTest,
         phase' = phase, obj' = obj, pushback' = pushback, host' = host, toHost' = toHost,
         NEW k \in 1..Len(toTarget),
         toTarget[k].kind \in {"confirm", "start", "rest", "data"},
         \/ toTarget' = RemoveAt(toTarget, k)
         \/ /\ toTarget[k].kind # "confirm"
            /\ toTarget' = [toTarget EXCEPT ![k] = Junk]
  PROVE  LineRule' /\ (phase' # "command" => MidTest')
<1>1. Types /\ ObjShape
  BY DEF IInv
<1>2. LineRule'
  <2>1. ASSUME NEW i \in 1..Len(toTarget'), Asked(i)'
        PROVE  \E j \in 1..Len(toTarget) : /\ Asked(j) /\ toTarget'[i] = toTarget[j]
                                           /\ j = Len(toTarget) => i = Len(toTarget')
    <3>1. CASE toTarget' = RemoveAt(toTarget, k)
      <4>1. /\ Len(toTarget) \in Nat /\ Len(toTarget') = Len(toTarget) - 1
            /\ \A m \in 1..(Len(toTarget) - 1) :
                 toTarget'[m] = IF m < k THEN toTarget[m] ELSE toTarget[m + 1]
        <5>1. toTarget \in Seq(Tokens) /\ Len(toTarget) \in Nat
          BY <1>1, HostFields
        <5> QED BY <3>1, <5>1, Removed
      <4> DEFINE j == IF i < k THEN i ELSE i + 1
      <4>2. j \in 1..Len(toTarget) /\ (j = Len(toTarget) => i = Len(toTarget'))
        BY <4>1
      <4>3. toTarget'[i] = toTarget[j]
        BY <4>1
      <4> HIDE DEF j
      <4>4. Asked(j)
        BY <2>1, <4>2, <4>3 DEF Asked
      <4> QED BY <4>2, <4>3, <4>4
    <3>2. CASE toTarget' = [toTarget EXCEPT ![k] = Junk]
      <4>1. /\ Len(toTarget') = Len(toTarget)
            /\ \A m \in 1..Len(toTarget) : toTarget'[m] = IF m = k THEN Junk ELSE toTarget[m]
        BY <1>1, <3>2, Kinds, ExceptSeq DEF Types
      <4>2. i # k
        BY <2>1, <4>1, Kinds DEF Asked
      <4>3. i \in 1..Len(toTarget) /\ toTarget'[i] = toTarget[i]
        BY <4>1, <4>2
      <4> QED BY <2>1, <4>1, <4>3 DEF Asked
    <3> QED BY <3>1, <3>2
  <2>2. ASSUME NEW i \in 1..Len(toTarget'), Asked(i)'
        PROVE  /\ i = Len(toTarget') /\ toHost' = <<>>
               /\ host'.state \in {"ready", "gone"} /\ host'.base = 0 /\ host'.heard = -1
               /\ toTarget'[i].window = host'.window
    <3>1. PICK j \in 1..Len(toTarget) : /\ Asked(j) /\ toTarget'[i] = toTarget[j]
                                        /\ j = Len(toTarget) => i = Len(toTarget')
      BY <2>1, <2>2
    <3> QED BY <3>1 DEF LineRule
  <2> QED BY <2>2 DEF LineRule, Ended
<1>3. ASSUME phase # "command" PROVE MidTest'
  <2>1. /\ Stream' \in Seq(Tokens) /\ Stream # <<>>
        /\ OnlyConfirms => OnlyConfirms'
        /\ JunkFirst => JunkFirst'
        /\ \E old \in [1..Len(Stream') -> 1..Len(Stream)] :
              /\ \A i \in 1..Len(Stream') : /\ Stream'[i] \in {Stream[old[i]], Junk}
                                            /\ Len(Stream') - i <= Len(Stream) - old[i]
              /\ \A i, j \in 1..Len(Stream') : i < j => j - i <= old[j] - old[i]
    BY <1>1, StreamDamaged
  <2>2. MidTest /\ ~Ready /\ ~UnheardClean
    BY <1>3, <2>1 DEF Ready, UnheardClean
  <2>3. Due' = Due /\ Next1' = Next1 /\ Heard' = Heard
    BY SameDue DEF Heard
  <2>4. /\ (host.window = obj.window)'
        /\ (host.state # "gone" => (host.state = "result" <=> host.base = Frames))'
        /\ (host.base = obj.base \/ (phase = "ack" /\ obj.bitmap = {} /\ host.base = Next1))'
    BY <2>2, <2>3 DEF MidTest
  <2>5. ASSUME Heard /\ HeardState PROVE MidTest'
    <3>1. Burst'
      BY <1>1, <1>3, <2>1, <2>3, <2>5, BurstKept DEF HeardState
    <3>2. HeardState'
      BY <2>1, <2>5, <3>1 DEF HeardState, Fresh
    <3> QED BY <2>3, <2>4, <2>5, <3>2 DEF MidTest
  <2>6. ASSUME UnheardState PROVE MidTest'
    <3>1. UnheardState'
      BY <2>1, <2>6 DEF UnheardState, Fresh
    <3> QED BY <2>4, <3>1 DEF MidTest
  <2> QED BY <2>2, <2>5, <2>6 DEF MidTest
<1> QED BY <1>2, <1>3

LEMMA AckFaultIn ==
  ASSUME IInv, IInv', Punctual, Punctual', LineRule, phase # "command" => MidTest,
         phase' = phase, obj' = obj, pushback' = pushback, host' = host, toTarget' = toTarget,
         NEW k \in 1..Len(toHost), toHost[k].kind = "ack", toHost' = RemoveAt(toHost, k)
  PROVE  LineRule' /\ (phase' # "command" => MidTest')
<1>1. Types /\ ObjShape
  BY DEF IInv
<1>2. /\ toHost' \in Seq(Lines) /\ Len(toHost) \in Nat /\ Len(toHost') = Len(toHost) - 1
      /\ \A j \in 1..(Len(toHost) - 1) : toHost'[j] = IF j < k THEN toHost[j] ELSE toHost[j + 1]
      /\ toHost # <<>>
  <2>1. toHost \in Seq(Lines) /\ Len(toHost) \in Nat
    BY <1>1, HostFields
  <2>2. toHost = <<>> => Len(toHost) = 0
    BY Nothing
  <2>3. toHost # <<>>
    BY <2>1, <2>2
  <2> QED BY <2>1, <2>3, Removed
<1>3. ASSUME NEW j \in 1..Len(toHost')
      PROVE  \E m \in 1..Len(toHost) : /\ toHost'[j] = toHost[m]
                                       /\ m = Len(toHost) => j = Len(toHost')
  <2> DEFINE m == IF j < k THEN j ELSE j + 1
  <2>1. m \in 1..Len(toHost) /\ (m = Len(toHost) => j = Len(toHost'))
    BY <1>2
  <2>2. toHost'[j] = toHost[m]
    BY <1>2
  <2> HIDE DEF m
  <2> QED BY <2>1, <2>2
<1>4. LineRule'
  <2>1. \A j \in 1..Len(toHost') : Ended(j)' => j = Len(toHost')
    BY <1>3 DEF LineRule, Ended
  <2> QED BY <1>2, <2>1 DEF LineRule, Asked
<1>5. ASSUME phase # "command" PROVE MidTest'
  <2>1. /\ Stream' = Stream /\ Due' = Due /\ Next1' = Next1 /\ Heard' = Heard
    BY <1>1, SameToTarget, SameDue DEF Heard
  <2>2. /\ (host.window = obj.window)'
        /\ (host.state # "gone" => (host.state = "result" <=> host.base = Frames))'
        /\ (host.base = obj.base \/ (phase = "ack" /\ obj.bitmap = {} /\ host.base = Next1))'
    BY <1>5, <2>1 DEF MidTest
  <2>3. ~Ready
    <3>1. ASSUME Ready PROVE FALSE
      <4>1. toHost = <<Reply("ready")>>
        BY <1>2, <3>1 DEF Ready
      <4>2. k = 1 /\ toHost[1] = Reply("ready")
        BY <4>1
      <4> QED BY <4>2, ReplyLines
    <3> QED BY <3>1
  <2>4. /\ OnlyConfirms' = OnlyConfirms /\ JunkFirst' = JunkFirst /\ InOrder' = InOrder
    BY <2>1 DEF OnlyConfirms, JunkFirst, InOrder, Framed
  <2>5. StillDue => StillDue'
    BY <2>1 DEF StillDue, Framed, Closing
  <2>6. Burst => Burst'
    BY <2>1, <2>4, <2>5 DEF Burst
  <2>7. Len(toHost) = 1 => toHost' = <<>>
    BY <1>2, Nothing
  <2>8. ASSUME HeardState PROVE HeardState'
    <3>1. ASSUME NEW j \in 1..Len(toHost') PROVE (toHost[j].kind = "ack")' /\ ~Fresh(toHost[j])'
      <4>1. PICK m \in 1..Len(toHost) : toHost'[j] = toHost[m]
        BY <1>3
      <4>2. toHost[m].kind = "ack" /\ ~Fresh(toHost[m])
        BY <2>8 DEF HeardState
      <4> QED BY <4>1, <4>2 DEF Fresh
    <3>2. toHost' # <<>> => JunkFirst'
      BY <1>2, <2>4, <2>7, <2>8 DEF HeardState
    <3> QED BY <2>6, <2>8, <3>1, <3>2 DEF HeardState
  <2>9. ASSUME UnheardState PROVE UnheardState'
    <3>1. ASSUME NEW j \in 1..Len(toHost')
          PROVE  /\ (toHost[j].kind = "ack")'
                 /\ Fresh(toHost[j])' =>
                      /\ j = Len(toHost') /\ (toHost[j].bitmap = obj.bitmap)'
                      /\ (toHost[j].round = IF phase = "frame" THEN obj.round - 1 ELSE obj.round)'
      <4>1. PICK m \in 1..Len(toHost) : /\ toHost'[j] = toHost[m]
                                        /\ m = Len(toHost) => j = Len(toHost')
        BY <1>3
      <4>2. Fresh(toHost[j])' = Fresh(toHost[m])
        BY <4>1 DEF Fresh
      <4> QED BY <2>9, <4>1, <4>2 DEF UnheardState
    <3> QED BY <2>4, <2>9, <3>1 DEF UnheardState
  <2>10. ASSUME UnheardClean PROVE UnheardClean'
    <3>1. toHost = <<Ack(obj)>>
      BY <1>2, <2>10 DEF UnheardClean
    <3>2. toHost' = <<>>
      BY <2>7, <3>1
    <3> QED BY <2>1, <2>10, <3>2 DEF UnheardClean
  <2> QED BY <1>5, <2>1, <2>2, <2>3, <2>8, <2>9, <2>10 DEF MidTest
<1> QED BY <1>4, <1>5

LEMMA FaultIn ==
  ASSUME IInv, IInv', Punctual, Punctual', LineRule, phase # "command" => MidTest, Fault
  PROVE  LineRule' /\ (phase' # "command" => MidTest')
<1>1. /\ phase' = phase /\ obj' = obj /\ pushback' = pushback /\ host' = host
      /\ \/ /\ toHost' = toHost
            /\ \E k \in 1..Len(toTarget) :
                 toTarget[k] = Confirm /\ toTarget' = RemoveAt(toTarget, k)
         \/ /\ toHost' = toHost
            /\ \E k \in 1..Len(toTarget) :
                 /\ toTarget[k].kind \in {"start", "rest", "data"}
                 /\ \/ toTarget' = RemoveAt(toTarget, k)
                    \/ toTarget[k] # Start /\ toTarget' = [toTarget EXCEPT ![k] = Junk]
         \/ /\ toTarget' = toTarget
            /\ \E k \in 1..Len(toHost) :
                 toHost[k].kind = "ack" /\ toHost' = RemoveAt(toHost, k)
  BY LineFaultGood
<1>2. ASSUME toHost' = toHost, NEW k \in 1..Len(toTarget),
             toTarget[k] = Confirm, toTarget' = RemoveAt(toTarget, k)
      PROVE  LineRule' /\ (phase' # "command" => MidTest')
  <2>1. toTarget[k].kind \in {"confirm", "start", "rest", "data"}
    BY <1>2, Kinds
  <2> QED BY <1>1, <1>2, <2>1, LineFaultIn
<1>3. ASSUME toHost' = toHost, NEW k \in 1..Len(toTarget),
             toTarget[k].kind \in {"start", "rest", "data"},
             \/ toTarget' = RemoveAt(toTarget, k)
             \/ toTarget' = [toTarget EXCEPT ![k] = Junk]
      PROVE  LineRule' /\ (phase' # "command" => MidTest')
  <2>1. toTarget[k].kind \in {"confirm", "start", "rest", "data"} /\ toTarget[k].kind # "confirm"
    BY <1>3
  <2> QED BY <1>1, <1>3, <2>1, LineFaultIn
<1>4. ASSUME toTarget' = toTarget, NEW k \in 1..Len(toHost),
             toHost[k].kind = "ack", toHost' = RemoveAt(toHost, k)
      PROVE  LineRule' /\ (phase' # "command" => MidTest')
  BY <1>1, <1>4, AckFaultIn
<1> QED BY <1>1, <1>2, <1>3, <1>4

-----------------------------------------------------------------------------
(* The two ends stay in step.                                              *)

LEMMA InStepAtFirst ==
  ASSUME Init
  PROVE  InStep
<1>1. phase = "command" /\ pushback = FALSE /\ toTarget = <<>> /\ toHost = <<>>
  BY DEF Init
<1>2. \A i \in 1..Len(toTarget) : FALSE
  BY <1>1, Nothing
<1>3. \A j \in 1..Len(toHost) : FALSE
  BY <1>1, Nothing
<1> QED BY <1>1, <1>2, <1>3 DEF InStep, LineRule

LEMMA FaultsOnlyGrow ==
  ASSUME IInv, [Next]_vars
  PROVE  FaultsGrow /\ Len(faults) \in Nat /\ Len(faults) <= Len(faults')
<1>1. Types /\ Len(faults) \in Nat
  BY LenProperties DEF IInv, Types
<1>2. CASE faults' = faults
  BY <1>1, <1>2, FaultsSame
<1>4. CASE \E kind \in FaultKinds : Noted(kind)
  BY <1>1, <1>4, FaultNoted
<1>3. CASE TimedOut
  BY <1>2, <1>3, <1>4 DEF TimedOut, FaultKinds
<1>5. Host => faults' = faults
  BY DEF Host
<1>6. HostVanishes => faults' = faults
  BY DEF HostVanishes
<1>7. DeadlinePassed \/ HostGivesUp \/ Fault => \E kind \in FaultKinds : Noted(kind)
  BY DEF DeadlinePassed, HostGivesUp, Fault, LoseConfirm, DamageFrame, DamageAck, FaultKinds
<1>8. HeaderTimeout \/ PayloadTimeout \/ AckTimeout => TimedOut
  BY DEF HeaderTimeout, PayloadTimeout, AckTimeout
<1>9. ReadCommand \/ OpenWindow \/ FinishObject \/ HeaderInvalid => faults' = faults
  BY DEF ReadCommand, OpenWindow, FinishObject, HeaderInvalid
<1>10. DataInvalid \/ StoreFrame \/ ReadConfirmation \/ ReadOtherByte => faults' = faults
  BY DEF DataInvalid, StoreFrame, ReadConfirmation, ReadOtherByte
<1>11. UNCHANGED vars => faults' = faults
  BY DEF vars
<1> QED BY <1>2, <1>3, <1>4, <1>5, <1>6, <1>7, <1>8, <1>9, <1>10, <1>11 DEF Next, Target

LEMMA InStepKept ==
  ASSUME IInv, IInv', InStep, [Next]_vars
  PROVE  InStep'
<1> SUFFICES ASSUME Punctual' PROVE LineRule' /\ (phase' # "command" => MidTest')
  BY DEF InStep
<1>1. Punctual /\ LineRule /\ (phase # "command" => MidTest)
  BY FaultsOnlyGrow, PunctualBack DEF InStep, IInv
<1>2. CASE ReadCommand
  BY <1>1, <1>2, ReadCommandIn
<1>3. CASE OpenWindow
  <2>1. phase # "command"
    BY <1>3 DEF OpenWindow
  <2> QED BY <1>1, <1>3, <2>1, OpenWindowIn
<1>4. CASE FinishObject
  <2>1. phase # "command"
    BY <1>4 DEF FinishObject
  <2> QED BY <1>1, <1>4, <2>1, FinishIn
<1>5. CASE HeaderInvalid \/ HeaderTimeout \/ PayloadTimeout
  <2>1. phase = "frame"
    BY <1>5 DEF HeaderInvalid, HeaderTimeout, PayloadTimeout
  <2> QED BY <1>1, <1>5, <2>1, BadHeaderIn
<1>6. CASE DataInvalid
  <2>1. phase # "command"
    BY <1>6 DEF DataInvalid
  <2> QED BY <1>1, <1>6, <2>1, DataInvalidIn
<1>7. CASE StoreFrame
  <2>1. phase # "command"
    BY <1>7 DEF StoreFrame
  <2> QED BY <1>1, <1>7, <2>1, StoreFrameIn
<1>8. CASE ReadConfirmation
  <2>1. phase # "command"
    BY <1>8 DEF ReadConfirmation
  <2> QED BY <1>1, <1>8, <2>1, ReadConfirmationIn
<1>9. CASE AckTimeout
  <2>1. phase # "command"
    BY <1>9 DEF AckTimeout
  <2> QED BY <1>1, <1>9, <2>1, AckTimeoutIn
<1>10. CASE ReadOtherByte
  <2>1. phase # "command"
    BY <1>10 DEF ReadOtherByte
  <2> QED BY <1>1, <1>10, <2>1, ReadOtherByteIn
<1>11. CASE DeadlinePassed
  BY <1>1, <1>11, DeadlineIn
<1>12. CASE Host
  <2>1. UNCHANGED <<phase, obj, stored, pushback, outcome, faults>>
    BY <1>12 DEF Host
  <2>2. CASE HostCommand
    BY <1>1, <2>1, <2>2, HostCommandIn
  <2>3. CASE HostBegin
    BY <1>1, <2>1, <2>3, HostBeginIn
  <2>4. CASE HostSend
    BY <1>1, <2>1, <2>4, HostSendIn
  <2>5. CASE HostAck
    BY <1>1, <2>1, <2>5, HostAckIn
  <2>6. CASE HostAckAgain
    BY <1>1, <2>1, <2>6, HostAckAgainIn
  <2>7. CASE HostResult
    BY <1>1, <2>1, <2>7, HostResultIn
  <2>8. CASE HostSkip
    BY <1>1, <2>1, <2>8, HostSkipIn
  <2> QED BY <1>12, <2>2, <2>3, <2>4, <2>5, <2>6, <2>7, <2>8 DEF Host
<1>13. CASE HostGivesUp
  BY <1>13, HostGivesUpKeeps DEF Punctual, Only
<1>14. CASE HostVanishes
  BY <1>1, <1>14, HostVanishesIn
<1>15. CASE Fault
  BY <1>1, <1>15, FaultIn
<1>16. CASE UNCHANGED vars
  <2>1. LineRule' = LineRule
    BY <1>16 DEF vars, LineRule, Asked, Ended
  <2>2. /\ Stream' = Stream /\ Due' = Due /\ Next1' = Next1 /\ Heard' = Heard
    BY <1>16, SameToTarget, SameDue DEF vars, Heard, IInv
  <2>3. Ready' = Ready /\ UnheardClean' = UnheardClean
    BY <1>16, <2>2 DEF vars, Ready, UnheardClean
  <2>4. /\ OnlyConfirms' = OnlyConfirms /\ JunkFirst' = JunkFirst /\ InOrder' = InOrder
    BY <2>2 DEF OnlyConfirms, JunkFirst, InOrder, Framed
  <2>5. StillDue' = StillDue
    BY <1>16, <2>2 DEF vars, StillDue, Framed, Closing
  <2>6. HeardState' = HeardState
    BY <1>16, <2>2, <2>4, <2>5 DEF vars, HeardState, Burst, Fresh
  <2>7. UnheardState' = UnheardState
    BY <1>16, <2>4 DEF vars, UnheardState, Fresh
  <2>8. MidTest' = MidTest
    BY <1>16, <2>2, <2>3, <2>6, <2>7 DEF vars, MidTest
  <2> QED BY <1>1, <1>16, <2>1, <2>8 DEF vars
<1> QED BY <1>2, <1>3, <1>4, <1>5, <1>6, <1>7, <1>8, <1>9, <1>10, <1>11, <1>12, <1>13,
           <1>14, <1>15, <1>16 DEF Next, Target

LEMMA StepInvariant == Spec => [](IInv /\ InStep)
<1>1. Init => IInv /\ InStep
  BY Initially, InStepAtFirst
<1>2. IInv /\ InStep /\ [Next]_vars => IInv' /\ InStep'
  BY Inductive, InStepKept
<1> QED BY <1>1, <1>2, PTL DEF Spec

(* As long as nobody is late or gives up, the receiver moves its window only
   when the host has heard the ACK that says so, whatever confirmations,
   frames and ACKs the line loses or damages.                              *)
THEOREM AcksHeardFirst == Spec => []AckHeardFirst
<1>1. IInv /\ InStep => AckHeardFirst
  <2>1. SUFFICES ASSUME IInv, InStep, Only({"confirm", "frame", "ack"}), phase # "command"
                 PROVE  obj.base <= host.base
    BY DEF AckHeardFirst
  <2>2. Punctual
    BY <2>1 DEF Only, Punctual
  <2>3. host.base = obj.base \/ (phase = "ack" /\ host.base = Next1)
    BY <2>1, <2>2 DEF InStep, MidTest
  <2>4. obj.base \in Nat /\ Next1 >= obj.base
    <3>1. obj.base \in 0..Frames
      BY <2>1, ObjFields DEF IInv
    <3>2. Next1 = obj.base + Count(obj.base, obj.window) /\ Count(obj.base, obj.window) \in Nat
      <4>1. Count(obj.base, obj.window) \in 0..MaxWindow /\ MaxWindow \in Nat
        <5>1. obj.base \in 0..Frames /\ obj.window \in Windows \union {1}
          BY <2>1, ObjFields DEF IInv
        <5> QED BY <5>1, Sizes, TransferAssumption
      <4> QED BY <4>1 DEF Next1
    <3> QED BY <3>1, <3>2
  <2> QED BY <2>3, <2>4
<1> QED BY <1>1, StepInvariant, PTL

(* The byte that was pushed back has been used when a test ends, unless the
   host was late or gave up.                                               *)
THEOREM NoPushbackLeft == Spec => []NoStalePushback
<1>1. IInv /\ InStep => NoStalePushback
  BY DEF InStep, LineRule, NoStalePushback, Punctual
<1> QED BY <1>1, StepInvariant, PTL

-----------------------------------------------------------------------------
(* When only confirmations get lost, no frame is refused.                  *)

LEMMA DueBounds ==
  ASSUME IInv, phase # "command"
  PROVE  /\ LowDue \in Nat /\ EndDue \in Nat /\ LowDue <= EndDue /\ EndDue <= Frames
         /\ Frames \in Nat /\ obj.base \in Nat /\ Next1 \in Nat
         /\ Next1 <= Frames /\ Count(obj.base, obj.window) \in Nat
         /\ phase \in {"frame", "ack"} => obj.base < Next1
         /\ phase = "frame" => LowDue < EndDue /\ LowDue = Here /\ EndDue = Next1
         /\ phase = "window" => LowDue = obj.base /\ EndDue = Next1
         /\ phase = "ack" => LowDue = Next1 /\ (LowDue = EndDue <=> Next1 = Frames)
<1>1. /\ Types /\ ObjShape
      /\ Frames \in Nat /\ obj.base \in 0..Frames /\ Next1 \in 0..Frames
      /\ Next1 = obj.base + Count(obj.base, obj.window)
      /\ obj.window \in Windows \union {1}
      /\ phase \in {"window", "frame", "ack"}
  BY DueFacts, ObjFields DEF IInv, Types
<1>2. /\ \A w \in Windows \union {1} : w \in Nat \ {0}
      /\ Count(obj.base, obj.window) \in Nat /\ Count(Next1, obj.window) \in Nat
      /\ Next1 + Count(Next1, obj.window) \in 0..Frames
      /\ Count(Next1, obj.window) = 0 <=> Next1 = Frames
  <2>1. \A w \in Windows \union {1} : w \in Nat \ {0}
    BY TransferAssumption
  <2>2. \A b \in 0..Frames : \A w \in Nat \ {0} :
          /\ Count(b, w) \in Nat /\ b + Count(b, w) \in 0..Frames
          /\ Count(b, w) = 0 <=> b = Frames
    BY <1>1 DEF Count
  <2> QED BY <1>1, <2>1, <2>2
<1>3. phase \in {"frame", "ack"} => Count(obj.base, obj.window) # 0 /\ obj.pos \in Nat
  <2>1. phase \in {"frame", "ack"} => /\ Count(obj.base, obj.window) \in 1..MaxWindow
                                      /\ obj.pos \in Slots /\ Slots \subseteq Nat
    BY <1>1, WindowFacts, ObjFields
  <2> QED BY <2>1
<1>4. phase = "frame" => obj.pos < Count(obj.base, obj.window)
  BY <1>1 DEF ObjShape
<1>5. obj.base \in Nat /\ Next1 \in Nat /\ Next1 <= Frames /\ obj.base <= Next1
  BY <1>1, <1>2
<1>6. CASE phase = "window"
  BY <1>5, <1>1, <1>2, <1>6 DEF LowDue, EndDue
<1>7. CASE phase = "frame"
  BY <1>5, <1>1, <1>2, <1>3, <1>4, <1>7 DEF LowDue, EndDue, Here
<1>8. CASE phase = "ack"
  BY <1>5, <1>1, <1>2, <1>3, <1>8 DEF LowDue, EndDue
<1> QED BY <1>1, <1>6, <1>7, <1>8

(* How a stream of whole frames begins.                                    *)
LEMMA WholeBegins ==
  ASSUME IInv, phase # "command", NEW c \in 0..1, NEW g \in LowDue..EndDue, WholeFrames(c, g)
  PROVE  /\ Len(Stream) \in Nat /\ Len(Stream) = c + 3 * (g - LowDue) /\ g \in Nat
         /\ Stream = <<>> <=> c = 0 /\ g = LowDue
         /\ c = 1 => phase = "ack" /\ Stream[1] = Confirm
         /\ c = 0 /\ Stream # <<>> =>
              /\ LowDue < g /\ Len(Stream) >= 3
              /\ Stream[1] = Start
              /\ Stream[2].kind = "rest" /\ Stream[2].sequence = LowDue
              /\ Stream[3].kind = "data" /\ Stream[3].sequence = LowDue
         /\ ~JunkFirst
<1>1. /\ LowDue \in Nat /\ EndDue \in Nat /\ g \in Nat /\ LowDue <= g /\ Types
  BY DueBounds DEF IInv
<1>2. /\ Len(Stream) \in Nat /\ Len(Stream) = c + 3 * (g - LowDue)
      /\ Stream \in Seq(Tokens)
  BY <1>1, StreamSeq DEF WholeFrames
<1>3. Stream = <<>> <=> Len(Stream) = 0
  BY <1>2, Nothing
<1>4. Stream = <<>> <=> c = 0 /\ g = LowDue
  BY <1>1, <1>2, <1>3
<1>5. c = 1 => phase = "ack" /\ Stream[1] = Confirm
  BY DEF WholeFrames
<1>6. ASSUME c = 0, Stream # <<>>
      PROVE  /\ LowDue < g /\ Len(Stream) >= 3
             /\ Stream[1] = Start
             /\ Stream[2].kind = "rest" /\ Stream[2].sequence = LowDue
             /\ Stream[3].kind = "data" /\ Stream[3].sequence = LowDue
  <2>1. LowDue < g
    BY <1>1, <1>4, <1>6
  <2>2. 0 \in 0..(g - LowDue - 1)
    BY <1>1, <2>1
  <2>3. Frame(c + 3 * 0, LowDue + 0)
    BY <2>2 DEF WholeFrames
  <2>4. /\ c + 3 * 0 + 1 = 1 /\ c + 3 * 0 + 2 = 2 /\ c + 3 * 0 + 3 = 3
        /\ LowDue + 0 = LowDue
    BY <1>1, <1>6
  <2>5. Len(Stream) >= 3
    BY <1>1, <1>2, <1>6, <2>1
  <2> QED BY <2>1, <2>3, <2>4, <2>5 DEF Frame
<1>7. ~JunkFirst
  BY <1>5, <1>6, Kinds DEF JunkFirst
<1> QED BY <1>1, <1>2, <1>4, <1>5, <1>6, <1>7

(* Where the two ends are.                                                 *)
AtReady == Ready /\ phase \in {"window", "frame"} /\ toHost = <<Reply("ready")>>
AtAnswer ==
  /\ phase = "ack" /\ host.base = obj.base /\ host.state = "ack"
  /\ Stream = <<>> /\ toHost = <<Ack(obj)>> /\ obj.attempt = 1 /\ host.heard < obj.round
AtFrames ==
  /\ Heard /\ HeardState
  /\ phase = "ack" => host.base = Next1 /\ host.base # obj.base
  /\ host.state \in {"send", "ack", "result"}
  /\ \E c \in 0..1, g \in LowDue..EndDue : WholeFrames(c, g)

LEMMA WhereTheyAre ==
  ASSUME IInv, InStep, NothingRefused, OnlyConfirmsLost, phase # "command"
  PROVE  /\ Punctual /\ MidTest /\ Lossless /\ obj.bitmap = {} /\ host.state # "gone"
         /\ AtReady \/ AtAnswer \/ AtFrames
<1>1. Punctual /\ host.state # "gone"
  BY DEF OnlyConfirmsLost, Punctual, Only
<1>2. MidTest /\ Lossless /\ obj.bitmap = {}
  BY <1>1 DEF InStep, NothingRefused, Unharmed
<1>3. CASE Ready
  BY <1>1, <1>2, <1>3 DEF Ready, AtReady
<1>4. CASE Heard /\ HeardState
  <2>1. phase = "ack" => host.base = Next1
    BY <1>2, <1>4 DEF Heard
  <2>2. phase = "ack" => host.base # obj.base
    BY <2>1, DueBounds
  <2>3. ~Ready => \E c \in 0..1, g \in LowDue..EndDue : WholeFrames(c, g)
    BY <1>2, <2>2 DEF Lossless
  <2>4. host.state \in {"send", "ack", "result"}
    BY <1>1, <1>4 DEF HeardState
  <2>5. Ready => host.state = "ready"
    BY <1>1 DEF Ready
  <2> QED BY <1>1, <1>2, <1>4, <2>1, <2>2, <2>3, <2>4, <2>5 DEF AtFrames
<1>5. CASE UnheardState
  BY <1>2, <1>5 DEF UnheardState
<1>6. CASE UnheardClean
  BY <1>1, <1>2, <1>6 DEF UnheardClean, Lossless, Waiting, AtAnswer
<1> QED BY <1>1, <1>2, <1>3, <1>4, <1>5, <1>6 DEF MidTest

(* The frame that arrives is the one the target waits for.                 *)
LEMMA FrameComes ==
  ASSUME IInv, InStep, NothingRefused, OnlyConfirmsLost, phase = "frame"
  PROVE  /\ Stream # <<>> => /\ HeaderArrived /\ HeaderValid /\ Len(Stream) >= 3 /\ OwnData
                             /\ AtFrames
         /\ Stream = <<>> => ~Quiet
<1>1. /\ Punctual /\ MidTest /\ obj.bitmap = {} /\ host.state # "gone" /\ Types
      /\ AtReady \/ AtFrames
  BY WhereTheyAre DEF AtAnswer, IInv
<1>2. CASE AtReady
  <2>1. Stream = <<>> /\ toHost # <<>>
    BY <1>2, Nothing DEF AtReady, Ready
  <2> QED BY <2>1 DEF Quiet
<1>3. CASE AtFrames
  <2>1. PICK c \in 0..1, g \in LowDue..EndDue : WholeFrames(c, g)
    BY <1>3 DEF AtFrames
  <2>2. c = 0
    BY <2>1 DEF WholeFrames
  <2>3. ASSUME Stream # <<>>
        PROVE  HeaderArrived /\ HeaderValid /\ Len(Stream) >= 3 /\ OwnData
    <3>1. /\ Len(Stream) \in Nat /\ Len(Stream) >= 3
          /\ Stream[1] = Start
          /\ Stream[2].kind = "rest" /\ Stream[2].sequence = LowDue
          /\ Stream[3].kind = "data" /\ Stream[3].sequence = LowDue
      BY <2>1, <2>2, <2>3, WholeBegins
    <3>2. LowDue = obj.base + obj.pos
      BY DEF LowDue
    <3>3. HeaderValid
      BY <3>1, <3>2 DEF HeaderValid
    <3>4. 2 \in 1..Len(Stream) /\ 3 \in 1..Len(Stream) /\ Framed(2) /\ Framed(3)
      BY <3>1 DEF Framed
    <3>5. Stream[2].test = host.test /\ Stream[3].test = host.test
      BY <1>1, <3>4, OwnTokens
    <3>6. HeaderArrived
      <4>1. DOMAIN Stream = 1..Len(Stream)
        BY <1>1, StreamSeq, LenProperties
      <4> QED BY <3>1, <3>4, <4>1 DEF HeaderArrived
    <3> QED BY <3>1, <3>3, <3>5, <3>6 DEF OwnData
  <2>4. ASSUME Stream = <<>>, Quiet PROVE FALSE
    <3>1. g = LowDue /\ LowDue < EndDue /\ LowDue \in Nat /\ EndDue \in Nat
      BY <2>1, <2>4, WholeBegins, DueBounds
    <3>2. host.state # "send" /\ host.state \in {"send", "ack", "result"}
      BY <1>3, <2>4 DEF Quiet, AtFrames
    <3>3. g = EndDue
      BY <2>1, <3>2 DEF WholeFrames
    <3> QED BY <3>1, <3>3
  <2> QED BY <1>3, <2>3, <2>4
<1> QED BY <1>1, <1>2, <1>3

LEMMA NoBadHeader ==
  ASSUME IInv, IInv', InStep, NothingRefused, OnlyConfirmsLost, OnlyConfirmsLost',
         HeaderInvalid \/ HeaderTimeout \/ PayloadTimeout \/ DataInvalid
  PROVE  FALSE
<1>1. phase = "frame" /\ Types
  BY DEF HeaderInvalid, HeaderTimeout, PayloadTimeout, DataInvalid, IInv
<1>2. /\ Stream # <<>> => /\ HeaderArrived /\ HeaderValid /\ Len(Stream) >= 3 /\ OwnData
      /\ Stream = <<>> => ~Quiet
  BY <1>1, FrameComes
<1>3. Stream = <<>> => ~HeaderArrived /\ Len(Stream) = 0
  BY Nothing DEF HeaderArrived
<1>4. CASE HeaderInvalid
  BY <1>2, <1>3, <1>4 DEF HeaderInvalid
<1>5. CASE HeaderTimeout
  <2>1. "late" \notin ToSet(faults')
    BY DEF OnlyConfirmsLost, Only
  <2>2. Quiet
    BY <1>1, <1>5, <2>1, TimeoutFaults DEF HeaderTimeout
  <2> QED BY <1>2, <1>5, <2>2 DEF HeaderTimeout
<1>6. CASE PayloadTimeout
  <2>1. Len(Stream) = 2
    BY <1>6 DEF PayloadTimeout
  <2> QED BY <1>2, <1>3, <2>1
<1>7. CASE DataInvalid
  <2>1. ~OwnData /\ Len(Stream) >= 3
    BY <1>7 DEF DataInvalid
  <2> QED BY <1>2, <1>3, <2>1
<1> QED BY <1>4, <1>5, <1>6, <1>7

LEMMA StoreFrameFine ==
  ASSUME IInv, IInv', InStep, NothingRefused, OnlyConfirmsLost, OnlyConfirmsLost', StoreFrame
  PROVE  Unharmed'
<1>1. /\ phase = "frame" /\ HeaderValid /\ Len(Stream) >= 3 /\ OwnData
      /\ host' = host /\ faults' = faults
      /\ ~(obj.round = 0 /\ stored[Here] # 0) =>
              /\ FrameRead(TRUE) /\ Consume(3) /\ outcome' = outcome
              /\ stored' = [stored EXCEPT ![Here] = Stream[2].test]
              /\ stored'[Here] # 0
              /\ stored' \in [Slots -> 0..MaxTests]
              /\ \A s \in Slots : stored[s] # 0 => stored'[s] # 0
      /\ Types /\ ObjShape /\ TakenStored
  BY StoreFrameGood DEF IInv
<1>2. /\ Lossless /\ obj.bitmap = {} /\ outcome # "fail" /\ MidTest /\ host.state # "gone"
      /\ Len(Stream) \in Nat
  BY <1>1, WhereTheyAre, StreamSeq DEF NothingRefused, Unharmed
<1>3. /\ LowDue = Here /\ Here \in Slots /\ Slots \subseteq Nat /\ LowDue \in Nat
      /\ EndDue \in Nat /\ EndDue = Next1 /\ LowDue < EndDue /\ Next1 \in Nat
      /\ obj.base \in Nat /\ Count(obj.base, obj.window) \in Nat
  BY <1>1, DueBounds, WindowFacts, ObjFields
<1>4. obj.round = 0 /\ stored[Here] = 0
  <2>1. Here >= LowDue
    BY <1>3
  <2> QED BY <1>1, <1>2, <1>3, <2>1 DEF Lossless
<1>5. /\ FrameRead(TRUE) /\ Consume(3) /\ outcome' = outcome
      /\ stored' = [stored EXCEPT ![Here] = Stream[2].test]
      /\ stored'[Here] # 0
      /\ stored' \in [Slots -> 0..MaxTests]
      /\ \A s \in Slots : stored[s] # 0 => stored'[s] # 0
  BY <1>1, <1>4
<1>6. /\ phase' \in {"frame", "ack"}
      /\ obj'.window = obj.window /\ obj'.base = obj.base
      /\ obj'.round = obj.round /\ obj'.bitmap = MarkFrame(TRUE)
      /\ phase' = "frame" => /\ Remaining(obj'.bitmap) # {}
                             /\ obj'.pos = Least(Remaining(obj'.bitmap))
      /\ phase' = "ack" => Remaining(obj'.bitmap) = {} /\ obj'.attempt = 1 /\ Say(Ack(obj'))
  BY <1>1, <1>5, FrameReadGood
<1>7. obj'.bitmap = {}
  BY <1>2, <1>6 DEF MarkFrame
<1>8. Stream # <<>>
  BY <1>1, HeaderSays
<1>9. AtFrames
  BY <1>1, <1>8, FrameComes
<1>10. PICK c \in 0..1, g \in LowDue..EndDue : WholeFrames(c, g)
  BY <1>9 DEF AtFrames
<1>11. /\ c = 0 /\ g \in Nat /\ LowDue < g /\ g <= EndDue /\ Len(Stream) = 3 * (g - LowDue)
  BY <1>1, <1>3, <1>8, <1>10, WholeBegins
<1>12. /\ Len(Stream') = Len(Stream) - 3
       /\ \A i \in 1..(Len(Stream) - 3) : Stream'[i] = Stream[3 + i]
  <2>1. 3 \in 0..Len(Stream)
    BY <1>1, <1>2
  <2> QED BY <1>1, <1>5, <2>1, Consumed
<1>13. Remaining({}) = {p \in InWindow : p > obj.pos}
  BY <1>4 DEF Remaining, InWindow
<1>14. /\ InWindow = 0..(Count(obj.base, obj.window) - 1) /\ obj.pos \in Nat
       /\ Here = obj.base + obj.pos /\ Next1 = obj.base + Count(obj.base, obj.window)
  <2>1. obj.pos \in Slots
    BY <1>1, ObjFields
  <2> QED BY <1>3, <2>1 DEF InWindow, Here, Next1
<1>15. CASE phase' = "ack"
  <2>1. LowDue' = Next1 /\ Next1 = Here + 1
    <3>1. ~(obj.pos + 1 \in InWindow)
      <4>1. Remaining({}) = {}
        BY <1>6, <1>7, <1>15
      <4>2. obj.pos + 1 > obj.pos
        BY <1>14
      <4> QED BY <1>13, <4>1, <4>2
    <3>2. Next1 = Here + 1
      BY <1>3, <1>14, <3>1
    <3> QED BY <1>6, <1>15, <3>2 DEF LowDue, Next1
  <2>2. \A s \in Slots : s >= LowDue' => stored'[s] = 0
    BY <1>1, <1>2, <1>3, <1>5, <2>1 DEF Lossless, Types
  <2>3. host.base = obj.base
    BY <1>1, <1>2 DEF MidTest
  <2>4. toHost = <<>>
    <3>1. ~JunkFirst
      BY <1>1, <1>10, WholeBegins
    <3> QED BY <1>1, <1>9, <3>1 DEF AtFrames, HeardState
  <2>5. toHost' = <<Ack(obj')>>
    BY <1>2, <1>6, <1>15, <2>4, Nothing DEF Say
  <2>6. Lossless'
    BY <1>1, <1>4, <1>6, <1>15, <2>2, <2>3, <2>5 DEF Lossless, Waiting
  <2> QED BY <1>2, <1>5, <1>7, <2>6 DEF Unharmed
<1>16. CASE phase' = "frame"
  <2>1. obj'.pos = obj.pos + 1
    <3>1. /\ obj'.pos \in Remaining({}) /\ \A p \in Remaining({}) : obj'.pos <= p
      <4>1. {} \in SUBSET InWindow
        OBVIOUS
      <4>2. Remaining({}) # {} /\ obj'.pos = Least(Remaining({}))
        BY <1>6, <1>7, <1>16
      <4>3. /\ Least(Remaining({})) \in Remaining({})
            /\ \A p \in Remaining({}) : Least(Remaining({})) <= p
        BY <1>1, <4>1, <4>2, NextPosition
      <4> QED BY <4>2, <4>3
    <3>2. obj'.pos \in InWindow /\ obj'.pos > obj.pos /\ obj'.pos \in Nat
      BY <1>3, <1>13, <1>14, <3>1
    <3>3. obj.pos + 1 \in InWindow
      BY <1>3, <1>14, <3>2
    <3>4. obj'.pos <= obj.pos + 1
      BY <1>13, <1>14, <3>1, <3>3
    <3> QED BY <1>14, <3>2, <3>4
  <2>2. LowDue' = LowDue + 1 /\ EndDue' = EndDue
    BY <1>1, <1>3, <1>6, <1>14, <1>16, <2>1 DEF LowDue, EndDue, Next1
  <2>3. \A s \in Slots : s >= LowDue' => stored'[s] = 0
    BY <1>1, <1>2, <1>3, <1>5, <2>2 DEF Lossless, Types
  <2>4. WholeFrames(0, g)'
    <3>1. Len(Stream') = 0 + 3 * (g - LowDue')
      BY <1>3, <1>11, <1>12, <2>2
    <3>2. ASSUME NEW m \in 0..(g - LowDue' - 1) PROVE Frame(0 + 3 * m, LowDue + m)'
      <4>1. m + 1 \in 0..(g - LowDue - 1) /\ m \in Nat
        BY <1>3, <1>11, <2>2, <3>2
      <4>2. Frame(c + 3 * (m + 1), LowDue + (m + 1))
        BY <1>10, <4>1 DEF WholeFrames
      <4>3. /\ 0 + 3 * m + 1 \in 1..(Len(Stream) - 3)
            /\ 0 + 3 * m + 2 \in 1..(Len(Stream) - 3)
            /\ 0 + 3 * m + 3 \in 1..(Len(Stream) - 3)
        BY <1>3, <1>11, <4>1
      <4>4. /\ 3 + (0 + 3 * m + 1) = c + 3 * (m + 1) + 1
            /\ 3 + (0 + 3 * m + 2) = c + 3 * (m + 1) + 2
            /\ 3 + (0 + 3 * m + 3) = c + 3 * (m + 1) + 3
            /\ LowDue' + m = LowDue + (m + 1)
        BY <1>3, <1>11, <2>2, <4>1
      <4>5. /\ Stream'[0 + 3 * m + 1] = Stream[c + 3 * (m + 1) + 1]
            /\ Stream'[0 + 3 * m + 2] = Stream[c + 3 * (m + 1) + 2]
            /\ Stream'[0 + 3 * m + 3] = Stream[c + 3 * (m + 1) + 3]
        BY <1>12, <4>3, <4>4
      <4> QED BY <4>2, <4>4, <4>5 DEF Frame
    <3>3. /\ host'.state = "send" => host'.todo = g..(EndDue' - 1)
          /\ host'.state \in {"ack", "result"} => g = EndDue'
      BY <1>1, <1>10, <2>2 DEF WholeFrames
    <3> QED BY <3>1, <3>2, <3>3 DEF WholeFrames
  <2>5. g \in LowDue'..EndDue'
    BY <1>3, <1>11, <2>2
  <2>6. \E cc \in 0..1, gg \in LowDue'..EndDue' : WholeFrames(cc, gg)'
    BY <2>4, <2>5
  <2>7. Lossless'
    BY <1>4, <1>6, <1>16, <2>3, <2>6 DEF Lossless
  <2> QED BY <1>2, <1>5, <1>7, <2>7 DEF Unharmed
<1> QED BY <1>6, <1>15, <1>16

LEMMA ReadCommandFine ==
  ASSUME IInv, IInv', InStep, NothingRefused, OnlyConfirmsLost, OnlyConfirmsLost', ReadCommand
  PROVE  Unharmed'
<1>1. /\ phase = "command" /\ outcome' = outcome
      /\ \/ /\ phase' = "window" /\ obj'.bitmap = {} /\ stored' = [s \in Slots |-> 0]
         \/ phase' = "command" /\ obj' = obj
  BY ReadCommandGood
<1>2. Punctual /\ Punctual'
  BY DEF OnlyConfirmsLost, Punctual, Only
<1>3. LineRule /\ obj.bitmap = {} /\ outcome # "fail"
  BY <1>2 DEF InStep, NothingRefused, Unharmed
<1>4. phase' # "command" => Ready'
  BY <1>2, <1>3, ReadCommandIn
<1>5. phase' = "window" => Lossless'
  BY <1>1, <1>4 DEF Lossless
<1> QED BY <1>1, <1>3, <1>5 DEF Unharmed

LEMMA OpenWindowFine ==
  ASSUME IInv, IInv', InStep, NothingRefused, OnlyConfirmsLost, OnlyConfirmsLost', OpenWindow
  PROVE  Unharmed'
<1>1. /\ phase = "window" /\ phase' = "frame" /\ host' = host /\ toHost' = toHost
      /\ stored' = stored /\ outcome' = outcome
      /\ obj'.pos = 0 /\ obj'.round = 0 /\ obj'.bitmap = {}
      /\ obj'.base = obj.base /\ obj'.window = obj.window /\ Stream' = Stream
  BY OpenWindowGood DEF OpenWindow
<1>2. Lossless /\ outcome # "fail"
  BY <1>1, WhereTheyAre DEF NothingRefused, Unharmed
<1>3. LowDue' = LowDue /\ EndDue' = EndDue
  <2>1. obj.base \in Nat
    BY <1>1, DueBounds
  <2> QED BY <1>1, <2>1 DEF LowDue, EndDue, Next1
<1>4. Ready => Ready'
  BY <1>1 DEF Ready
<1>5. ASSUME NEW c \in 0..1, NEW g \in LowDue..EndDue, WholeFrames(c, g)
      PROVE  WholeFrames(c, g)'
  BY <1>1, <1>3, <1>5 DEF WholeFrames, Frame
<1>6. Lossless'
  BY <1>1, <1>2, <1>3, <1>4, <1>5 DEF Lossless
<1> QED BY <1>1, <1>2, <1>6 DEF Unharmed

LEMMA FinishFine ==
  ASSUME IInv, InStep, NothingRefused, OnlyConfirmsLost, FinishObject
  PROVE  Unharmed'
<1>1. /\ phase = "window" /\ obj.base >= Frames /\ Types /\ "giveup" \notin ToSet(faults)
  BY DEF FinishObject, IInv, OnlyConfirmsLost, Only
<1>2. Slots = 0..(Frames - 1) /\ obj.base = Frames
  BY <1>1, ObjFields, TransferAssumption
<1>3. ObjectVerified
  <2>1. \A s \in 0..(obj.base - 1) : stored[s] # 0
    BY <1>1 DEF IInv, TakenStored
  <2>2. \A s \in Slots : stored[s] \in {0, obj.test}
    BY <1>1 DEF IInv, OneTest
  <2> QED BY <1>2, <2>1, <2>2 DEF ObjectVerified
<1>4. phase' = "command" /\ outcome' = "pass" /\ obj' = obj
  BY <1>3 DEF FinishObject
<1> QED BY <1>1, <1>4 DEF Unharmed, NothingRefused

LEMMA NoOtherByte ==
  ASSUME IInv, InStep, NothingRefused, OnlyConfirmsLost, ReadOtherByte
  PROVE  FALSE
<1>1. /\ phase = "ack" /\ Stream # <<>> /\ Stream[1] \notin {Confirm, Start}
  BY ReadOtherByteGood
<1>2. AtFrames
  BY <1>1, WhereTheyAre DEF AtReady, AtAnswer
<1>3. PICK c \in 0..1, g \in LowDue..EndDue : WholeFrames(c, g)
  BY <1>2 DEF AtFrames
<1>4. c = 1 => Stream[1] = Confirm
  BY <1>1, <1>3, WholeBegins
<1>5. c = 0 => Stream[1] = Start
  BY <1>1, <1>3, WholeBegins
<1> QED BY <1>1, <1>4, <1>5

LEMMA ReadConfirmationFine ==
  ASSUME IInv, IInv', InStep, NothingRefused, OnlyConfirmsLost, OnlyConfirmsLost',
         ReadConfirmation
  PROVE  Unharmed'
<1>1. /\ phase = "ack" /\ Stream # <<>> /\ host' = host /\ Head(Stream) = Stream[1]
      /\ ~RoundsExhausted =>
              Acknowledged /\ IF Stream[1] = Start THEN KeepStart ELSE Consume(1)
      /\ Types /\ ObjShape /\ TakenStored
  BY ReadConfirmationGood DEF IInv
<1>2. /\ Lossless /\ obj.bitmap = {} /\ outcome # "fail" /\ AtFrames
  BY <1>1, WhereTheyAre DEF NothingRefused, Unharmed, AtReady, AtAnswer
<1>3. Acknowledged /\ ~RoundsExhausted
  BY <1>1, <1>2 DEF RoundsExhausted
<1>4. /\ phase' = "window" /\ obj'.base = Next1 /\ obj'.bitmap = {}
      /\ obj'.window = obj.window /\ stored' = stored /\ outcome' = outcome
  BY <1>1, <1>2, <1>3, AcknowledgedGood DEF Next1
<1>5. PICK c \in 0..1, g \in LowDue..EndDue : WholeFrames(c, g)
  BY <1>2 DEF AtFrames
<1>6. /\ LowDue \in Nat /\ EndDue \in Nat /\ g \in Nat /\ Len(Stream) \in Nat
      /\ Len(Stream) = c + 3 * (g - LowDue) /\ LowDue <= g /\ g <= EndDue
      /\ LowDue = Next1
  BY <1>1, <1>5, DueBounds, WholeBegins
<1>7. LowDue' = LowDue /\ EndDue' = EndDue
  BY <1>1, <1>4, <1>6 DEF LowDue, EndDue, Next1
<1>8. /\ Len(Stream') = Len(Stream) - c
      /\ \A i \in 1..(Len(Stream) - c) : Stream'[i] = Stream[c + i]
  <2>1. CASE c = 1
    <3>1. Stream[1] = Confirm /\ Confirm # Start /\ 1 \in 0..Len(Stream)
      BY <1>1, <1>5, <1>6, <2>1, WholeBegins, Kinds
    <3>2. Consume(1)
      BY <1>1, <1>3, <3>1
    <3> QED BY <1>1, <2>1, <3>1, <3>2, Consumed
  <2>2. CASE c = 0
    <3>1. Stream[1] = Start
      BY <1>1, <1>5, <2>2, WholeBegins
    <3>2. KeepStart
      BY <1>1, <1>3, <3>1
    <3>3. Len(Stream') = Len(Stream) /\ \A i \in 1..Len(Stream) : Stream'[i] = Stream[i]
      BY <1>1, <3>1, <3>2, StartKept
    <3> QED BY <1>6, <2>2, <3>3
  <2>3. c = 0 \/ c = 1
    OBVIOUS
  <2> QED BY <2>1, <2>2, <2>3
<1>9. WholeFrames(0, g)'
  <2>1. Len(Stream') = 0 + 3 * (g - LowDue')
    BY <1>6, <1>7, <1>8
  <2>2. ASSUME NEW m \in 0..(g - LowDue' - 1) PROVE Frame(0 + 3 * m, LowDue + m)'
    <3>1. m \in 0..(g - LowDue - 1) /\ m \in Nat /\ m < g - LowDue
      BY <1>6, <1>7, <2>2
    <3>2. Frame(c + 3 * m, LowDue + m)
      BY <1>5, <3>1 DEF WholeFrames
    <3>3. /\ 0 + 3 * m + 1 \in 1..(Len(Stream) - c)
          /\ 0 + 3 * m + 2 \in 1..(Len(Stream) - c)
          /\ 0 + 3 * m + 3 \in 1..(Len(Stream) - c)
      BY <1>6, <3>1
    <3>4. /\ c + (0 + 3 * m + 1) = c + 3 * m + 1
          /\ c + (0 + 3 * m + 2) = c + 3 * m + 2
          /\ c + (0 + 3 * m + 3) = c + 3 * m + 3
      BY <3>1
    <3>5. /\ Stream'[0 + 3 * m + 1] = Stream[c + 3 * m + 1]
          /\ Stream'[0 + 3 * m + 2] = Stream[c + 3 * m + 2]
          /\ Stream'[0 + 3 * m + 3] = Stream[c + 3 * m + 3]
      BY <1>8, <3>3, <3>4
    <3> QED BY <1>7, <3>2, <3>5 DEF Frame
  <2>3. /\ host'.state = "send" => host'.todo = g..(EndDue' - 1)
        /\ host'.state \in {"ack", "result"} => g = EndDue'
    BY <1>1, <1>5, <1>7 DEF WholeFrames
  <2> QED BY <2>1, <2>2, <2>3 DEF WholeFrames
<1>10. g \in LowDue'..EndDue'
  BY <1>6, <1>7
<1>11. \E cc \in 0..1, gg \in LowDue'..EndDue' : WholeFrames(cc, gg)'
  BY <1>9, <1>10
<1>12. \A s \in Slots : s >= LowDue' => stored'[s] = 0
  BY <1>2, <1>4, <1>7 DEF Lossless
<1>13. Lossless'
  BY <1>4, <1>11, <1>12 DEF Lossless
<1> QED BY <1>2, <1>4, <1>13 DEF Unharmed

(* The ACK is repeated only when its confirmation was lost, at the very end
   of the object: elsewhere the next frame confirms it as well.            *)
LEMMA AckTimeoutFine ==
  ASSUME IInv, IInv', InStep, NothingRefused, OnlyConfirmsLost, OnlyConfirmsLost', AckTimeout
  PROVE  Unharmed'
<1>1. /\ phase = "ack" /\ Stream = <<>> /\ TimedOut /\ AckAgain /\ host' = host
      /\ Stream' = <<>> /\ Types /\ ObjShape
  BY AckTimeoutGood DEF IInv
<1>2. toHost = <<>> /\ host.state # "send" /\ faults' = faults
  <2>1. "late" \notin ToSet(faults')
    BY DEF OnlyConfirmsLost, Only
  <2> QED BY <1>1, <2>1, TimeoutFaults DEF Quiet
<1>3. /\ Lossless /\ obj.bitmap = {} /\ outcome # "fail" /\ MidTest /\ AtFrames
      /\ host.state # "gone"
  BY <1>1, <1>2, WhereTheyAre, Nothing DEF NothingRefused, Unharmed, AtReady, AtAnswer
<1>4. obj.attempt <= Len(faults) /\ host.base = Next1 /\ host.base # obj.base
  BY <1>1, <1>2, <1>3 DEF AtFrames, Lossless, Waiting
<1>5. obj.attempt < AckTries /\ obj.attempt \in Nat /\ AckTries \in Nat /\ Len(faults) \in Nat
  <2>1. Len(faults) < AckTries /\ AckTries \in Nat /\ obj.attempt \in 0..AckTries
    BY <1>1, ObjFields, TransferAssumption DEF OnlyConfirmsLost
  <2>2. Len(faults) \in Nat
    BY <1>1, LenProperties DEF Types
  <2> QED BY <1>4, <2>1, <2>2
<1>6. /\ phase' = "ack" /\ obj'.window = obj.window /\ obj'.base = obj.base
      /\ obj'.round = obj.round /\ obj'.bitmap = obj.bitmap
      /\ obj'.attempt = obj.attempt + 1 /\ stored' = stored /\ outcome' = outcome
      /\ Say(Ack(obj)) /\ Next1' = Next1
  <2>1. TakenStored
    BY DEF IInv
  <2> QED BY <1>1, <1>5, <2>1, AckAgainGood, AgainSame
<1>7. LowDue' = LowDue /\ EndDue' = EndDue
  BY <1>1, <1>6 DEF LowDue, EndDue
<1>8. PICK c \in 0..1, g \in LowDue..EndDue : WholeFrames(c, g)
  BY <1>3 DEF AtFrames
<1>9. WholeFrames(c, g)'
  BY <1>1, <1>6, <1>7, <1>8 DEF WholeFrames, Frame
<1>10. host.state = "result"
  <2>1. g = LowDue
    BY <1>1, <1>8, WholeBegins
  <2>2. host.state = "ack" => g = EndDue
    BY <1>8 DEF WholeFrames
  <2>3. host.state = "ack" => Next1 = Frames
    BY <1>1, <2>1, <2>2, DueBounds
  <2>4. host.state \in {"ack", "result"}
    BY <1>2, <1>3 DEF AtFrames
  <2> QED BY <1>3, <1>4, <2>3, <2>4 DEF MidTest
<1>11. toHost' = <<Ack(obj)>> /\ toHost' # <<>>
  BY <1>2, <1>3, <1>6, Nothing DEF Say
<1>12. Waiting'
  <2>1. ~(host.base = obj.base)'
    BY <1>1, <1>4, <1>6
  <2>2. obj'.attempt <= Len(faults') + 1
    BY <1>2, <1>4, <1>5, <1>6
  <2> QED BY <1>1, <1>10, <1>11, <2>1, <2>2 DEF Waiting
<1>13. Lossless'
  BY <1>1, <1>3, <1>6, <1>7, <1>8, <1>9, <1>12 DEF Lossless
<1> QED BY <1>3, <1>6, <1>13 DEF Unharmed

LEMMA HostBeginFine ==
  ASSUME IInv, IInv', InStep, NothingRefused, OnlyConfirmsLost, OnlyConfirmsLost', HostBegin,
         UNCHANGED <<phase, obj, stored, pushback, outcome, faults>>, phase # "command"
  PROVE  Unharmed'
<1>1. /\ host.state = "ready" /\ host'.state = "send" /\ host'.todo = WindowOf(0)
      /\ host'.window = host.window /\ toTarget' = toTarget /\ Types
  BY HostBeginGood DEF IInv
<1>2. /\ MidTest /\ Lossless /\ obj.bitmap = {} /\ outcome # "fail" /\ AtReady
  BY <1>1, WhereTheyAre DEF NothingRefused, Unharmed, AtAnswer, AtFrames
<1>3. /\ Stream' = <<>> /\ obj.base = 0 /\ phase \in {"window", "frame"}
      /\ phase = "frame" => obj.pos = 0
  BY <1>1, <1>2, SameToTarget DEF AtReady, Ready
<1>4. /\ LowDue \in Nat /\ EndDue \in Nat /\ LowDue <= EndDue
      /\ LowDue = 0 /\ EndDue = Next1
  <2>1. LowDue = 0
    BY <1>3 DEF LowDue
  <2> QED BY <1>3, <2>1, DueBounds
<1>5. LowDue' = LowDue /\ EndDue' = EndDue
  BY DEF LowDue, EndDue, Next1
<1>6. host'.todo = LowDue..(EndDue - 1)
  <2>1. host'.todo = 0..(0 + Count(0, obj.window) - 1)
    BY <1>1, <1>2 DEF WindowOf, MidTest
  <2>2. EndDue = 0 + Count(0, obj.window)
    BY <1>3, <1>4 DEF Next1
  <2>3. Count(0, obj.window) \in Nat
    BY <1>3, DueBounds
  <2>4. \A n \in Nat : EndDue = 0 + n => 0..(0 + n - 1) = LowDue..(EndDue - 1)
    BY <1>4
  <2> QED BY <2>1, <2>2, <2>3, <2>4
<1>7. WholeFrames(0, LowDue)'
  <2>1. Len(Stream') = 0
    BY <1>3, Nothing
  <2>2. 0 = 0 + 3 * (LowDue' - LowDue')
    BY <1>4, <1>5
  <2>3. \A m \in 0..(LowDue' - LowDue' - 1) : FALSE
    BY <1>4, <1>5
  <2> QED BY <1>1, <1>5, <1>6, <2>1, <2>2, <2>3 DEF WholeFrames
<1>8. 0 \in 0..1 /\ LowDue \in LowDue..EndDue
  BY <1>4
<1>9. \E c \in 0..1, g \in LowDue'..EndDue' : WholeFrames(c, g)'
  BY <1>5, <1>7, <1>8
<1>10. Lossless'
  BY <1>2, <1>3, <1>5, <1>9 DEF Lossless
<1> QED BY <1>2, <1>10 DEF Unharmed

LEMMA HostSendFine ==
  ASSUME IInv, IInv', InStep, NothingRefused, OnlyConfirmsLost, OnlyConfirmsLost', HostSend,
         UNCHANGED <<phase, obj, stored, pushback, outcome, faults>>, phase # "command"
  PROVE  Unharmed'
<1> DEFINE s == Least(host.todo)
           x == FrameTokens(s, host.test)
<1>1. /\ Types /\ ObjShape /\ host.state = "send" /\ toHost' = toHost
      /\ s \in host.todo /\ \A d \in host.todo : s <= d
      /\ Send(x) /\ x \in Seq(Tokens)
      /\ host'.todo = host.todo \ {s}
      /\ host'.state = IF host'.todo = {} THEN "ack" ELSE "send"
      /\ host'.base = host.base
  BY HostSendGood DEF IInv
<1>2. x = <<Start, Rest(s, host.test), Data(s, host.test)>>
  BY DEF FrameTokens
<1> HIDE DEF s, x
<1>3. /\ Len(x) = 3 /\ x[1] = Start /\ x[2] = Rest(s, host.test) /\ x[3] = Data(s, host.test)
  BY <1>2
<1>4. /\ x[2].kind = "rest" /\ x[2].sequence = s
      /\ x[3].kind = "data" /\ x[3].sequence = s
  BY <1>3 DEF Rest, Data
<1>5. /\ MidTest /\ Lossless /\ obj.bitmap = {} /\ outcome # "fail" /\ AtFrames
  BY <1>1, WhereTheyAre DEF NothingRefused, Unharmed, AtAnswer, AtReady, Ready
<1>6. PICK c \in 0..1, g \in LowDue..EndDue : WholeFrames(c, g)
  BY <1>5 DEF AtFrames
<1>7. /\ LowDue \in Nat /\ EndDue \in Nat /\ g \in Nat /\ LowDue <= g /\ g <= EndDue
      /\ Len(Stream) \in Nat /\ Len(Stream) = c + 3 * (g - LowDue)
  BY <1>6, DueBounds, WholeBegins
<1>8. host.todo = g..(EndDue - 1)
  BY <1>1, <1>6 DEF WholeFrames
<1>9. g < EndDue /\ s = g
  <2>1. s \in g..(EndDue - 1)
    BY <1>1, <1>8
  <2>2. g \in g..(EndDue - 1)
    BY <1>7, <2>1
  <2>3. s <= g
    BY <1>1, <1>8, <2>2
  <2> QED BY <1>7, <2>1, <2>3
<1>10. host'.todo = (g + 1)..(EndDue - 1)
  BY <1>1, <1>7, <1>8, <1>9
<1>11. /\ Len(Stream') = Len(Stream) + 3
       /\ \A i \in 1..Len(Stream) : Stream'[i] = Stream[i]
       /\ \A i \in 1..3 : Stream'[Len(Stream) + i] = x[i]
  BY <1>1, <1>3, StreamSent
<1>12. LowDue' = LowDue /\ EndDue' = EndDue
  BY DEF LowDue, EndDue, Next1
<1>13. WholeFrames(c, g + 1)'
  <2>1. Len(Stream') = c + 3 * (g + 1 - LowDue')
    BY <1>7, <1>11, <1>12
  <2>2. c = 1 => phase = "ack" /\ Stream'[1] = Confirm
    <3>1. c = 1 => 1 \in 1..Len(Stream)
      BY <1>7
    <3> QED BY <1>6, <1>11, <3>1 DEF WholeFrames
  <2>3. ASSUME NEW m \in 0..(g + 1 - LowDue' - 1) PROVE Frame(c + 3 * m, LowDue + m)'
    <3>1. CASE m \in 0..(g - LowDue - 1)
      <4>1. Frame(c + 3 * m, LowDue + m)
        BY <1>6, <3>1 DEF WholeFrames
      <4>2. /\ c + 3 * m + 1 \in 1..Len(Stream)
            /\ c + 3 * m + 2 \in 1..Len(Stream)
            /\ c + 3 * m + 3 \in 1..Len(Stream)
        BY <1>7, <3>1
      <4>3. /\ Stream'[c + 3 * m + 1] = Stream[c + 3 * m + 1]
            /\ Stream'[c + 3 * m + 2] = Stream[c + 3 * m + 2]
            /\ Stream'[c + 3 * m + 3] = Stream[c + 3 * m + 3]
        BY <1>11, <4>2
      <4> QED BY <1>12, <4>1, <4>3 DEF Frame
    <3>2. CASE m = g - LowDue
      <4>1. /\ c + 3 * m = Len(Stream) /\ LowDue + m = g
        BY <1>7, <3>2
      <4>2. /\ Stream'[Len(Stream) + 1] = x[1] /\ Stream'[Len(Stream) + 2] = x[2]
            /\ Stream'[Len(Stream) + 3] = x[3]
        BY <1>11
      <4>3. /\ Stream'[c + 3 * m + 1] = x[1] /\ Stream'[c + 3 * m + 2] = x[2]
            /\ Stream'[c + 3 * m + 3] = x[3]
        BY <4>1, <4>2
      <4> QED BY <1>3, <1>4, <1>9, <1>12, <4>1, <4>3 DEF Frame
    <3> QED BY <1>7, <1>12, <3>1, <3>2
  <2>4. host'.state = "ack" => g + 1 = EndDue
    <3>1. host'.state = "ack" => g + 1 \notin (g + 1)..(EndDue - 1)
      BY <1>1, <1>10
    <3> QED BY <1>7, <1>9, <3>1
  <2>5. /\ host'.state = "send" => host'.todo = (g + 1)..(EndDue' - 1)
        /\ host'.state \in {"ack", "result"} => g + 1 = EndDue'
    BY <1>1, <1>10, <1>12, <2>4
  <2>6. \A m \in 0..(g + 1 - LowDue' - 1) : Frame(c + 3 * m, LowDue + m)'
    BY <2>3
  <2>7. c = 1 => phase' = "ack" /\ Stream'[1] = Confirm
    BY <2>2

  <2> QED BY <1>7, <1>12, <2>1, <2>5, <2>6, <2>7 DEF WholeFrames
<1>14. g + 1 \in LowDue'..EndDue'
  BY <1>7, <1>9, <1>12
<1>15. \E cc \in 0..1, gg \in LowDue'..EndDue' : WholeFrames(cc, gg)'
  BY <1>13, <1>14
<1>16. ASSUME phase = "ack" PROVE Waiting'
  <2>1. host.base # obj.base
    BY <1>5, <1>16 DEF AtFrames
  <2>2. obj.attempt <= Len(faults) + 1 /\ toHost = <<>>
    BY <1>1, <1>5, <1>16, <2>1 DEF Lossless, Waiting
  <2>3. Stream' # <<>>
    BY <1>7, <1>11, Nothing
  <2> QED BY <1>1, <2>1, <2>2, <2>3 DEF Waiting
<1>17. Lossless'
  BY <1>5, <1>12, <1>15, <1>16 DEF Lossless
<1> QED BY <1>5, <1>17 DEF Unharmed

(* The host confirms: its answer is all there is in the stream.            *)
LEMMA AnswerAlone ==
  ASSUME Types, Stream = <<>>, Send(<<Confirm>>), pushback' = pushback
  PROVE  Len(Stream') = 1 /\ Stream'[1] = Confirm /\ Stream' # <<>>
<1>1. /\ <<Confirm>> \in Seq(Tokens) /\ Len(<<Confirm>>) = 1 /\ <<Confirm>>[1] = Confirm
  BY OneConfirm
<1>2. /\ Len(Stream') = Len(Stream) + 1
      /\ \A i \in 1..1 : Stream'[Len(Stream) + i] = <<Confirm>>[i]
  BY <1>1, StreamSent
<1>3. Len(Stream) = 0 /\ 1 \in 1..1 /\ 0 + 1 = 1
  BY Nothing
<1>4. Len(Stream') = 1 /\ Stream'[1] = Confirm
  BY <1>1, <1>2, <1>3
<1> QED BY <1>4, Nothing

LEMMA HostAckFine ==
  ASSUME IInv, IInv', InStep, NothingRefused, OnlyConfirmsLost, OnlyConfirmsLost', HostAck,
         UNCHANGED <<phase, obj, stored, pushback, outcome, faults>>, phase # "command"
  PROVE  Unharmed'
<1> DEFINE a == toHost[1]
<1>1. /\ Types /\ ObjShape /\ host.state = "ack" /\ toHost # <<>> /\ toHost' = Tail(toHost)
      /\ a.kind = "ack" /\ a.base = host.base /\ a.round > host.heard
      /\ Send(<<Confirm>>) /\ pushback' = pushback
      /\ a.bitmap = {} =>
              /\ host'.base = host.base + Count(host.base, host.window)
              /\ host'.state = IF host'.base = Frames THEN "result" ELSE "send"
              /\ host'.base # Frames => host'.todo = WindowOf(host'.base)
  BY HostAckGood DEF IInv
<1>2. /\ MidTest /\ Lossless /\ obj.bitmap = {} /\ outcome # "fail" /\ AtAnswer
  <2>1. Fresh(a) /\ 1 \in 1..Len(toHost)
    BY <1>1, HeardLine DEF Fresh
  <2>2. ~AtFrames
    BY <2>1 DEF AtFrames, HeardState
  <2>3. ~AtReady
    BY <1>1 DEF AtReady, Ready
  <2> QED BY <2>2, <2>3, WhereTheyAre DEF NothingRefused, Unharmed
<1>3. /\ phase = "ack" /\ host.base = obj.base /\ Stream = <<>> /\ toHost = <<Ack(obj)>>
      /\ obj.attempt = 1 /\ host.window = obj.window
  BY <1>2 DEF AtAnswer, MidTest
<1>4. a.bitmap = {}
  BY <1>1, <1>2, <1>3, AckOfObject
<1> HIDE DEF a
<1>5. /\ host'.base = Next1
      /\ host'.state = IF Next1 = Frames THEN "result" ELSE "send"
      /\ Next1 # Frames => host'.todo = WindowOf(Next1)
  BY <1>1, <1>3, <1>4 DEF Next1
<1>6. /\ LowDue \in Nat /\ EndDue \in Nat /\ LowDue <= EndDue
      /\ LowDue = Next1 /\ (LowDue = EndDue <=> Next1 = Frames)
      /\ obj.base < Next1 /\ obj.base \in Nat /\ Next1 \in Nat
  BY <1>3, DueBounds
<1>7. LowDue' = LowDue /\ EndDue' = EndDue
  BY DEF LowDue, EndDue, Next1
<1>8. Len(Stream') = 1 /\ Stream'[1] = Confirm /\ Stream' # <<>>
  BY <1>1, <1>3, AnswerAlone
<1>9. WindowOf(Next1) = LowDue..(EndDue - 1)
  <2>1. WindowOf(Next1) = Next1..(Next1 + Count(Next1, obj.window) - 1)
    BY <1>3 DEF WindowOf
  <2>2. EndDue = Next1 + Count(Next1, obj.window)
    BY <1>3 DEF EndDue
  <2>3. Count(Next1, obj.window) \in Nat
    <3>1. Next1 \in 0..Frames /\ obj.window \in Windows \union {1}
      BY <1>1, <1>3, DueFacts, ObjFields
    <3>2. Count(Next1, obj.window) \in 0..MaxWindow /\ MaxWindow \in Nat
      BY <3>1, Sizes, TransferAssumption
    <3> QED BY <3>2
  <2>4. \A n \in Nat : EndDue = Next1 + n =>
          Next1..(Next1 + n - 1) = LowDue..(EndDue - 1)
    BY <1>6
  <2> QED BY <2>1, <2>2, <2>3, <2>4
<1>10. WholeFrames(1, LowDue)'
  <2>1. Len(Stream') = 1 + 3 * (LowDue - LowDue)
    BY <1>6, <1>8
  <2>2. \A m \in 0..(LowDue - LowDue - 1) : FALSE
    BY <1>6
  <2>3. /\ host'.state = "send" => host'.todo = LowDue..(EndDue - 1)
        /\ host'.state \in {"ack", "result"} => LowDue = EndDue
    BY <1>5, <1>6, <1>9
  <2> QED BY <1>3, <1>7, <1>8, <2>1, <2>2, <2>3 DEF WholeFrames
<1>11. 1 \in 0..1 /\ LowDue \in LowDue..EndDue
  BY <1>6
<1>12. \E c \in 0..1, g \in LowDue'..EndDue' : WholeFrames(c, g)'
  BY <1>7, <1>10, <1>11
<1>13. Waiting'
  <2>1. host'.base # obj.base
    BY <1>5, <1>6
  <2>2. Len(faults) \in Nat
    BY <1>1, LenProperties DEF Types
  <2>3. obj.attempt <= Len(faults) + 1
    BY <1>3, <2>2
  <2>4. toHost' = <<>>
    BY <1>1, <1>3
  <2> QED BY <1>8, <2>1, <2>3, <2>4 DEF Waiting
<1>14. Lossless'
  BY <1>2, <1>7, <1>12, <1>13 DEF Lossless
<1> QED BY <1>2, <1>14 DEF Unharmed

(* An ACK the host has heard comes again only at the end of the object.    *)
LEMMA HostAckAgainFine ==
  ASSUME IInv, IInv', InStep, NothingRefused, OnlyConfirmsLost, OnlyConfirmsLost',
         HostAckAgain, UNCHANGED <<phase, obj, stored, pushback, outcome, faults>>,
         phase # "command"
  PROVE  Unharmed'
<1>1. /\ Types /\ ObjShape /\ host.state \in {"ack", "result"} /\ toHost # <<>>
      /\ host.state = "ack" => ~Fresh(toHost[1])
      /\ toHost' = Tail(toHost) /\ host' = host
      /\ Send(<<Confirm>>) \/ (host.state = "ack" /\ toTarget' = toTarget)
      /\ pushback' = pushback
  BY HostAckAgainGood DEF IInv
<1>2. /\ MidTest /\ Lossless /\ obj.bitmap = {} /\ outcome # "fail"
      /\ AtReady \/ AtAnswer \/ AtFrames
  BY WhereTheyAre DEF NothingRefused, Unharmed
<1>3. ~AtReady
  BY <1>1 DEF AtReady, Ready
<1>4. ~AtAnswer
  <2>1. SUFFICES ASSUME AtAnswer PROVE FALSE
    OBVIOUS
  <2>2. /\ toHost[1] = Ack(obj) /\ host.state = "ack" /\ host.base = obj.base
        /\ phase = "ack" /\ host.heard < obj.round
    BY <2>1 DEF AtAnswer
  <2>3. obj.round \in 0..Rounds /\ host.heard \in -1..Rounds
    BY <1>1, ObjFields, HostFields
  <2>4. obj.round > host.heard
    BY <2>2, <2>3, TransferAssumption
  <2>5. Fresh(Ack(obj))
    BY <1>1, <2>2, <2>4, AckOfObject DEF Fresh
  <2> QED BY <1>1, <2>2, <2>5
<1>5. AtFrames
  BY <1>2, <1>3, <1>4
<1>6. PICK c \in 0..1, g \in LowDue..EndDue : WholeFrames(c, g)
  BY <1>5 DEF AtFrames
<1>7. phase = "ack" /\ Stream = <<>> /\ Len(toHost) = 1 /\ host.base # obj.base
  <2>1. ~JunkFirst
    BY <1>6, WholeBegins
  <2>2. phase = "ack" /\ Stream = <<>> /\ Len(toHost) = 1
    BY <1>1, <1>5, <2>1 DEF AtFrames, HeardState
  <2> QED BY <1>5, <2>2 DEF AtFrames
<1>8. host.state = "result" /\ Send(<<Confirm>>) /\ obj.attempt <= Len(faults) + 1
  BY <1>1, <1>2, <1>7 DEF Lossless, Waiting
<1>9. g = LowDue /\ g = EndDue
  BY <1>6, <1>7, <1>8, WholeBegins DEF WholeFrames
<1>10. LowDue \in Nat
  BY DueBounds
<1>11. LowDue' = LowDue /\ EndDue' = EndDue
  BY DEF LowDue, EndDue, Next1
<1>12. Len(Stream') = 1 /\ Stream'[1] = Confirm /\ Stream' # <<>>
  BY <1>1, <1>7, <1>8, AnswerAlone
<1>13. WholeFrames(1, LowDue)'
  <2>1. Len(Stream') = 1 + 3 * (LowDue - LowDue)
    BY <1>10, <1>12
  <2>2. \A m \in 0..(LowDue - LowDue - 1) : FALSE
    BY <1>10
  <2> QED BY <1>1, <1>7, <1>8, <1>9, <1>11, <1>12, <2>1, <2>2 DEF WholeFrames
<1>14. 1 \in 0..1 /\ LowDue \in LowDue..EndDue
  BY <1>9, <1>10
<1>15. \E cc \in 0..1, gg \in LowDue'..EndDue' : WholeFrames(cc, gg)'
  BY <1>11, <1>13, <1>14
<1>16. Waiting'
  BY <1>1, <1>7, <1>8, <1>12 DEF Waiting
<1>17. Lossless'
  BY <1>2, <1>11, <1>15, <1>16 DEF Lossless
<1> QED BY <1>2, <1>17 DEF Unharmed

(* In a stream of whole frames, only its head may be a confirmation.       *)
LEMMA ConfirmAtHead ==
  ASSUME IInv, phase # "command", NEW c \in 0..1, NEW g \in LowDue..EndDue, WholeFrames(c, g),
         NEW i \in 1..Len(Stream), Stream[i] = Confirm
  PROVE  c = 1 /\ i = 1
<1>1. /\ LowDue \in Nat /\ g \in Nat /\ LowDue <= g /\ Len(Stream) = c + 3 * (g - LowDue)
      /\ i \in Nat
  BY DueBounds, WholeBegins
<1>2. ASSUME i > c PROVE FALSE
  <2> DEFINE m == (i - c - 1) \div 3
  <2>1. /\ m \in 0..(g - LowDue - 1)
        /\ i = c + 3 * m + 1 \/ i = c + 3 * m + 2 \/ i = c + 3 * m + 3
    BY <1>1, <1>2
  <2> HIDE DEF m
  <2>2. Frame(c + 3 * m, LowDue + m)
    BY <2>1 DEF WholeFrames
  <2>3. \/ Stream[i] = Start
        \/ Stream[i].kind = "rest"
        \/ Stream[i].kind = "data"
    BY <2>1, <2>2 DEF Frame
  <2> QED BY <2>3, Kinds
<1> QED BY <1>1, <1>2

LEMMA LoseConfirmFine ==
  ASSUME IInv, IInv', InStep, NothingRefused, OnlyConfirmsLost, OnlyConfirmsLost',
         phase # "command", phase' = phase, obj' = obj, stored' = stored,
         pushback' = pushback, outcome' = outcome, host' = host, toHost' = toHost,
         Noted("confirm"), NEW k \in 1..Len(toTarget), toTarget[k] = Confirm,
         toTarget' = RemoveAt(toTarget, k)
  PROVE  Unharmed'
<1>1. /\ MidTest /\ Lossless /\ obj.bitmap = {} /\ outcome # "fail"
      /\ AtReady \/ AtAnswer \/ AtFrames
  BY WhereTheyAre DEF NothingRefused, Unharmed
<1>2. /\ Shifted(k) \in 1..Len(Stream) /\ Stream[Shifted(k)] = Confirm
      /\ Len(Stream) \in Nat \ {0} /\ Len(Stream') = Len(Stream) - 1
      /\ \A i \in 1..Len(Stream') :
           Stream'[i] = IF i < Shifted(k) THEN Stream[i] ELSE Stream[i + 1]
      /\ Len(faults') = Len(faults) + 1 /\ Len(faults) \in Nat
  <2>1. Types
    BY DEF IInv
  <2>2. Len(faults) \in Nat
    BY <2>1, LenProperties DEF Types
  <2> QED BY <2>1, <2>2, StreamLost, FaultNoted DEF FaultKinds
<1>3. AtFrames
  <2>1. Stream # <<>>
    BY <1>2, Nothing
  <2> QED BY <1>1, <2>1 DEF AtReady, Ready, AtAnswer
<1>4. PICK c \in 0..1, g \in LowDue..EndDue : WholeFrames(c, g)
  BY <1>3 DEF AtFrames
<1>5. c = 1 /\ Shifted(k) = 1 /\ phase = "ack"
  <2>1. c = 1 /\ Shifted(k) = 1
    BY <1>2, <1>4, ConfirmAtHead
  <2> QED BY <1>4, <2>1 DEF WholeFrames
<1>6. /\ LowDue \in Nat /\ EndDue \in Nat /\ g \in Nat /\ LowDue <= g /\ g <= EndDue
      /\ Len(Stream) = 1 + 3 * (g - LowDue)
  BY <1>4, <1>5, DueBounds, WholeBegins
<1>7. \A i \in 1..(Len(Stream) - 1) : Stream'[i] = Stream[1 + i]
  BY <1>2, <1>5
<1>8. LowDue' = LowDue /\ EndDue' = EndDue
  BY DEF LowDue, EndDue, Next1
<1>9. WholeFrames(0, g)'
  <2>1. Len(Stream') = 0 + 3 * (g - LowDue')
    BY <1>2, <1>6, <1>8
  <2>2. ASSUME NEW m \in 0..(g - LowDue' - 1) PROVE Frame(0 + 3 * m, LowDue + m)'
    <3>1. m \in 0..(g - LowDue - 1) /\ m \in Nat /\ m < g - LowDue
      BY <1>6, <1>8, <2>2
    <3>2. Frame(c + 3 * m, LowDue + m)
      BY <1>4, <3>1 DEF WholeFrames
    <3>3. /\ 0 + 3 * m + 1 \in 1..(Len(Stream) - 1)
          /\ 0 + 3 * m + 2 \in 1..(Len(Stream) - 1)
          /\ 0 + 3 * m + 3 \in 1..(Len(Stream) - 1)
      BY <1>6, <3>1
    <3>4. /\ 1 + (0 + 3 * m + 1) = c + 3 * m + 1
          /\ 1 + (0 + 3 * m + 2) = c + 3 * m + 2
          /\ 1 + (0 + 3 * m + 3) = c + 3 * m + 3
      BY <1>5, <3>1
    <3>5. /\ Stream'[0 + 3 * m + 1] = Stream[c + 3 * m + 1]
          /\ Stream'[0 + 3 * m + 2] = Stream[c + 3 * m + 2]
          /\ Stream'[0 + 3 * m + 3] = Stream[c + 3 * m + 3]
      BY <1>7, <3>3, <3>4
    <3> QED BY <1>8, <3>2, <3>5 DEF Frame
  <2>3. /\ host'.state = "send" => host'.todo = g..(EndDue' - 1)
        /\ host'.state \in {"ack", "result"} => g = EndDue'
    BY <1>4, <1>8 DEF WholeFrames
  <2> QED BY <2>1, <2>2, <2>3 DEF WholeFrames
<1>10. g \in LowDue'..EndDue'
  BY <1>6, <1>8
<1>11. \E cc \in 0..1, gg \in LowDue'..EndDue' : WholeFrames(cc, gg)'
  BY <1>9, <1>10
<1>12. Waiting'
  <2>1. host.base # obj.base
    BY <1>3, <1>5 DEF AtFrames
  <2>2. /\ obj.attempt <= Len(faults) + 1
        /\ host.state # "result" => toHost = <<>>
    BY <1>1, <1>5, <2>1 DEF Lossless, Waiting
  <2>3. obj.attempt \in 0..AckTries /\ AckTries \in Nat
    BY ObjFields, TransferAssumption DEF IInv
  <2>4. obj.attempt <= Len(faults') /\ obj.attempt <= Len(faults') + 1
    BY <1>2, <2>2, <2>3
  <2> QED BY <2>1, <2>2, <2>4 DEF Waiting
<1>13. Lossless'
  BY <1>1, <1>8, <1>11, <1>12 DEF Lossless
<1> QED BY <1>1, <1>13 DEF Unharmed

(* Of the faults, only the loss of a confirmation is one of these.         *)
LEMMA NoOtherFault ==
  ASSUME IInv, OnlyConfirmsLost', NEW kind \in FaultKinds, Noted(kind)
  PROVE  kind = "confirm"
<1>1. kind \in ToSet(faults')
  BY FaultNoted DEF IInv
<1> QED BY <1>1 DEF OnlyConfirmsLost, Only

LEMMA FaultFine ==
  ASSUME IInv, IInv', InStep, NothingRefused, OnlyConfirmsLost, OnlyConfirmsLost', Fault
  PROVE  Unharmed'
<1>1. /\ phase' = phase /\ obj' = obj /\ stored' = stored
      /\ pushback' = pushback /\ outcome' = outcome /\ host' = host
      /\ \/ /\ Noted("confirm") /\ toHost' = toHost
            /\ \E k \in 1..Len(toTarget) :
                 toTarget[k] = Confirm /\ toTarget' = RemoveAt(toTarget, k)
         \/ Noted("frame") \/ Noted("ack")
  BY LineFaultGood
<1>2. ~Noted("frame") /\ ~Noted("ack")
  <2>1. Noted("frame") => FALSE
    BY NoOtherFault DEF FaultKinds
  <2>2. Noted("ack") => FALSE
    BY NoOtherFault DEF FaultKinds
  <2> QED BY <2>1, <2>2
<1>3. CASE phase = "command"
  BY <1>1, <1>3 DEF NothingRefused, Unharmed
<1>4. CASE phase # "command"
  BY <1>1, <1>2, <1>4, LoseConfirmFine
<1> QED BY <1>3, <1>4

LEMMA HostFine ==
  ASSUME IInv, IInv', InStep, NothingRefused, OnlyConfirmsLost, OnlyConfirmsLost', Host
  PROVE  Unharmed'
<1>1. /\ UNCHANGED <<phase, obj, stored, pushback, outcome, faults>>
      /\ \/ HostCommand \/ HostBegin \/ HostSend \/ HostAck \/ HostAckAgain
         \/ HostResult \/ HostSkip
  BY DEF Host
<1>2. CASE phase = "command"
  BY <1>1, <1>2 DEF NothingRefused, Unharmed
<1>3. CASE phase # "command"
  <2>1. Punctual /\ Punctual' /\ LineRule /\ (phase # "command" => MidTest)
    BY DEF InStep, OnlyConfirmsLost, Punctual, Only
  <2>2. ~HostCommand /\ ~HostResult /\ ~HostSkip
    BY <1>1, <1>3, <2>1, HostCommandIn, HostResultIn, HostSkipIn
  <2> QED BY <1>1, <1>3, <2>2, HostBeginFine, HostSendFine, HostAckFine, HostAckAgainFine
<1> QED BY <1>2, <1>3

(* Once the host is switched off it remains so.                            *)
LEMMA LossesBefore ==
  ASSUME IInv, [Next]_vars, OnlyConfirmsLost'
  PROVE  OnlyConfirmsLost
<1>1. /\ ToSet(faults) \subseteq ToSet(faults')
      /\ Len(faults) \in Nat /\ Len(faults) <= Len(faults')
  BY FaultsOnlyGrow DEF FaultsGrow
<1>2. Only({"confirm"}) /\ Len(faults) < AckTries
  <2>1. ToSet(faults') \subseteq {"confirm"} /\ Len(faults') < AckTries
    BY DEF OnlyConfirmsLost, Only
  <2>2. AckTries \in Nat /\ Len(faults') \in Nat
    <3>1. IInv'
      BY Inductive
    <3> QED BY <3>1, LenProperties, TransferAssumption DEF IInv, Types
  <2> QED BY <1>1, <2>1, <2>2 DEF Only
<1>3. host.state # "gone"
  <2>1. host' = host \/ Host \/ HostGivesUp \/ HostVanishes
    <3>1. Fault \/ DeadlinePassed => host' = host
      BY DEF Fault, DeadlinePassed
    <3>2. ReadCommand \/ OpenWindow \/ FinishObject \/ HeaderInvalid => host' = host
      BY DEF ReadCommand, OpenWindow, FinishObject, HeaderInvalid
    <3>3. HeaderTimeout \/ PayloadTimeout \/ AckTimeout => host' = host
      BY DEF HeaderTimeout, PayloadTimeout, AckTimeout
    <3>4. DataInvalid \/ StoreFrame \/ ReadConfirmation \/ ReadOtherByte => host' = host
      BY DEF DataInvalid, StoreFrame, ReadConfirmation, ReadOtherByte
    <3>5. UNCHANGED vars => host' = host
      BY DEF vars
    <3> QED BY <3>1, <3>2, <3>3, <3>4, <3>5 DEF Next, Target
  <2>2. HostGivesUp \/ HostVanishes => host.state # "gone"
    BY DEF HostGivesUp, HostVanishes
  <2>3. Host => host.state # "gone" \/ HostSkip
    BY DEF Host, HostCommand, HostBegin, HostSend, HostAck, HostAckAgain, HostResult
  <2>4. HostSkip => host.state # "gone"
    BY DEF HostSkip
  <2>5. host' = host => host.state # "gone"
    BY DEF OnlyConfirmsLost
  <2> QED BY <2>1, <2>2, <2>3, <2>4, <2>5
<1> QED BY <1>2, <1>3 DEF OnlyConfirmsLost

LEMMA NothingRefusedKept ==
  ASSUME IInv, IInv', InStep, NothingRefused, [Next]_vars
  PROVE  NothingRefused'
<1> SUFFICES ASSUME OnlyConfirmsLost' PROVE Unharmed'
  BY DEF NothingRefused
<1>1. OnlyConfirmsLost
  BY LossesBefore
<1>2. CASE ReadCommand
  BY <1>1, <1>2, ReadCommandFine
<1>3. CASE OpenWindow
  BY <1>1, <1>3, OpenWindowFine
<1>4. CASE FinishObject
  BY <1>1, <1>4, FinishFine
<1>5. CASE HeaderInvalid \/ HeaderTimeout \/ PayloadTimeout \/ DataInvalid
  BY <1>1, <1>5, NoBadHeader
<1>6. CASE StoreFrame
  BY <1>1, <1>6, StoreFrameFine
<1>7. CASE ReadConfirmation
  BY <1>1, <1>7, ReadConfirmationFine
<1>8. CASE AckTimeout
  BY <1>1, <1>8, AckTimeoutFine
<1>9. CASE ReadOtherByte
  BY <1>1, <1>9, NoOtherByte
<1>10. CASE DeadlinePassed
  <2>1. Noted("deadline")
    BY <1>10 DEF DeadlinePassed
  <2> QED BY <2>1, NoOtherFault DEF FaultKinds
<1>11. CASE Host
  BY <1>1, <1>11, HostFine
<1>12. CASE HostGivesUp
  <2>1. Noted("giveup")
    BY <1>12 DEF HostGivesUp
  <2> QED BY <2>1, NoOtherFault DEF FaultKinds
<1>13. CASE HostVanishes
  BY <1>13, HostVanishesGood DEF OnlyConfirmsLost
<1>14. CASE Fault
  BY <1>1, <1>14, FaultFine
<1>15. CASE UNCHANGED vars
  <2>1. /\ LowDue' = LowDue /\ EndDue' = EndDue /\ Stream' = Stream /\ Ready' = Ready
        /\ Waiting' = Waiting
    BY <1>15 DEF vars, LowDue, EndDue, Next1, Stream, Ready, Waiting
  <2>2. \A c, g : WholeFrames(c, g)' = WholeFrames(c, g)
    BY <1>15, <2>1 DEF vars, WholeFrames, Frame
  <2> QED BY <1>1, <1>15, <2>1, <2>2 DEF vars, NothingRefused, Unharmed, Lossless
<1> QED BY <1>2, <1>3, <1>4, <1>5, <1>6, <1>7, <1>8, <1>9, <1>10, <1>11, <1>12, <1>13,
           <1>14, <1>15 DEF Next, Target

(* As long as only confirmations get lost, and fewer of them than the ACK has
   attempts, no frame of a test is refused and no test fails: the first byte
   of the next frame stands for the confirmation and is not lost to it.    *)
THEOREM LossesHarmless == Spec => []LostConfirmHarmless
<1>1. Init => NothingRefused
  BY DEF Init, NothingRefused, Unharmed
<1>2. IInv /\ InStep /\ IInv' /\ NothingRefused /\ [Next]_vars => NothingRefused'
  BY NothingRefusedKept
<1>3. NothingRefused => LostConfirmHarmless
  BY DEF NothingRefused, OnlyConfirmsLost, Unharmed, LostConfirmHarmless
<1> QED BY <1>1, <1>2, <1>3, StepInvariant, PTL DEF Spec
=============================================================================
