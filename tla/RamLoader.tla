------------------------------ MODULE RamLoader -----------------------------
(***************************************************************************)
(* Protocol PMOSRAM2: the host tool uart_ramload_send.py uploads a flat    *)
(* image to the persistent RAM loader of stage 1 (uart_ramloader.c) over a *)
(* serial line that may lose and corrupt what it carries.                  *)
(*                                                                         *)
(* The byte stream to the target is a sequence of tokens: an upload        *)
(* header, a frame header, or one unit of frame data.  Tokens keep their   *)
(* order but the target has no other framing: a lost token shifts every    *)
(* later read, exactly as a lost byte does.  The text the target prints is *)
(* a sequence of lines.  A CRC-32 is the sequence of units modulo CrcMod,  *)
(* so that units congruent modulo CrcMod collide; SHA-256 does not.        *)
(* Timeouts may fire whenever their caller waits; RamLoaderTimed puts      *)
(* clocks on them.                                                         *)
(***************************************************************************)
EXTENDS Integers, Sequences

CONSTANTS
  Image,       \* the image file: a nonempty sequence of units
  ChunkSize,   \* units per frame (--chunk-size)
  Retries,     \* resends per frame (--retries)
  CrcMod,      \* CRC-32 tells apart units that differ modulo CrcMod
  Faults,      \* the kinds of fault the line may produce
  MaxFaults,   \* bound: faults in a behaviour
  MaxRuns      \* bound: times the operator starts the host tool

FaultKinds ==
  {"lose", "data", "collide", "frame", "header", "line", "reply", "erode"}

ASSUME ImageAssumption ==
  Image \in Seq(Nat) /\ Len(Image) > 0 /\ CrcMod \in Nat \ {0}
ASSUME ChunkAssumption == ChunkSize \in Nat \ {0}
ASSUME BoundAssumption ==
  /\ Retries \in Nat /\ MaxFaults \in Nat /\ MaxRuns \in Nat \ {0}
  /\ Faults \subseteq FaultKinds

VARIABLES
  phase,       \* target: waits for a header, reads frames, or runs the image
  received,    \* target: units stored
  expected,    \* target: expected_sequence
  previous,    \* target: length and CRC of the last accepted frame
  mem,         \* target: destination RAM
  hashed,      \* target: what the running CRC and SHA contexts have absorbed
  host,        \* host: what the tool waits for, or how it ended
  sequence,    \* host: number of the frame being sent
  offset,      \* host: where that frame starts in the image
  attempt,     \* host: attempt number for that frame
  toTarget,    \* line: tokens on their way to the target
  toHost,      \* line: lines on their way to the host
  faults,      \* the kinds of the faults so far, in their order
  runs,        \* runs of the host tool so far
  executed     \* history: the image was executed during this run

targetVars == <<phase, received, expected, previous, mem, hashed>>
hostVars == <<host, sequence, offset, attempt>>
vars == <<phase, received, expected, previous, mem, hashed, host, sequence,
          offset, attempt, toTarget, toHost, faults, runs, executed>>

-----------------------------------------------------------------------------
(* The wire.                                                               *)

Size == Len(Image)
Garbage == 0     \* a unit no image contains

CrcOf(units) == [i \in DOMAIN units |-> units[i] % CrcMod]

FrameLength(o) == IF o + ChunkSize <= Size THEN ChunkSize ELSE Size - o
Payload(o) == [i \in 1..FrameLength(o) |-> Image[o + i]]

DataToken(u) == [kind |-> "data", value |-> u]
HeaderToken(ok) == [kind |-> "header", valid |-> ok]
FrameToken(m, s, n, c) ==
  [kind |-> "frame", magic |-> m, sequence |-> s, length |-> n, crc |-> c]

FrameTokens(s, o) ==
  <<FrameToken(TRUE, s, FrameLength(o), CrcOf(Payload(o)))>>
    \o [i \in 1..FrameLength(o) |-> DataToken(Payload(o)[i])]

Line(t) == [text |-> t]
Status(t, s) == [text |-> t, sequence |-> s]
Ready == Line("READY")
AbortLine == Line("ABORT")

-----------------------------------------------------------------------------
(* The target: uart_ramloader_wait_and_run inside persistent_uart_ramloader *)

(* Nobody reads the line once the tool has exited.                         *)
Say(lines) ==
  toHost' = IF host \in {"done", "failed"} THEN <<>> ELSE toHost \o lines

(* The first n tokens are consumed.                                        *)
Consume(n) == toTarget' = SubSeq(toTarget, n + 1, Len(toTarget))

(* abort_to_boot and the loop of persistent_uart_ramloader: everything that
   has reached the FIFO by then is drained, at least n tokens, and the
   loader announces itself again.                                          *)
Abort(n) ==
  /\ phase' = "ready"
  /\ \E m \in n..Len(toTarget) : Consume(m)
  /\ Say(<<AbortLine, Ready>>)
  /\ UNCHANGED <<received, expected, previous, mem, hashed, executed>>

(* Mutant of AcceptHeader: received_size keeps the value of the last transfer. *)
AcceptHeaderKeepsSize ==
  /\ phase = "ready"
  /\ toTarget # <<>>
  /\ Head(toTarget).kind = "header" /\ Head(toTarget).valid
  /\ phase' = "frames"
  /\ expected' = 0
  /\ previous' = [length |-> 0, crc |-> <<>>]
  /\ hashed' = <<>>
  /\ Consume(1)
  /\ Say(<<Line("HEADER-ACK")>>)
  /\ UNCHANGED <<received, mem, executed>>

(* A valid header opens a transfer.                                        *)
AcceptHeader ==
  /\ phase = "ready"
  /\ toTarget # <<>>
  /\ Head(toTarget).kind = "header" /\ Head(toTarget).valid
  /\ phase' = "frames"
  /\ received' = 0
  /\ expected' = 0
  /\ previous' = [length |-> 0, crc |-> <<>>]
  /\ hashed' = <<>>
  /\ Consume(1)
  /\ Say(<<Line("HEADER-ACK")>>)
  /\ UNCHANGED <<mem, executed>>

(* Anything else that arrives is read as a header: it is too short in time
   or it does not validate.                                                *)
RejectHeader ==
  /\ phase = "ready"
  /\ toTarget # <<>>
  /\ ~(Head(toTarget).kind = "header" /\ Head(toTarget).valid)
  /\ Abort(1)

(* The transfer timer or the timer of a block read expires.                *)
TransferTimeout ==
  /\ phase = "frames" /\ received < Size
  /\ Abort(0)

(* The next token is taken for a frame header.                             *)
FrameHeaderValid(h) ==
  /\ h.kind = "frame" /\ h.magic
  /\ h.length \in 1..ChunkSize

InvalidFrame ==
  /\ phase = "frames" /\ received < Size
  /\ toTarget # <<>>
  /\ ~FrameHeaderValid(Head(toTarget))
  /\ Abort(1)

(* Whatever follows the frame header is taken for its data.                *)
UnitOf(token) == IF token.kind = "data" THEN token.value ELSE Garbage
Chunk(n) == [i \in 1..n |-> UnitOf(toTarget[i + 1])]

FrameComplete ==
  /\ phase = "frames" /\ received < Size
  /\ toTarget # <<>>
  /\ FrameHeaderValid(Head(toTarget))
  /\ Len(toTarget) > Head(toTarget).length

FrameCrcMatches(h) == CrcOf(Chunk(h.length)) = h.crc

IsDuplicate(h) == expected # 0 /\ h.sequence = expected - 1
(* Mutant of DuplicateMatches: a frame sent twice is always refused.       *)
DuplicateNeverMatches(h) == FALSE

DuplicateMatches(h) ==
  h.length = previous.length /\ h.crc = previous.crc /\ FrameCrcMatches(h)

(* A frame repeated after its ACK was lost is acknowledged, not stored.    *)
DuplicateFrame ==
  /\ FrameComplete
  /\ LET h == Head(toTarget) IN
     /\ IsDuplicate(h)
     /\ Consume(h.length + 1)
     /\ Say(<<IF DuplicateMatches(h) THEN Status("ACK", h.sequence)
                                     ELSE Status("NACK", expected)>>)
  /\ UNCHANGED <<targetVars, executed>>

(* Mutant of FrameFits: the CRC of the frame is not compared.              *)
FrameFitsUnchecked(h) ==
  h.sequence = expected /\ h.length <= Size - received

FrameFits(h) ==
  /\ h.sequence = expected
  /\ FrameCrcMatches(h)
  /\ h.length <= Size - received

RejectFrame ==
  /\ FrameComplete
  /\ LET h == Head(toTarget) IN
     /\ ~IsDuplicate(h)
     /\ ~FrameFits(h)
     /\ Consume(h.length + 1)
     /\ Say(<<Status("NACK", expected)>>)
  /\ UNCHANGED <<targetVars, executed>>

AcceptFrame ==
  /\ FrameComplete
  /\ LET h == Head(toTarget) IN
     /\ ~IsDuplicate(h)
     /\ FrameFits(h)
     /\ mem' = [i \in 1..Size |-> IF i \in (received + 1)..(received + h.length)
                                  THEN Chunk(h.length)[i - received]
                                  ELSE mem[i]]
     /\ hashed' = hashed \o Chunk(h.length)
     /\ received' = received + h.length
     /\ previous' = [length |-> h.length, crc |-> h.crc]
     /\ Say(<<Status("ACK", expected)>>)
     /\ expected' = expected + 1
     /\ Consume(h.length + 1)
  /\ UNCHANGED <<phase, executed>>

(* Mutant of ImageVerified: the digest is not compared.                    *)
ImageVerifiedByCrc == CrcOf(hashed) = CrcOf(Image)

(* All units are in: the image CRC, then the digest, then the jump.        *)
ImageVerified == CrcOf(hashed) = CrcOf(Image) /\ hashed = Image

RejectImage ==
  /\ phase = "frames" /\ received >= Size
  /\ ~ImageVerified
  /\ Abort(0)

ExecuteImage ==
  /\ phase = "frames" /\ received >= Size
  /\ ImageVerified
  /\ phase' = "running"
  /\ executed' = TRUE
  /\ Say(<<Line("VERIFIED"), Line("EXEC")>>)
  /\ UNCHANGED <<received, expected, previous, mem, hashed, toTarget>>

(* entry() may return; the persistent loader then drains and starts over.  *)
PayloadReturns ==
  /\ phase = "running"
  /\ phase' = "ready"
  /\ \E m \in 0..Len(toTarget) : Consume(m)
  /\ Say(<<Line("RETURNED"), Ready>>)
  /\ UNCHANGED <<received, expected, previous, mem, hashed, executed>>

TargetStep ==
  \/ AcceptHeader \/ RejectHeader \/ InvalidFrame
  \/ DuplicateFrame \/ RejectFrame \/ AcceptFrame
  \/ RejectImage \/ ExecuteImage

Target ==
  /\ TargetStep \/ TransferTimeout \/ PayloadReturns
  /\ UNCHANGED <<hostVars, faults, runs>>

-----------------------------------------------------------------------------
(* The host: main, send_frame and wait_for of uart_ramload_send.py.        *)

Waiting == {"ready", "header-ack", "ack", "verified", "exec"}
LastFrame == offset + FrameLength(offset) = Size

Heard(line) == toHost # <<>> /\ Head(toHost) = line
NextLine == toHost' = Tail(toHost)
Send(tokens) == toTarget' = toTarget \o tokens

(* main raises ProtocolError, closes the port and exits.                   *)
Fail ==
  /\ host' = "failed"
  /\ toHost' = <<>>
  /\ UNCHANGED <<sequence, offset, attempt, toTarget>>

SendHeader ==
  /\ host = "ready" /\ Heard(Ready)
  /\ host' = "header-ack"
  /\ Send(<<HeaderToken(TRUE)>>)
  /\ NextLine
  /\ UNCHANGED <<sequence, offset, attempt>>

SendFrame(s, o) ==
  /\ host' = "ack"
  /\ sequence' = s
  /\ offset' = o
  /\ attempt' = 0
  /\ Send(FrameTokens(s, o))
  /\ NextLine

SendFirstFrame ==
  /\ host = "header-ack" /\ Heard(Line("HEADER-ACK"))
  /\ SendFrame(0, 0)

(* Mutant of AckHeard: the sequence number of an ACK is not compared.      *)
AnyAckHeard == host = "ack" /\ toHost # <<>> /\ Head(toHost).text = "ACK"

AckHeard == host = "ack" /\ Heard(Status("ACK", sequence))

SendNextFrame ==
  /\ AckHeard /\ ~LastFrame
  /\ SendFrame(sequence + 1, offset + ChunkSize)

(* Mutant of AllFramesSent: the ACK of the last frame ends the tool.       *)
AllFramesSentIsDone ==
  /\ AckHeard /\ LastFrame
  /\ host' = "done"
  /\ toHost' = <<>>
  /\ UNCHANGED <<sequence, offset, attempt, toTarget>>

AllFramesSent ==
  /\ AckHeard /\ LastFrame
  /\ host' = "verified"
  /\ NextLine
  /\ UNCHANGED <<sequence, offset, attempt, toTarget>>

(* VERIFIED stands for the ACK of the last frame when that one was lost.   *)
AwaitsVerified == host = "verified" \/ (host = "ack" /\ LastFrame)

HearVerified ==
  /\ AwaitsVerified /\ Heard(Line("VERIFIED"))
  /\ host' = "exec"
  /\ NextLine
  /\ UNCHANGED <<sequence, offset, attempt, toTarget>>

HearExec ==
  /\ host = "exec" /\ Heard(Line("EXEC"))
  /\ host' = "done"
  /\ toHost' = <<>>
  /\ UNCHANGED <<sequence, offset, attempt, toTarget>>

(* Mutant of Resend: one resend too many.                                  *)
ResendOnceMore ==
  /\ attempt <= Retries
  /\ attempt' = attempt + 1
  /\ Send(FrameTokens(sequence, offset))
  /\ UNCHANGED <<host, sequence, offset>>

Resend ==
  /\ attempt < Retries
  /\ attempt' = attempt + 1
  /\ Send(FrameTokens(sequence, offset))
  /\ UNCHANGED <<host, sequence, offset>>

HearNack ==
  /\ host = "ack" /\ Heard(Status("NACK", sequence))
  /\ \/ Resend /\ NextLine
     \/ attempt = Retries /\ Fail

HearAbort ==
  /\ host \in Waiting /\ Heard(AbortLine)
  /\ Fail

(* A line the tool is not waiting for is read and dropped.                 *)
Expecting(line) ==
  \/ line = AbortLine
  \/ host = "ready" /\ line = Ready
  \/ host = "header-ack" /\ line = Line("HEADER-ACK")
  \/ host = "ack" /\ line \in {Status("ACK", sequence), Status("NACK", sequence)}
  \/ AwaitsVerified /\ line = Line("VERIFIED")
  \/ host = "exec" /\ line = Line("EXEC")

IgnoreLine ==
  /\ host \in Waiting
  /\ toHost # <<>> /\ ~Expecting(Head(toHost))
  /\ NextLine
  /\ UNCHANGED <<hostVars, toTarget>>

(* Only the wait for an ACK is retried.                                    *)
HostTimeout ==
  /\ host \in Waiting
  /\ \/ host = "ack" /\ Resend /\ UNCHANGED toHost
     \/ (host = "ack" => attempt = Retries) /\ Fail

HostStep ==
  \/ SendHeader \/ SendFirstFrame \/ SendNextFrame \/ AllFramesSent
  \/ HearVerified \/ HearExec \/ HearNack \/ HearAbort \/ IgnoreLine

Host ==
  /\ HostStep \/ HostTimeout
  /\ UNCHANGED <<targetVars, faults, runs, executed>>

(* The operator starts the tool again; configure flushes the port.         *)
Rerun ==
  /\ host \in {"failed", "done"} /\ runs < MaxRuns
  /\ host' = "ready"
  /\ sequence' = 0
  /\ offset' = 0
  /\ attempt' = 0
  /\ toHost' = <<>>
  /\ runs' = runs + 1
  /\ executed' = FALSE
  /\ UNCHANGED <<targetVars, toTarget, faults>>

-----------------------------------------------------------------------------
(* The line.                                                               *)

Without(seq, i) == SubSeq(seq, 1, i - 1) \o SubSeq(seq, i + 1, Len(seq))

Occurs(kind) == kind \in Faults /\ faults' = Append(faults, kind)

LoseToken ==
  /\ Occurs("lose")
  /\ \E i \in DOMAIN toTarget : toTarget' = Without(toTarget, i)
  /\ UNCHANGED toHost

Replace(i, token) == toTarget' = [toTarget EXCEPT ![i] = token]

DamageData ==
  /\ \E i \in DOMAIN toTarget :
       /\ toTarget[i].kind = "data"
       /\ \/ Occurs("data") /\ Replace(i, DataToken(Garbage))
          \/ Occurs("collide") /\ Replace(i, DataToken(toTarget[i].value + CrcMod))
  /\ UNCHANGED toHost

DamageHeader ==
  /\ Occurs("header")
  /\ \E i \in DOMAIN toTarget :
       toTarget[i].kind = "header" /\ Replace(i, HeaderToken(FALSE))
  /\ UNCHANGED toHost

(* Frame headers carry no checksum of their own: any field may be damaged. *)
DamageFrame ==
  /\ Occurs("frame")
  /\ \E i \in DOMAIN toTarget :
       /\ toTarget[i].kind = "frame"
       /\ LET h == toTarget[i] IN
          \/ Replace(i, [h EXCEPT !.magic = FALSE])
          \/ Replace(i, [h EXCEPT !.crc = <<>>])
          \/ \E s \in 0..Size : Replace(i, [h EXCEPT !.sequence = s])
          \/ \E n \in 0..(ChunkSize + 1) : Replace(i, [h EXCEPT !.length = n])
  /\ UNCHANGED toHost

LoseLine ==
  /\ \E i \in DOMAIN toHost :
       /\ Occurs(IF toHost[i].text \in {"ACK", "NACK"} THEN "reply" ELSE "line")
       /\ toHost' = Without(toHost, i)
  /\ UNCHANGED toTarget

(* "PMOSRAM NACK s" that loses its N is "PMOSRAM ACK s".                   *)
ErodeLine ==
  /\ Occurs("erode")
  /\ \E i \in DOMAIN toHost :
       /\ toHost[i].text = "NACK"
       /\ toHost' = [toHost EXCEPT ![i] = Status("ACK", toHost[i].sequence)]
  /\ UNCHANGED toTarget

Fault ==
  /\ Len(faults) < MaxFaults
  /\ \/ LoseToken \/ DamageData \/ DamageHeader \/ DamageFrame
     \/ LoseLine \/ ErodeLine
  /\ UNCHANGED <<targetVars, hostVars, runs, executed>>

-----------------------------------------------------------------------------
(* Menu option 1 has printed READY and the tool has been started.          *)
Init ==
  /\ phase = "ready"
  /\ received = 0
  /\ expected = 0
  /\ previous = [length |-> 0, crc |-> <<>>]
  /\ mem = [i \in 1..Size |-> Garbage]
  /\ hashed = <<>>
  /\ host = "ready"
  /\ sequence = 0
  /\ offset = 0
  /\ attempt = 0
  /\ toTarget = <<>>
  /\ toHost = <<Ready>>
  /\ faults = <<>>
  /\ runs = 1
  /\ executed = FALSE

Next == Target \/ Host \/ Rerun \/ Fault

Spec == Init /\ [][Next]_vars

-----------------------------------------------------------------------------
(* Properties.                                                             *)

Token ==
  [kind : {"header"}, valid : BOOLEAN]
    \union [kind : {"data"}, value : Nat]
    \union [kind : {"frame"}, magic : BOOLEAN, sequence : Nat, length : Nat,
            crc : Seq(Nat)]

HostLine ==
  [text : {"READY", "ABORT", "HEADER-ACK", "VERIFIED", "EXEC", "RETURNED"}]
    \union [text : {"ACK", "NACK"}, sequence : Nat]

(* Types of the variables; a transfer never holds more than the image.     *)
TypeOK ==
  /\ phase \in {"ready", "frames", "running"}
  /\ received \in 0..Size
  /\ expected \in Nat
  /\ previous \in [length : Nat, crc : Seq(Nat)]
  /\ mem \in [1..Size -> Nat]
  /\ hashed \in Seq(Nat)
  /\ host \in Waiting \union {"done", "failed"}
  /\ sequence \in Nat
  /\ offset \in 0..(Size - 1)
  /\ attempt \in 0..Retries
  /\ toTarget \in Seq(Token)
  /\ toHost \in Seq(HostLine)
  /\ faults \in Seq(FaultKinds) /\ Len(faults) <= MaxFaults
  /\ runs \in 1..MaxRuns
  /\ executed \in BOOLEAN

(* Whatever the line does, duplicates, retries and CRC collisions included,
   the loader jumps only into a memory that holds exactly the image that the
   header announced (the digest covers what was stored, not what was sent). *)
ExecSound == phase = "running" => mem = Image

(* The tool reports success only if its own run made the target execute the
   image: no line of an earlier run, of a rejected image or of a damaged ACK
   passes for the completion markers.                                      *)
HostSound == host = "done" => executed

(* Faults of one of the given kinds, and of no other, have occurred.       *)
OnlyFaults(kinds) == \A i \in DOMAIN faults : faults[i] \in kinds

(* No NACK has become an ACK, and no line but an ACK or NACK has been lost if
   the tool was started again.                                             *)
TransfersTold ==
  /\ OnlyFaults(FaultKinds \ {"erode"})
  /\ runs > 1 => OnlyFaults(FaultKinds \ {"line"})

(* Lost, repeated and late ACK and NACK lines never make the tool skip a
   frame: while a transfer is open, the frame it is sending is one the target
   expects or has just stored.  A NACK that the line turns into an ACK does
   make it skip one, so that fault is excluded.  So is a lost ABORT once the
   tool has been started again: the new run may then take up the transfer
   that a header of the run before it, still on the line, opens.           *)
HostInSync ==
  TransfersTold => (host = "ack" /\ phase = "frames" => sequence <= expected)

(* As long as frame headers arrive intact, everything in memory has the CRC
   of the part of the image that belongs there, before the image CRC and the
   digest are looked at.  A damaged sequence number is enough to break it: a
   frame's CRC does not cover its header.                                  *)
StoredInPlace ==
  OnlyFaults(FaultKinds \ {"frame"}) =>
    (phase # "ready" =>
       \A i \in 1..received : mem[i] % CrcMod = Image[i] % CrcMod)

(* What an observer of the loader sees of an upload.                       *)
UploadStage ==
  CASE phase = "ready" -> "idle"
    [] phase = "frames" -> "receiving"
    [] OTHER -> "running"
UploadContent == IF phase = "ready" THEN <<>> ELSE [i \in 1..received |-> mem[i]]

Upload == INSTANCE VerifiedUpload WITH
  stage <- UploadStage, content <- UploadContent

(* The loader implements the abstract upload: memory only grows at its end
   while a transfer is open, an abort forgets it, and only the announced
   image is executed.                                                      *)
ImplementsUpload == Upload!Spec
=============================================================================
