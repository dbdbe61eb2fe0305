---------------------------- MODULE FrameTransfer ----------------------------
(***************************************************************************)
(* Protocol v3 of PMOSREC and PMOSLIVE: receive_v3_object receives the     *)
(* frames of an object in windows and asks for repeats by a bitmap; each   *)
(* ACK record is repeated until the host confirms it with one byte.  The   *)
(* command loop is present with the FEATURE command, which transfers a     *)
(* test object and comes back to the loop whatever happened.               *)
(*                                                                         *)
(* The bytes to the target are a sequence of tokens, cut where the target  *)
(* can be misled: a confirmation byte (0xA5); the byte 'P', with which     *)
(* both a frame (PKF3) and a command line (PMOS3) begin; the rest of a     *)
(* frame header; the data of a frame; the rest of a command line.  CRC-32  *)
(* is taken to notice what the line damages.  The host is not part of the  *)
(* repository: it is modelled from what the payload expects of it.         *)
(***************************************************************************)
EXTENDS Integers, Sequences, FiniteSets, SequencesExt

CONSTANTS
  Frames,      \* frames of a test object
  Windows,     \* window sizes a FEATURE command may ask for
  MaxWindow,   \* MAX_WINDOW (16)
  Rounds,      \* retry rounds of a window (8)
  AckTries,    \* ACK_CONFIRM_RETRIES (4)
  Faults,      \* kinds of fault of the line and the host
  MaxFaults,   \* bound: faults in a behaviour
  MaxTests     \* bound: FEATURE commands the host sends

FaultKinds == {"confirm", "frame", "ack", "late", "giveup", "deadline"}

ASSUME TransferAssumption ==
  /\ {Frames, AckTries, MaxTests} \subseteq Nat \ {0}
  /\ {Rounds, MaxFaults} \subseteq Nat
  /\ MaxWindow \in Nat \ {0}
  /\ Windows \subseteq 1..MaxWindow
  /\ Faults \subseteq FaultKinds

VARIABLES
  phase,      \* target: reads a command, opens a window, reads a frame, or awaits a confirmation
  obj,        \* target: the local variables of receive_v3_object
  stored,     \* target: which test the data in each slot comes from (0: fill)
  pushback,   \* target: uart_pushback_valid; the byte is always 'P'
  outcome,    \* target: how the last test ended
  host,       \* host: what it waits for or sends
  toTarget,   \* line: tokens on their way to the target
  toHost,     \* line: records and lines on their way to the host
  faults      \* history: the faults so far

vars == <<phase, obj, stored, pushback, outcome, host, toTarget, toHost, faults>>

Slots == 0..(Frames - 1)
Count(base, window) == IF Frames - base > window THEN window ELSE Frames - base

-----------------------------------------------------------------------------
(* The line.                                                               *)

Confirm == [kind |-> "confirm"]
Start == [kind |-> "start"]
Rest(s, t) == [kind |-> "rest", sequence |-> s, test |-> t]
Data(s, t) == [kind |-> "data", sequence |-> s, test |-> t]
Command(t, w) == [kind |-> "command", test |-> t, window |-> w]
Junk == [kind |-> "junk"]     \* what is left of a header or of data

FrameTokens(s, t) == <<Start, Rest(s, t), Data(s, t)>>

Ack(o) == [kind |-> "ack", base |-> o.base, round |-> o.round, bitmap |-> o.bitmap]
Reply(k) == [kind |-> k]

Say(line) == toHost' = IF host.state = "gone" THEN <<>> ELSE Append(toHost, line)

(* What the next recv_exact reads: the byte pushed back comes first.       *)
Stream == (IF pushback THEN <<Start>> ELSE <<>>) \o toTarget

(* recv_exact consumed the first n tokens of the stream.                   *)
Consume(n) ==
  /\ pushback' = FALSE
  /\ toTarget' = SubSeq(Stream, n + 1, Len(Stream))

(* Mutant of Drain: the line is drained, the byte pushed back is kept.     *)
DrainLineOnly == pushback' = pushback /\ toTarget' = <<>>

(* uart_drain_until_idle: it ends only when nothing is under way.          *)
Drain == pushback' = FALSE /\ toTarget' = <<>>

(* A timeout that comes although the host has something to send or to read
   means that the host or the line was late.                               *)
Quiet == toHost = <<>> /\ host.state # "send"

Noted(kind) ==
  /\ kind \in Faults
  /\ Len(faults) < MaxFaults
  /\ faults' = Append(faults, kind)

TimedOut == IF Quiet THEN UNCHANGED faults ELSE Noted("late")

-----------------------------------------------------------------------------
(* The target: the command loop and handle_feature_test.                   *)

(* recv_line_timeout does not look at the byte pushed back.  Everything up
   to the end of a line is the line.                                       *)
ReadCommand ==
  /\ phase = "command"
  /\ \E k \in DOMAIN toTarget :
       /\ toTarget[k].kind = "command"
       /\ \A i \in 1..(k - 1) : toTarget[i].kind # "command"
       /\ toTarget' = SubSeq(toTarget, k + 1, Len(toTarget))
       /\ IF k = 2 /\ toTarget[1] = Start
            THEN /\ phase' = "window"
                 /\ obj' = [test |-> toTarget[k].test, window |-> toTarget[k].window,
                            base |-> 0, pos |-> 0, round |-> 0, bitmap |-> {},
                            attempt |-> 0, effort |-> 0]
                 /\ stored' = [s \in Slots |-> 0]
                 /\ Say(Reply("ready"))
            ELSE /\ Say(Reply("unknown"))
                 /\ UNCHANGED <<phase, obj, stored>>
  /\ UNCHANGED <<pushback, outcome, host, faults>>

(* The object is given up: what has arrived so far is drained.             *)
ObjectFails ==
  /\ phase' = "command"
  /\ outcome' = "fail"
  /\ Drain
  /\ Say(Reply("fail"))
  /\ UNCHANGED <<obj, stored>>

(* The checks over the whole object.                                       *)
ObjectVerified == \A s \in Slots : stored[s] = obj.test

-----------------------------------------------------------------------------
(* The target: receive_v3_object.                                          *)

OpenWindow ==
  /\ phase = "window" /\ obj.base < Frames
  /\ phase' = "frame"
  /\ obj' = [obj EXCEPT !.pos = 0, !.round = 0, !.bitmap = {}, !.effort = 0]
  /\ UNCHANGED <<stored, pushback, outcome, host, toTarget, toHost, faults>>

DeadlinePassed ==
  /\ phase = "window" /\ obj.base < Frames
  /\ Noted("deadline")
  /\ ObjectFails
  /\ UNCHANGED host

FinishObject ==
  /\ phase = "window" /\ obj.base >= Frames
  /\ IF ObjectVerified
       THEN /\ phase' = "command"
            /\ outcome' = "pass"
            /\ Say(Reply("pass"))
            /\ UNCHANGED <<obj, stored, pushback, toTarget>>
       ELSE ObjectFails
  /\ UNCHANGED <<host, faults>>

(* Positions of the window still to be read in this round.                 *)
Remaining(bitmap) ==
  {p \in 0..(Count(obj.base, obj.window) - 1) :
     p > obj.pos /\ (obj.round = 0 \/ p \in bitmap)}
Least(S) == CHOOSE x \in S : \A y \in S : x <= y

(* Mutant of MarkFrame: a frame read in a retry round is taken for good.   *)
MarkFrameRetried(ok) ==
  IF ok \/ obj.round > 0 THEN obj.bitmap \ {obj.pos} ELSE obj.bitmap \union {obj.pos}

MarkFrame(ok) ==
  IF ok THEN obj.bitmap \ {obj.pos} ELSE obj.bitmap \union {obj.pos}

(* receive_v3_frame returned 0 or 1: on to the next frame of the round, or
   to the ACK record.                                                      *)
FrameRead(ok) ==
  LET bitmap == MarkFrame(ok)
      next == [obj EXCEPT !.bitmap = bitmap, !.effort = @ + 1]
  IN IF Remaining(bitmap) # {}
       THEN /\ obj' = [next EXCEPT !.pos = Least(Remaining(bitmap))]
            /\ UNCHANGED <<phase, toHost>>
       ELSE /\ phase' = "ack"
            /\ obj' = [next EXCEPT !.attempt = 1]
            /\ Say(Ack(next))

(* v3_recover_single_frame_boundary, and what its result leads to.         *)
Recover ==
  IF obj.window = 1
    THEN FrameRead(FALSE) /\ Drain /\ UNCHANGED <<stored, outcome>>
    ELSE ObjectFails

Big(token) == token.kind \in {"rest", "data", "command", "junk"}
HeaderArrived ==
  \E i \in DOMAIN Stream : Stream[i].kind = "data" \/ (Big(Stream[i]) /\ Len(Stream) > 1)

(* Mutant of HeaderValid: the sequence number is not compared.             *)
HeaderOfAnyFrame ==
  /\ Len(Stream) >= 2
  /\ Stream[1] = Start
  /\ Stream[2].kind = "rest"

(* CRC, magic, object and sequence number of the next header.              *)
HeaderValid ==
  /\ Len(Stream) >= 2
  /\ Stream[1] = Start
  /\ Stream[2].kind = "rest"
  /\ Stream[2].sequence = obj.base + obj.pos

HeaderInvalid ==
  /\ phase = "frame"
  /\ HeaderArrived /\ ~HeaderValid
  /\ Recover
  /\ UNCHANGED <<host, faults>>

HeaderTimeout ==
  /\ phase = "frame" /\ ~HeaderArrived
  /\ TimedOut
  /\ Recover
  /\ UNCHANGED host

PayloadTimeout ==
  /\ phase = "frame"
  /\ HeaderValid /\ Len(Stream) = 2
  /\ TimedOut
  /\ Recover
  /\ UNCHANGED host

(* As many bytes as the header announces were read, but they are not the
   data of this frame: the wire CRC fails.  If they were other tokens, the
   read stops somewhere inside of what follows.                            *)
OwnData == Stream[3].kind = "data" /\ Stream[3].sequence = Stream[2].sequence
                                   /\ Stream[3].test = Stream[2].test

DataInvalid ==
  /\ phase = "frame"
  /\ HeaderValid /\ Len(Stream) >= 3 /\ ~OwnData
  /\ FrameRead(FALSE)
  /\ IF Stream[3] = Junk THEN Consume(3) ELSE \E n \in 3..Len(Stream) : Consume(n)
  /\ UNCHANGED <<stored, outcome, host, faults>>

(* frame_slot_mark refuses a slot twice, except in a retry round.          *)
StoreFrame ==
  /\ phase = "frame"
  /\ HeaderValid /\ Len(Stream) >= 3 /\ OwnData
  /\ IF obj.round = 0 /\ stored[Stream[2].sequence] # 0
       THEN ObjectFails
       ELSE /\ stored' = [stored EXCEPT ![Stream[2].sequence] = Stream[2].test]
            /\ FrameRead(TRUE)
            /\ Consume(3)
            /\ UNCHANGED outcome
  /\ UNCHANGED <<host, faults>>

-----------------------------------------------------------------------------
(* The target: send_ack_record.                                            *)

(* Mutant of NextRound: the rounds are not counted.                        *)
NextRoundForever ==
  /\ phase' = "frame"
  /\ obj' = [obj EXCEPT !.pos = Least(obj.bitmap), !.effort = @ + 1]

NextRound ==
  /\ phase' = "frame"
  /\ obj' = [obj EXCEPT !.round = @ + 1, !.pos = Least(obj.bitmap)]

(* The ACK counts as heard.                                                *)
Acknowledged ==
  /\ IF obj.bitmap = {}
       THEN /\ phase' = "window"
            /\ obj' = [obj EXCEPT !.base = @ + Count(obj.base, obj.window)]
       ELSE NextRound
  /\ UNCHANGED <<stored, outcome, toHost>>

(* Mutant of RoundsExhausted: one round too many.                          *)
RoundsExhaustedLate == obj.bitmap # {} /\ obj.round > Rounds

RoundsExhausted == obj.bitmap # {} /\ obj.round = Rounds

(* Mutant of KeepStart: the first byte of the next frame is swallowed.     *)
KeepStartNot ==
  pushback' = FALSE /\ toTarget' = Tail(Stream)

KeepStart ==
  pushback' = TRUE /\ toTarget' = Tail(Stream)

(* The confirmation, or the first byte of what the host sends next.        *)
ReadConfirmation ==
  /\ phase = "ack" /\ Stream # <<>>
  /\ Head(Stream).kind \in {"confirm", "start"}
  /\ IF RoundsExhausted
       THEN ObjectFails
       ELSE /\ Acknowledged
            /\ IF Head(Stream) = Start THEN KeepStart ELSE Consume(1)
  /\ UNCHANGED <<host, faults>>

(* Mutant of AckAgain: after the last attempt the ACK is taken as heard.   *)
AckAgainThenGoOn ==
  IF obj.attempt < AckTries
    THEN /\ obj' = [obj EXCEPT !.attempt = @ + 1, !.effort = @ + 1]
         /\ Say(Ack(obj))
         /\ UNCHANGED <<phase, stored, outcome>>
    ELSE Acknowledged

(* Mutant of AckAgain: the attempts are not counted.                       *)
AckAgainForever == Say(Ack(obj)) /\ UNCHANGED <<phase, obj, stored, outcome>>

AckAgain ==
  IF obj.attempt < AckTries
    THEN /\ obj' = [obj EXCEPT !.attempt = @ + 1, !.effort = @ + 1]
         /\ Say(Ack(obj))
         /\ UNCHANGED <<phase, stored, outcome>>
    ELSE ObjectFails

AckTimeout ==
  /\ phase = "ack" /\ Stream = <<>>
  /\ TimedOut
  /\ AckAgain
  /\ toTarget' = <<>> /\ pushback' = FALSE
  /\ UNCHANGED host

(* Another byte, from the middle of a header, of data or of a line; such a
   byte may also look like a confirmation.                                 *)
ReadOtherByte ==
  /\ phase = "ack" /\ Stream # <<>> /\ Big(Head(Stream))
  /\ \/ AckAgain
     \/ IF RoundsExhausted THEN ObjectFails ELSE Acknowledged
  /\ IF phase' = "command" THEN Drain
       ELSE pushback' = FALSE /\ toTarget' = <<Junk>> \o Tail(Stream)
  /\ UNCHANGED <<host, faults>>

Target ==
  \/ ReadCommand \/ OpenWindow \/ FinishObject
  \/ HeaderInvalid \/ HeaderTimeout \/ PayloadTimeout \/ DataInvalid \/ StoreFrame
  \/ ReadConfirmation \/ AckTimeout \/ ReadOtherByte

-----------------------------------------------------------------------------
(* The host.                                                               *)

Hears(kind) == toHost # <<>> /\ Head(toHost).kind = kind
Send(tokens) == toTarget' = toTarget \o tokens
WindowOf(base) == base..(base + Count(base, host.window) - 1)

HostCommand ==
  /\ host.state = "idle" /\ host.test < MaxTests
  /\ \E w \in Windows :
       /\ host' = [host EXCEPT !.state = "ready", !.test = @ + 1, !.window = w,
                               !.base = 0, !.todo = {}, !.heard = -1]
       /\ Send(<<Start, Command(host.test + 1, w)>>)
  /\ UNCHANGED toHost

HostBegin ==
  /\ host.state = "ready" /\ Hears("ready")
  /\ host' = [host EXCEPT !.state = "send", !.todo = WindowOf(0)]
  /\ toHost' = Tail(toHost)
  /\ UNCHANGED toTarget

HostSend ==
  /\ host.state = "send"
  /\ LET s == Least(host.todo) IN
     /\ Send(FrameTokens(s, host.test))
     /\ host' = [host EXCEPT !.todo = @ \ {s},
                             !.state = IF host.todo = {s} THEN "ack" ELSE "send"]
  /\ UNCHANGED toHost

(* A new ACK of the current window is confirmed and obeyed.                *)
HostAck ==
  /\ host.state = "ack" /\ Hears("ack")
  /\ LET a == Head(toHost) IN
     /\ a.base = host.base /\ a.round > host.heard
     /\ IF a.bitmap # {}
          THEN host' = [host EXCEPT !.state = "send", !.heard = a.round,
                                    !.todo = {host.base + p : p \in a.bitmap}]
          ELSE LET next == host.base + Count(host.base, host.window) IN
               host' = [host EXCEPT !.base = next, !.heard = -1,
                                    !.state = IF next = Frames THEN "result" ELSE "send",
                                    !.todo = IF next = Frames THEN {} ELSE WindowOf(next)]
  /\ Send(<<Confirm>>)
  /\ toHost' = Tail(toHost)

(* A repeated ACK is confirmed again; it may be ignored when frames that
   confirm it as well are under way.                                       *)
HostAckAgain ==
  /\ host.state \in {"ack", "result"} /\ Hears("ack")
  /\ LET a == Head(toHost) IN
     ~(host.state = "ack" /\ a.base = host.base /\ a.round > host.heard)
  /\ Send(<<Confirm>>) \/ (host.state = "ack" /\ UNCHANGED toTarget)
  /\ toHost' = Tail(toHost)
  /\ UNCHANGED host

(* The test ended, or the command was not understood.                      *)
HostResult ==
  /\ host.state \in {"ready", "ack", "result"}
  /\ Hears("fail") \/ Hears("unknown") \/ (host.state = "result" /\ Hears("pass"))
  /\ host' = [host EXCEPT !.state = "idle"]
  /\ toHost' = Tail(toHost)
  /\ UNCHANGED toTarget

(* Lines that are of no use any more.                                      *)
HostSkip ==
  /\ toHost # <<>>
  /\ \/ host.state = "idle"
     \/ host.state = "ready" /\ Head(toHost).kind \in {"ack", "pass"}
     \/ host.state \in {"ack", "result"} /\ Hears("ready")
     \/ host.state = "ack" /\ Hears("pass")
  /\ toHost' = Tail(toHost)
  /\ UNCHANGED <<host, toTarget>>

Host ==
  /\ HostCommand \/ HostBegin \/ HostSend \/ HostAck \/ HostAckAgain
       \/ HostResult \/ HostSkip
  /\ UNCHANGED <<phase, obj, stored, pushback, outcome, faults>>

(* The host stops waiting and goes on to its next command.                 *)
HostGivesUp ==
  /\ host.state \in {"ready", "ack", "result"}
  /\ Noted("giveup")
  /\ host' = [host EXCEPT !.state = "idle"]
  /\ UNCHANGED <<phase, obj, stored, pushback, outcome, toTarget, toHost>>

(* The host is switched off.                                               *)
HostVanishes ==
  /\ host.state # "gone"
  /\ host' = [host EXCEPT !.state = "gone"]
  /\ toHost' = <<>>
  /\ UNCHANGED <<phase, obj, stored, pushback, outcome, toTarget, faults>>

-----------------------------------------------------------------------------
(* Faults of the line.                                                     *)

LoseConfirm ==
  /\ Noted("confirm")
  /\ \E i \in DOMAIN toTarget :
       toTarget[i] = Confirm /\ toTarget' = RemoveAt(toTarget, i)
  /\ UNCHANGED toHost

DamageFrame ==
  /\ Noted("frame")
  /\ \E i \in DOMAIN toTarget :
       /\ toTarget[i].kind \in {"start", "rest", "data"}
       /\ \/ toTarget' = RemoveAt(toTarget, i)
          \/ toTarget[i] # Start /\ toTarget' = [toTarget EXCEPT ![i] = Junk]
  /\ UNCHANGED toHost

DamageAck ==
  /\ Noted("ack")
  /\ \E i \in DOMAIN toHost :
       toHost[i].kind = "ack" /\ toHost' = RemoveAt(toHost, i)
  /\ UNCHANGED toTarget

Fault ==
  /\ LoseConfirm \/ DamageFrame \/ DamageAck
  /\ UNCHANGED <<phase, obj, stored, pushback, outcome, host>>

-----------------------------------------------------------------------------
Init ==
  /\ phase = "command"
  /\ obj = [test |-> 0, window |-> 1, base |-> 0, pos |-> 0, round |-> 0,
            bitmap |-> {}, attempt |-> 0, effort |-> 0]
  /\ stored = [s \in Slots |-> 0]
  /\ pushback = FALSE
  /\ outcome = "none"
  /\ host = [state |-> "idle", test |-> 0, window |-> 1, base |-> 0,
             todo |-> {}, heard |-> -1]
  /\ toTarget = <<>>
  /\ toHost = <<>>
  /\ faults = <<>>

Next == Target \/ DeadlinePassed \/ Host \/ HostGivesUp \/ HostVanishes \/ Fault

Spec == Init /\ [][Next]_vars

(* Both programs run whenever they can.                                    *)
FairSpec == Spec /\ WF_vars(Target) /\ WF_vars(Host)

-----------------------------------------------------------------------------
(* Properties.                                                             *)

Only(kinds) == ToSet(faults) \subseteq kinds

(* Types of the variables.  The deadline of the object is looked at once per
   window; in between, the target reads at most so many frames and sends at
   most so many ACKs, each of them limited by a timeout of its own.        *)
TypeOK ==
  /\ phase \in {"command", "window", "frame", "ack"}
  /\ obj \in [test : 0..MaxTests, window : Windows \union {1}, base : 0..Frames,
              pos : Slots, round : 0..Rounds, bitmap : SUBSET Slots,
              attempt : 0..AckTries,
              effort : 0..((1 + Rounds) * (MaxWindow + AckTries - 1))]
  /\ stored \in [Slots -> 0..MaxTests]
  /\ pushback \in BOOLEAN
  /\ outcome \in {"none", "pass", "fail"}
  /\ Len(faults) <= MaxFaults

(* Whatever the line and the host do, the receiver never leaves a window
   behind before each of its frames is stored: a bit cleared in a retry round
   stands for a frame that came.  The data are those of this very test unless
   the host gave up an earlier one: a frame does not say which test it is of. *)
WindowStored ==
  phase # "command" =>
    \A s \in 0..(obj.base - 1) :
      stored[s] # 0 /\ ("giveup" \notin ToSet(faults) => stored[s] = obj.test)

(* "a damaged ACK cannot advance or desynchronize the receive window": as
   long as nobody is late or gives up, the target moves its window only when
   the host has heard the ACK that says so.                                *)
AckHeardFirst ==
  Only({"confirm", "frame", "ack"}) /\ host.state # "gone" =>
    (phase # "command" => obj.base <= host.base)

(* "A lost one-byte ACK confirmation cannot corrupt the next frame": no such
   loss makes the target refuse a frame or the test fail.                  *)
LostConfirmHarmless ==
  Only({"confirm"}) /\ Len(faults) < AckTries /\ host.state # "gone" =>
    obj.bitmap = {} /\ outcome # "fail"

(* The byte pushed back is left over at the end of a test, where the line
   reader does not see it and the next header is read behind it, only if the
   host gave up or was late.                                               *)
NoStalePushback ==
  phase = "command" /\ pushback => ~Only({"confirm", "frame", "ack", "deadline"})

(* Every test ends and the target takes commands again, also when the host
   vanishes in the middle of a window.                                     *)
TestEnds == phase # "command" ~> phase = "command"
=============================================================================
