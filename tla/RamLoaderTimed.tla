--------------------------- MODULE RamLoaderTimed ---------------------------
(***************************************************************************)
(* RamLoader with the timers of both ends.  One tick is the unit the       *)
(* constants are given in (a second for the shipped values).  The line and *)
(* both programs are fast against a tick: time passes only when nobody has *)
(* anything left to read.                                                  *)
(***************************************************************************)
EXTENDS RamLoader

CONSTANTS
  InterbyteTimeout,   \* UART_RAMLOADER_INTERBYTE_TIMEOUT_MS: one block read
  AckTimeout,         \* --ack-timeout: one wait of send_frame
  ReadyTimeout,       \* --ready-timeout
  ReplyTimeout,       \* the tool's wait for HEADER-ACK and for EXEC
  VerifiedTimeout     \* the tool's wait for VERIFIED

ASSUME TimeoutAssumption ==
  {InterbyteTimeout, AckTimeout, ReadyTimeout, ReplyTimeout, VerifiedTimeout}
     \subseteq Nat \ {0}

VARIABLES
  targetClock,   \* age of the target's current block read
  hostClock      \* age of the tool's current wait

timedVars == <<vars, targetClock, hostClock>>

HostLimit ==
  CASE host = "ready" -> ReadyTimeout
    [] host = "ack" -> AckTimeout
    [] host = "verified" -> VerifiedTimeout
    [] OTHER -> ReplyTimeout

(* Mutant of TimedTarget: a block read has no timeout.                     *)
TimedTargetForever ==
  /\ TargetStep
  /\ UNCHANGED <<hostVars, faults, runs>>
  /\ targetClock' = 0
  /\ UNCHANGED hostClock

(* Every block read starts a timer of its own (timer_start in
   uart_recv_exact); bytes that arrive let the read of the frame header end
   and the one of the data begin.                                          *)
TimedTarget ==
  /\ TargetStep \/ (targetClock = InterbyteTimeout /\ TransferTimeout)
  /\ UNCHANGED <<hostVars, faults, runs>>
  /\ targetClock' = 0
  /\ UNCHANGED hostClock

(* Mutant of TimedHost: after its last retry the tool waits on.            *)
TimedHostForever ==
  /\ HostStep \/ (hostClock = HostLimit /\ HostTimeout /\ host' # "failed")
  /\ UNCHANGED <<targetVars, faults, runs, executed>>
  /\ hostClock' = IF IgnoreLine THEN hostClock ELSE 0
  /\ targetClock' = IF toTarget' = toTarget THEN targetClock ELSE 0

(* A wait keeps its deadline over the lines it ignores.                    *)
TimedHost ==
  /\ HostStep \/ (hostClock = HostLimit /\ HostTimeout)
  /\ UNCHANGED <<targetVars, faults, runs, executed>>
  /\ hostClock' = IF IgnoreLine THEN hostClock ELSE 0
  /\ targetClock' = IF toTarget' = toTarget THEN targetClock ELSE 0

TimedRerun == Rerun /\ hostClock' = 0 /\ UNCHANGED targetClock

TimedFault == Fault /\ UNCHANGED <<targetClock, hostClock>>

TimedReturn ==
  /\ PayloadReturns
  /\ UNCHANGED <<hostVars, faults, runs>>
  /\ targetClock' = 0
  /\ UNCHANGED hostClock

(* Nothing can be read: the target lacks bytes, the host lacks lines.      *)
TargetStarved ==
  \/ phase = "running"
  \/ phase = "ready" /\ toTarget = <<>>
  \/ /\ phase = "frames" /\ received < Size
     /\ toTarget # <<>> => FrameHeaderValid(Head(toTarget)) /\ ~FrameComplete

Quiet ==
  /\ TargetStarved
  /\ host \in Waiting => toHost = <<>>

Tick ==
  /\ Quiet
  /\ phase = "frames" => targetClock < InterbyteTimeout
  /\ host \in Waiting => hostClock < HostLimit
  /\ phase = "frames" \/ host \in Waiting
  /\ targetClock' = IF phase = "frames" THEN targetClock + 1 ELSE 0
  /\ hostClock' = IF host \in Waiting THEN hostClock + 1 ELSE 0
  /\ UNCHANGED vars

TimedInit == Init /\ targetClock = 0 /\ hostClock = 0

TimedNext ==
  \/ TimedTarget \/ TimedReturn \/ TimedHost \/ TimedRerun \/ TimedFault \/ Tick

TimedSpec == TimedInit /\ [][TimedNext]_timedVars

(* Both programs run whenever they can, and time passes.  Nothing obliges
   the line to fail or the operator to start the tool again.               *)
FairTimedSpec ==
  /\ TimedSpec
  /\ WF_timedVars(TimedTarget)
  /\ WF_timedVars(TimedHost)
  /\ WF_timedVars(Tick)

-----------------------------------------------------------------------------
(* Properties.                                                             *)

(* A transfer never hangs the loader: whatever was lost, and although the
   tool may be gone, it ends in execution or back at READY.  Nor does the tool
   hang, also when the target has nothing more to say.                     *)
UploadEnds ==
  /\ phase = "frames" ~> phase # "frames"
  /\ host \in Waiting ~> host \in {"done", "failed"}

(* As many damaged frames and lost ACK or NACK lines as the tool has retries
   do not make it fail.                                                    *)
RetriesSuffice ==
  OnlyFaults({"reply", "data"}) /\ Len(faults) <= Retries /\ runs = 1
    => host # "failed"
=============================================================================
