------------------------------ MODULE BaudTest ------------------------------
(***************************************************************************)
(* The trial of a new baud rate (run_baud_test) of the recovery and live   *)
(* boot payloads, called from their command loop.  The target switches its *)
(* divisor, both sides prove the new rate in each direction, and only then *)
(* is it kept; otherwise the target goes back and announces the old rate.  *)
(*                                                                         *)
(* A line that is sent while the two ends run at different rates arrives   *)
(* as noise.  The host is not part of the repository: it is modelled from  *)
(* what the payload expects of it ("The host independently returns to      *)
(* old_rate").                                                             *)
(***************************************************************************)
EXTENDS Integers, Sequences, SequencesExt

CONSTANTS
  Rates,       \* divisors that stand for the rates both sides can be set to
  Baseline,    \* the divisor found at the start
  Passes,      \* passes a trial may ask for (1 to 4)
  SyncTries,   \* how often the target invites the host at the new rate (20)
  Beacons,     \* how often the target announces that it fell back (30)
  MaxTrials,   \* bound: trials the host asks for
  MaxLost      \* bound: lines lost on the way

ASSUME BaudAssumption ==
  /\ Baseline \in Rates
  /\ Passes \subseteq Nat \ {0}
  /\ {SyncTries, Beacons} \subseteq Nat \ {0}
  /\ {MaxTrials, MaxLost} \subseteq Nat

VARIABLES
  phase,      \* target: the command loop or the point reached in the trial
  hw,         \* target: the divisor in the UART
  current,    \* target: current_divisor of the command loop
  trial,      \* target: the parameters and counters of run_baud_test
  host,       \* host: what it does, its rate, and the trial it asked for
  toTarget,   \* line: lines and data on their way to the target
  toHost,     \* line: lines and data on their way to the host
  lost,       \* history: lines lost
  orphaned    \* history: the host stopped waiting after it had sent COMMIT

baudVars == <<phase, hw, current, trial, host, toTarget, toHost, lost, orphaned>>

(* run_baud_test is not running.                                           *)
NoTrial == [nonce |-> 0, rate |-> Baseline, passes |-> 1, old |-> Baseline,
            pass |-> 0, count |-> 0]

Noise == [kind |-> "noise"]
Line(k) == [kind |-> k]
Nonced(k, n, p) == [kind |-> k, nonce |-> n, pass |-> p]

(* What arrives of a line, given the rates of the two ends.                *)
Arrives(message, rate) == IF rate = host.rate THEN message ELSE Noise
Say(message) == toHost' = Append(toHost, Arrives(message, hw))
Send(message) ==
  toTarget' = Append(toTarget, IF hw = host.rate THEN message ELSE Noise)

-----------------------------------------------------------------------------
(* The target.                                                             *)

(* Mutant of FallBack: the variables are restored, the divisor is not.     *)
FallBackKeepsRate ==
  /\ phase' = "fallback"
  /\ current' = trial.old
  /\ trial' = [trial EXCEPT !.count = 1]
  /\ Say(Line("fallback"))
  /\ UNCHANGED hw

(* uart_set_divisor(old_divisor), and the first beacon.                    *)
FallBack ==
  /\ phase' = "fallback"
  /\ hw' = trial.old
  /\ current' = trial.old
  /\ trial' = [trial EXCEPT !.count = 1]
  /\ toHost' = Append(toHost, Arrives(Line("fallback"), trial.old))

(* recv_line_timeout: noise before a line spoils it.                       *)
Heard(n) == IF n = 1 THEN Head(toTarget) ELSE Noise
TakeLine(n) ==
  /\ Len(toTarget) >= n
  /\ n = 2 => Head(toTarget) = Noise
  /\ toTarget' = SubSeq(toTarget, n + 1, Len(toTarget))

Prepare(n) ==
  LET line == Heard(n) IN
  /\ phase = "command" /\ TakeLine(n)
  /\ IF line.kind = "prepare"
       THEN /\ phase' = "switch"
            /\ trial' = [nonce |-> line.nonce, rate |-> line.rate, passes |-> line.passes,
                         old |-> current, pass |-> 0, count |-> 0]
            /\ Say(Line("prepared"))
       ELSE UNCHANGED <<phase, trial>> /\ Say(Line("unknown"))
  /\ UNCHANGED <<hw, current>>

Sync == Nonced("sync", trial.nonce, 0)

(* After the last byte of BAUD-PREPARED and 100 ms: the new divisor and the
   first invitation.                                                       *)
SwitchRate ==
  /\ phase = "switch"
  /\ phase' = "sync"
  /\ hw' = trial.rate
  /\ trial' = [trial EXCEPT !.count = 1]
  /\ toHost' = Append(toHost, Arrives(Sync, trial.rate))
  /\ UNCHANGED <<current, toTarget>>

(* Mutant of InviteAgain: one invitation too many.                         *)
InviteOnceMore ==
  IF trial.count <= SyncTries
    THEN /\ trial' = [trial EXCEPT !.count = @ + 1]
         /\ Say(Sync)
         /\ UNCHANGED <<phase, hw, current>>
    ELSE FallBack

InviteAgain ==
  IF trial.count < SyncTries
    THEN /\ trial' = [trial EXCEPT !.count = @ + 1]
         /\ Say(Sync)
         /\ UNCHANGED <<phase, hw, current>>
    ELSE FallBack

SyncAnswered(n) ==
  /\ phase = "sync" /\ TakeLine(n)
  /\ IF Heard(n) = Nonced("syncack", trial.nonce, 0)
       THEN /\ phase' = "h2t"
            /\ Say(Nonced("start", trial.nonce, 0))
            /\ UNCHANGED <<hw, current, trial>>
       ELSE InviteAgain

SyncTimeout ==
  /\ phase = "sync" /\ toTarget = <<>>
  /\ InviteAgain
  /\ UNCHANGED toTarget

(* The line and its data name this trial and this pass, and the CRCs hold. *)
DataProven(n, kind) == Heard(n) = Nonced(kind, trial.nonce, trial.pass)

HostData(n) ==
  /\ phase = "h2t" /\ TakeLine(n)
  /\ IF DataProven(n, "h2t")
       THEN /\ phase' = "t2hack"
            /\ toHost' = toHost \o
                 <<Arrives(Nonced("h2tok", trial.nonce, trial.pass), hw),
                   Arrives(Nonced("t2h", trial.nonce, trial.pass), hw)>>
            /\ UNCHANGED <<hw, current, trial>>
       ELSE FallBack

LastPass == trial.pass + 1 = trial.passes

TargetDataAcked(n) ==
  /\ phase = "t2hack" /\ TakeLine(n)
  /\ IF DataProven(n, "t2hack")
       THEN IF LastPass
              THEN /\ phase' = "commit"
                   /\ Say(Nonced("pass", trial.nonce, 0))
                   /\ UNCHANGED <<hw, current, trial>>
              ELSE /\ phase' = "h2t"
                   /\ trial' = [trial EXCEPT !.pass = @ + 1]
                   /\ UNCHANGED <<hw, current, toHost>>
       ELSE FallBack

(* Mutant of Committed: the host's word is not waited for.                 *)
CommittedUnheard(n) == TRUE

Committed(n) == Heard(n) = Nonced("commit", trial.nonce, 0)

Commit(n) ==
  /\ phase = "commit" /\ TakeLine(n)
  /\ IF Committed(n)
       THEN /\ phase' = "command"
            /\ current' = trial.rate
            /\ trial' = NoTrial
            /\ Say(Nonced("committed", trial.nonce, 0))
            /\ UNCHANGED hw
       ELSE FallBack

(* BAUD_TEST_TIMEOUT_MS.                                                   *)
TrialTimeout ==
  /\ phase \in {"h2t", "t2hack", "commit"} /\ toTarget = <<>>
  /\ FallBack
  /\ UNCHANGED toTarget

(* Mutant of Beacon: the command loop is never reached again.              *)
BeaconForever ==
  /\ phase = "fallback"
  /\ UNCHANGED <<phase, hw, current, trial, toTarget, toHost>>

Beacon ==
  /\ phase = "fallback"
  /\ IF trial.count < Beacons
       THEN /\ trial' = [trial EXCEPT !.count = @ + 1]
            /\ Say(Line("fallback"))
            /\ UNCHANGED phase
       ELSE /\ phase' = "command"
            /\ Say(Line("ready"))
            /\ trial' = NoTrial
  /\ UNCHANGED <<hw, current, toTarget>>

BaudTarget ==
  /\ \/ \E n \in 1..2 :
          \/ Prepare(n) \/ SyncAnswered(n) \/ HostData(n)
          \/ TargetDataAcked(n) \/ Commit(n)
     \/ SwitchRate \/ SyncTimeout \/ TrialTimeout \/ Beacon
  /\ UNCHANGED <<host, lost, orphaned>>

-----------------------------------------------------------------------------
(* The host.                                                               *)

HostPrepare ==
  /\ host.state = "idle" /\ host.nonce < MaxTrials
  /\ \E r \in Rates \ {host.rate}, p \in Passes :
       /\ host' = [host EXCEPT !.state = "prepare", !.nonce = @ + 1, !.old = host.rate,
                               !.trying = r, !.passes = p, !.pass = 0]
       /\ Send([kind |-> "prepare", nonce |-> host.nonce + 1, rate |-> r, passes |-> p])
  /\ UNCHANGED toHost

(* The host is free for another command.                                   *)
Idle(h) == [h EXCEPT !.state = "idle", !.old = h.rate, !.trying = h.rate,
                     !.passes = 1, !.pass = 0]

(* What the host does about the next line; nothing, if it is not the one it
   waits for.                                                              *)
HostHears ==
  /\ toHost # <<>> /\ toHost' = Tail(toHost)
  /\ LET line == Head(toHost)
         mine(k) == line = Nonced(k, host.nonce, 0)
         goes(state) == host' = [host EXCEPT !.state = state]
         now(k) == line = Nonced(k, host.nonce, host.pass)
     IN
     \/ /\ host.state = "prepare" /\ line.kind = "prepared"
        /\ host' = [host EXCEPT !.state = "sync", !.rate = host.trying]
        /\ UNCHANGED toTarget
     \/ host.state = "prepare" /\ line.kind = "unknown" /\ host' = Idle(host) /\ UNCHANGED toTarget
     \/ host.state \in {"sync", "start"} /\ mine("sync")
        /\ goes("start") /\ Send(Nonced("syncack", host.nonce, 0))
     \/ host.state = "start" /\ mine("start")
        /\ goes("data") /\ Send(Nonced("h2t", host.nonce, 0))
     \/ /\ host.state = "data" /\ now("t2h")
        /\ Send(Nonced("t2hack", host.nonce, host.pass))
        /\ host' = [host EXCEPT !.state = IF host.pass + 1 = host.passes THEN "pass" ELSE "next"]
     \/ host.state = "pass" /\ mine("pass")
        /\ host' = [host EXCEPT !.state = "commit", !.agreed = host.nonce]
        /\ Send(Nonced("commit", host.nonce, 0))
     \/ host.state = "commit" /\ mine("committed") /\ host' = Idle(host) /\ UNCHANGED toTarget
     \/ host.state = "discover" /\ line.kind = "ready" /\ host' = Idle(host) /\ UNCHANGED toTarget

HostNextPass ==
  /\ host.state = "next"
  /\ host' = [host EXCEPT !.state = "data", !.pass = @ + 1]
  /\ Send(Nonced("h2t", host.nonce, host.pass + 1))
  /\ UNCHANGED toHost

Useless(line) ==
  LET mine(k) == line = Nonced(k, host.nonce, 0) IN
  CASE host.state = "prepare" -> line.kind \notin {"prepared", "unknown"}
    [] host.state = "sync" -> ~mine("sync")
    [] host.state = "start" -> ~mine("sync") /\ ~mine("start")
    [] host.state = "data" -> line # Nonced("t2h", host.nonce, host.pass)
    [] host.state = "pass" -> ~mine("pass")
    [] host.state = "commit" -> ~mine("committed")
    [] host.state = "discover" -> line.kind # "ready"
    [] OTHER -> TRUE

HostSkips ==
  /\ toHost # <<>> /\ Useless(Head(toHost))
  /\ toHost' = Tail(toHost)
  /\ UNCHANGED <<host, toTarget>>

BaudHost ==
  /\ HostPrepare \/ HostHears \/ HostNextPass \/ HostSkips
  /\ UNCHANGED <<phase, hw, current, trial, lost, orphaned>>

(* The host stops waiting: early, or because an answer was lost.  It goes
   back to the rate it came from and looks for the target there.           *)
HostGivesUp ==
  /\ host.state \in {"prepare", "sync", "start", "data", "pass", "commit"}
  /\ host' = [host EXCEPT !.state = "discover", !.rate = host.old]
  /\ orphaned' = (orphaned \/ host.state = "commit")
  /\ UNCHANGED <<phase, hw, current, trial, toTarget, toHost, lost>>

(* It heard nothing there either and takes the old rate for granted.       *)
HostGoesOn ==
  /\ host.state = "discover" /\ toHost = <<>>
  /\ host' = Idle(host)
  /\ UNCHANGED <<phase, hw, current, trial, toTarget, toHost, lost, orphaned>>

LoseLine ==
  /\ lost < MaxLost /\ lost' = lost + 1
  /\ \/ \E i \in DOMAIN toTarget : toTarget' = RemoveAt(toTarget, i) /\ UNCHANGED toHost
     \/ \E i \in DOMAIN toHost : toHost' = RemoveAt(toHost, i) /\ UNCHANGED toTarget
  /\ UNCHANGED <<phase, hw, current, trial, host, orphaned>>

BaudInit ==
  /\ phase = "command"
  /\ hw = Baseline /\ current = Baseline
  /\ trial = NoTrial
  /\ host = [state |-> "idle", rate |-> Baseline, old |-> Baseline, trying |-> Baseline,
             nonce |-> 0, passes |-> 1, pass |-> 0, agreed |-> 0]
  /\ toTarget = <<>> /\ toHost = <<>>
  /\ lost = 0 /\ orphaned = FALSE

BaudNext == BaudTarget \/ BaudHost \/ HostGivesUp \/ HostGoesOn \/ LoseLine

-----------------------------------------------------------------------------
(* Properties.                                                             *)

(* The target keeps another rate only after the host, too, has seen every
   pass of this very trial succeed and has committed to it.                *)
RateProven ==
  [][current' # current => host.agreed = trial.nonce /\ current' = hw]_baudVars

(* Whenever nothing is under way, the two ends run at the same rate, and the
   command loop at the one it believes in, whatever lines were lost: except
   when the host stopped waiting for BAUD-COMMITTED after its BAUD-COMMIT, the
   one loss this exchange cannot repair.                                   *)
RatesAgree ==
  phase = "command" =>
    /\ hw = current
    /\ host.state = "idle" /\ toTarget = <<>> /\ toHost = <<>> /\ ~orphaned =>
         host.rate = hw
=============================================================================
