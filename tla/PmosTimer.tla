------------------------------- MODULE PmosTimer ------------------------------
(***************************************************************************)
(* struct pmos_timer of the loader and of the payloads: milliseconds       *)
(* counted from reads of the CP0 count, which wraps (2^32 ticks are some   *)
(* 20 seconds at 208 MHz).  The timer is brought forward by each poll, and *)
(* the code that polls may take any time between two of them.              *)
(***************************************************************************)
EXTENDS Integers

CONSTANTS
  Wrap,         \* 2^32: the count goes back to zero after so many ticks
  TicksPerMs,   \* COUNT_HZ / 1000
  LimitMs,      \* the limit the caller asks for
  MaxTicks      \* bound: ticks from reset to the last poll

ASSUME TimerAssumption ==
  /\ Wrap \in Nat \ {0} /\ TicksPerMs \in Nat \ {0}
  /\ LimitMs \in Nat /\ MaxTicks \in Nat

VARIABLES
  ticks,      \* time: ticks since reset, of which the count shows ticks % Wrap
  timer,      \* last_count, elapsed_ms and remainder_ticks
  expired,    \* what the last poll returned
  started,    \* history: the time of timer_start
  missed      \* history: whole turns of the count between two polls

timerVars == <<ticks, timer, expired, started, missed>>

Count(t) == t % Wrap

(* The difference of two counts, as unsigned arithmetic leaves it.         *)
Delta(now) == (now - timer.last_count) % Wrap

(* timer_start.                                                            *)
TimerStart(t) ==
  /\ timer = [last_count |-> Count(t), elapsed_ms |-> 0, remainder_ticks |-> 0]
  /\ expired = FALSE
  /\ started = t /\ missed = 0

(* Mutant of Advanced: less than a millisecond between polls is lost.      *)
AdvancedWhole(now) ==
  [last_count |-> now, remainder_ticks |-> 0,
   elapsed_ms |-> timer.elapsed_ms + Delta(now) \div TicksPerMs]

(* Mutant of Advanced: the difference does not wrap with the count.        *)
AdvancedUnwrapped(now) ==
  LET delta == IF now >= timer.last_count THEN now - timer.last_count ELSE now
      carry == timer.remainder_ticks + (delta % TicksPerMs)
  IN [last_count |-> now, remainder_ticks |-> carry % TicksPerMs,
      elapsed_ms |-> timer.elapsed_ms + (delta \div TicksPerMs) + (carry \div TicksPerMs)]

(* The timer brought forward: parts of a millisecond are carried over.     *)
Advanced(now) ==
  LET ms == timer.elapsed_ms + Delta(now) \div TicksPerMs
      rest == timer.remainder_ticks + (Delta(now) % TicksPerMs)
  IN [last_count |-> now,
      elapsed_ms |-> IF rest >= TicksPerMs THEN ms + 1 ELSE ms,
      remainder_ticks |-> IF rest >= TicksPerMs THEN rest - TicksPerMs ELSE rest]

(* timer_expired, any number of ticks after the last poll.                 *)
Poll(gap) ==
  /\ ~expired
  /\ ticks' = ticks + gap
  /\ timer' = Advanced(Count(ticks'))
  /\ expired' = (timer'.elapsed_ms >= LimitMs)
  /\ missed' = missed + gap \div Wrap
  /\ UNCHANGED started

TimerInit == ticks \in 0..(Wrap - 1) /\ TimerStart(ticks)

TimerNext == \E gap \in 0..(MaxTicks - ticks) : Poll(gap)

TimerSpec == TimerInit /\ [][TimerNext]_timerVars

-----------------------------------------------------------------------------
(* The timer never fires early, whatever the count was at its start and
   however it is polled; and it is late by no more than the turns of the
   count it slept through: polled once per turn it is exact.               *)
TimerExact ==
  LET time == ticks - started - Wrap * missed
  IN /\ time = timer.elapsed_ms * TicksPerMs + timer.remainder_ticks
     /\ timer.remainder_ticks < TicksPerMs
     /\ expired => ticks - started >= LimitMs * TicksPerMs
=============================================================================
