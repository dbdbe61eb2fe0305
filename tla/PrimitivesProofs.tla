--------------------------- MODULE PrimitivesProofs ---------------------------
(* The timer of PmosTimer is exact up to the turns of the count it slept
   through, for every width of the count and every clock; and the readers of
   ManifestText read every document as ManifestReference means it.  (The
   third of the primitives, the decoder, has Lz4BlockProofs.)

   The manifest.  The text of every tree is tidy: a scan for strings, braces
   and brackets that begins in front of it is where it was behind it, and in
   between never less deep (WrittenTidy, by induction on length).  So a quote
   outside of strings at the depth of an object's members begins the key of
   one of them (OnlyKeys), json_find_value goes to the value of the first with
   the key (FindValueIs), and from its text each reader gets what it means
   (StringRead, U32Read, TrueRead, ListRead, ObjectRead).                  *)
EXTENDS PmosTimer, ManifestReference, SequenceTheorems, FiniteSetTheorems, TLAPS

-----------------------------------------------------------------------------
(* The timer.                                                              *)

(* What TimerExact needs to be inductive.                                  *)
TimerIInv ==
  /\ ticks \in Nat /\ started \in Nat /\ missed \in Nat
  /\ timer \in [last_count : Nat, elapsed_ms : Nat, remainder_ticks : Nat]
  /\ timer.last_count = Count(ticks)
  /\ ticks - started - Wrap * missed
       = timer.elapsed_ms * TicksPerMs + timer.remainder_ticks
  /\ timer.remainder_ticks < TicksPerMs
  /\ expired => timer.elapsed_ms >= LimitMs

(* Division with remainder, and that the remainder is unique.              *)
LEMMA Divide ==
  ASSUME NEW a \in Nat, NEW b \in Nat \ {0}
  PROVE  /\ a \div b \in Nat /\ a % b \in 0..(b - 1)
         /\ a = (a \div b) * b + (a % b)
  OBVIOUS

LEMMA RemainderUnique ==
  ASSUME NEW b \in Nat \ {0}, NEW q \in Int, NEW r \in 0..(b - 1),
         NEW s \in 0..(b - 1), s = q * b + r
  PROVE  r = s /\ q = 0
  <1>1. CASE q >= 1
    <2>1. q * b >= b
      BY <1>1
    <2> QED
      BY <2>1
  <1>2. CASE q <= -1
    <2>1. q * b <= -b
      BY <1>2
    <2> QED
      BY <2>1
  <1> QED
    BY <1>1, <1>2

LEMMA Modulo ==
  ASSUME NEW a \in Int, NEW b \in Nat \ {0}
  PROVE  a % b \in 0..(b - 1) /\ \E q \in Int : a = q * b + (a % b)
  <1>1. a % b \in 0..(b - 1) /\ a = (a \div b) * b + (a % b) /\ a \div b \in Int
    OBVIOUS
  <1> QED
    BY <1>1

(* The difference of two counts is the time between them, but for whole
   turns.                                                                  *)
LEMMA DeltaOfCounts ==
  ASSUME NEW t \in Nat, NEW gap \in Nat
  PROVE  (Count(t + gap) - Count(t)) % Wrap = gap % Wrap
  <1> DEFINE c == t % Wrap
             n == (t + gap) % Wrap
             d == (n - c) % Wrap
             g == gap % Wrap
  <1>0. Wrap \in Nat \ {0} /\ t \in Int /\ gap \in Int /\ t + gap \in Int
    BY TimerAssumption
  <1>1. PICK i \in Int : t = i * Wrap + c
    BY <1>0, Modulo, Zenon
  <1>2. PICK j \in Int : t + gap = j * Wrap + n
    BY <1>0, Modulo, Zenon
  <1>3. c \in 0..(Wrap - 1) /\ n \in 0..(Wrap - 1)
    BY <1>0, Modulo, Zenon
  <1>4. n - c \in Int
    BY <1>0, <1>3
  <1>5. PICK k \in Int : n - c = k * Wrap + d
    BY <1>0, <1>4, Modulo, Zenon
  <1>6. PICK h \in Int : gap = h * Wrap + g
    BY <1>0, Modulo, Zenon
  <1>7. d \in 0..(Wrap - 1) /\ g \in 0..(Wrap - 1)
    BY <1>0, <1>4, Modulo, Zenon
  <1> HIDE DEF c, n, d, g
  <1>8. d = (h + i - j - k) * Wrap + g
    <2>1. gap = (j * Wrap + n) - (i * Wrap + c)
      BY <1>1, <1>2, <1>3, <1>0
    <2>2. h * Wrap + g = j * Wrap - i * Wrap + k * Wrap + d
      BY <2>1, <1>5, <1>6, <1>3, <1>7, <1>0
    <2>3. (h + i - j - k) * Wrap = h * Wrap + i * Wrap - j * Wrap - k * Wrap
      BY <1>0
    <2> QED
      BY <2>2, <2>3, <1>0, <1>7
  <1>9. h + i - j - k \in Int
    OBVIOUS
  <1>10. d = g
    BY <1>0, <1>7, <1>8, <1>9, RemainderUnique
  <1> QED
    BY <1>10 DEF d, g, n, c, Count

LEMMA InitTimerIInv == TimerInit => TimerIInv
  <1> SUFFICES ASSUME TimerInit PROVE TimerIInv
    OBVIOUS
  <1>1. ticks \in Nat /\ Wrap \in Nat \ {0} /\ TicksPerMs \in Nat \ {0}
    BY TimerAssumption DEF TimerInit
  <1>2. Count(ticks) \in Nat
    BY <1>1 DEF Count
  <1>3. TimerStart(ticks)
    BY DEF TimerInit
  <1>4. Wrap * missed = 0 /\ timer.elapsed_ms * TicksPerMs = 0
    BY <1>1, <1>3 DEF TimerStart
  <1>5. ~expired
    BY <1>3, Zenon DEF TimerStart
  <1> QED
    BY <1>1, <1>2, <1>3, <1>4, <1>5 DEF TimerIInv, TimerStart

LEMMA PollTimerIInv ==
  ASSUME TimerIInv, NEW gap \in Nat, Poll(gap)
  PROVE  TimerIInv'
  <1> DEFINE delta == gap % Wrap
             turns == gap \div Wrap
             ms == delta \div TicksPerMs
             part == delta % TicksPerMs
             rest == timer.remainder_ticks + part
  <1>0. /\ Wrap \in Nat \ {0} /\ TicksPerMs \in Nat \ {0} /\ LimitMs \in Nat
        /\ ticks \in Nat /\ started \in Nat /\ missed \in Nat
        /\ timer.elapsed_ms \in Nat /\ timer.remainder_ticks \in Nat
        /\ timer.remainder_ticks < TicksPerMs
    BY TimerAssumption DEF TimerIInv
  <1>1. ticks' = ticks + gap /\ ticks' \in Nat /\ missed' = missed + turns
        /\ started' = started /\ expired' = (timer'.elapsed_ms >= LimitMs)
        /\ timer' = Advanced(Count(ticks'))
    BY <1>0 DEF Poll
  <1>2. Delta(Count(ticks')) = delta
    <2>1. timer.last_count = Count(ticks)
      BY DEF TimerIInv
    <2>2. (Count(ticks + gap) - Count(ticks)) % Wrap = delta
      BY <1>0, DeltaOfCounts, Zenon
    <2>3. Count(ticks') = Count(ticks + gap)
      BY <1>1, Zenon
    <2> QED
      BY <2>1, <2>2, <2>3, Zenon DEF Delta
  <1>3. delta \in Nat /\ turns \in Nat /\ gap = turns * Wrap + delta
    <2>1. delta \in 0..(Wrap - 1) /\ turns \in Nat /\ gap = turns * Wrap + delta
      BY <1>0, Divide, Zenon
    <2> QED
      BY <1>0, <2>1
  <1>4. ms \in Nat /\ part \in 0..(TicksPerMs - 1) /\ delta = ms * TicksPerMs + part
    BY <1>0, <1>3, Divide
  <1>5. timer' = [last_count |-> Count(ticks'),
          elapsed_ms |-> IF rest >= TicksPerMs THEN timer.elapsed_ms + ms + 1
                                               ELSE timer.elapsed_ms + ms,
          remainder_ticks |-> IF rest >= TicksPerMs THEN rest - TicksPerMs ELSE rest]
    BY <1>1, <1>2 DEF Advanced
  <1>6. Count(ticks') \in Nat
    BY <1>0, <1>1 DEF Count
  <1> HIDE DEF delta, turns, ms, part
  <1>7. ticks' - started - Wrap * missed'
          = timer.elapsed_ms * TicksPerMs + timer.remainder_ticks + delta
    <2>1. Wrap * missed' = Wrap * missed + turns * Wrap
      BY <1>0, <1>1, <1>3
    <2>2. ticks - started - Wrap * missed
            = timer.elapsed_ms * TicksPerMs + timer.remainder_ticks
      BY DEF TimerIInv
    <2>3. Wrap * missed \in Nat /\ turns * Wrap \in Nat /\ timer.elapsed_ms * TicksPerMs \in Nat
      BY <1>0, <1>3
    <2> QED
      BY <1>0, <1>1, <1>3, <2>1, <2>2, <2>3
  <1>8. timer.elapsed_ms * TicksPerMs + delta
          = (timer.elapsed_ms + ms) * TicksPerMs + part
    BY <1>0, <1>4
  <1>9. timer'.elapsed_ms * TicksPerMs + timer'.remainder_ticks
          = timer.elapsed_ms * TicksPerMs + timer.remainder_ticks + delta
    <2>1. CASE rest >= TicksPerMs
      <3>1. (timer.elapsed_ms + ms + 1) * TicksPerMs
              = (timer.elapsed_ms + ms) * TicksPerMs + TicksPerMs
        BY <1>0, <1>4
      <3>2. (timer.elapsed_ms + ms) * TicksPerMs \in Nat /\ timer.elapsed_ms * TicksPerMs \in Nat
        BY <1>0, <1>4
      <3> QED
        BY <2>1, <3>1, <3>2, <1>0, <1>3, <1>4, <1>5, <1>8
    <2>2. CASE ~(rest >= TicksPerMs)
      <3>1. (timer.elapsed_ms + ms) * TicksPerMs \in Nat /\ timer.elapsed_ms * TicksPerMs \in Nat
        BY <1>0, <1>4
      <3> QED
        BY <2>2, <3>1, <1>0, <1>3, <1>4, <1>5, <1>8
    <2> QED
      BY <2>1, <2>2
  <1>10. timer'.remainder_ticks \in Nat /\ timer'.remainder_ticks < TicksPerMs
         /\ timer'.elapsed_ms \in Nat /\ timer'.last_count = Count(ticks')
    BY <1>0, <1>4, <1>5
  <1>11. timer' \in [last_count : Nat, elapsed_ms : Nat, remainder_ticks : Nat]
    BY <1>5, <1>6, <1>10
  <1>12. Count(ticks') = Count(ticks)' /\ started' \in Nat /\ missed' \in Nat
    BY <1>0, <1>1, <1>3 DEF Count
  <1>13. expired' => timer'.elapsed_ms >= LimitMs
    BY <1>1, Zenon
  <1> QED
    BY <1>1, <1>7, <1>9, <1>10, <1>11, <1>12, <1>13 DEF TimerIInv

LEMMA ExactFromTimerIInv == TimerIInv => TimerExact
  <1> SUFFICES ASSUME TimerIInv PROVE TimerExact
    OBVIOUS
  <1>0. /\ Wrap \in Nat \ {0} /\ TicksPerMs \in Nat \ {0} /\ LimitMs \in Nat
        /\ ticks \in Nat /\ started \in Nat /\ missed \in Nat
        /\ timer.elapsed_ms \in Nat /\ timer.remainder_ticks \in Nat
    BY TimerAssumption DEF TimerIInv
  <1>1. ASSUME expired PROVE ticks - started >= LimitMs * TicksPerMs
    <2>1. timer.elapsed_ms >= LimitMs
      BY <1>1 DEF TimerIInv
    <2>2. timer.elapsed_ms * TicksPerMs >= LimitMs * TicksPerMs
      BY <1>0, <2>1
    <2>3. Wrap * missed >= 0 /\ Wrap * missed \in Nat
          /\ timer.elapsed_ms * TicksPerMs \in Nat /\ LimitMs * TicksPerMs \in Nat
      BY <1>0
    <2> QED
      BY <1>0, <2>2, <2>3 DEF TimerIInv
  <1> QED
    BY <1>1 DEF TimerIInv, TimerExact

(* For every width of the count, every clock and every way to poll: the
   timer never fires early, and is late by whole turns slept through only. *)
THEOREM TimerIsExact == TimerSpec => []TimerExact
  <1>1. TimerIInv /\ [TimerNext]_timerVars => TimerIInv'
    <2> SUFFICES ASSUME TimerIInv, [TimerNext]_timerVars PROVE TimerIInv'
      OBVIOUS
    <2>1. CASE TimerNext
      <3>1. PICK gap \in 0..(MaxTicks - ticks) : Poll(gap)
        BY <2>1 DEF TimerNext
      <3>2. gap \in Nat
        BY TimerAssumption DEF TimerIInv
      <3> QED
        BY <3>1, <3>2, PollTimerIInv
    <2>2. CASE UNCHANGED timerVars
      BY <2>2 DEF timerVars, TimerIInv, Count
    <2> QED
      BY <2>1, <2>2
  <1> QED
    BY InitTimerIInv, <1>1, ExactFromTimerIInv, PTL DEF TimerSpec

-----------------------------------------------------------------------------
(* The manifest: first induction, from the cardinality of finite sets.     *)

(* A set of numbers with 0 and every successor has them all: else what it has
   up to some n, moved up by one, would fit in what it has there but for 0.  *)
LEMMA Induct ==
  ASSUME NEW P \in SUBSET Nat, 0 \in P, \A k \in P : k + 1 \in P
  PROVE  P = Nat
  <1> SUFFICES ASSUME NEW n \in Nat, n \notin P PROVE FALSE
    OBVIOUS
  <1> DEFINE S == P \cap 0..n
             T == S \ {0}
             f == [k \in S |-> k + 1]
  <1>1. IsFiniteSet(0..n)
    BY FS_Interval
  <1>2. IsFiniteSet(S) /\ Cardinality(S) \in Nat
    BY <1>1, FS_Subset, FS_CardinalityType
  <1>3. IsFiniteSet(T) /\ Cardinality(T) = Cardinality(S) - 1
    <2>1. 0 \in S
      OBVIOUS
    <2> HIDE DEF S
    <2> QED
      BY <1>2, <2>1, FS_RemoveElement
  <1>4. f \in [S -> T]
    <2> SUFFICES ASSUME NEW k \in S PROVE k + 1 \in T
      OBVIOUS
    <2>1. k \in P /\ k \in 0..n /\ k # n
      OBVIOUS
    <2>2. k + 1 \in P /\ k + 1 \in 0..n /\ k + 1 # 0
      BY <2>1
    <2> QED
      BY <2>2
  <1>5. \A a, b \in S : f[a] = f[b] => a = b
    OBVIOUS
  <1>6. f \in Injection(S, T)
    <2> HIDE DEF S, T, f
    <2> QED
      BY <1>4, <1>5 DEF Injection, IsInjective
  <1> HIDE DEF S, T, f
  <1>7. Cardinality(S) <= Cardinality(T)
    BY <1>3, <1>6, FS_Injection
  <1> QED
    BY <1>2, <1>3, <1>7

(* A function defined by recursion exists.                                 *)
Steps(n, S) == [(1..n) \X S -> S]
Recursed(n, S, base, step) ==
  \E f \in [0..n -> S] :
    f[0] = base /\ \A k \in 1..n : f[k] = step[<<k, f[k - 1]>>]

(* A function on 0..n with these values exists, by induction on n.         *)
LEMMA Recursion ==
  ASSUME NEW n \in Nat, NEW S, NEW base \in S, NEW step \in Steps(n, S)
  PROVE  Recursed(n, S, base, step)
  <1> USE DEF Steps, Recursed
  <1> DEFINE Good(f, m) == f[0] = base /\ \A k \in 1..m : f[k] = step[<<k, f[k - 1]>>]
             P == {m \in Nat : m <= n => \E f \in [0..m -> S] : Good(f, m)}
  <1>1. 0 \in P
    <2> DEFINE f == [k \in 0..0 |-> base]
    <2>1. f \in [0..0 -> S] /\ Good(f, 0)
      OBVIOUS
    <2> QED
      BY <2>1
  <1>2. \A m \in P : m + 1 \in P
    <2> SUFFICES ASSUME NEW m \in Nat, m + 1 <= n, NEW f \in [0..m -> S], Good(f, m)
                 PROVE  \E g \in [0..(m + 1) -> S] : Good(g, m + 1)
      OBVIOUS
    <2> DEFINE g == [k \in 0..(m + 1) |-> IF k = m + 1 THEN step[<<m + 1, f[m]>>] ELSE f[k]]
    <2>1. step[<<m + 1, f[m]>>] \in S
      <3>1. <<m + 1, f[m]>> \in (1..n) \X S
        OBVIOUS
      <3> QED
        BY <3>1
    <2>2. g \in [0..(m + 1) -> S]
      BY <2>1
    <2>3. g[m + 1] = step[<<m + 1, f[m]>>] /\ \A k \in 0..m : g[k] = f[k]
      OBVIOUS
    <2> HIDE DEF g
    <2>4. ASSUME NEW k \in 1..(m + 1) PROVE g[k] = step[<<k, g[k - 1]>>]
      <3>1. CASE k = m + 1
        <4>1. g[k - 1] = f[m]
          BY <2>3, <3>1
        <4> QED
          BY <2>3, <3>1, <4>1
      <3>2. CASE k # m + 1
        <4>1. k \in 1..m /\ k - 1 \in 0..m /\ k \in 0..m
          BY <3>2
        <4> QED
          BY <2>3, <4>1
      <3> QED
        BY <3>1, <3>2
    <2> QED
      BY <2>2, <2>3, <2>4
  <1>3. n \in P
    <2> HIDE DEF Good
    <2>1. P \in SUBSET Nat
      OBVIOUS
    <2> HIDE DEF P
    <2> QED
      BY <1>1, <1>2, <2>1, Induct
  <1> QED
    BY <1>3

(* A function keeps its type along a recursion.                            *)
LEMMA StaysIn ==
  ASSUME NEW n \in Nat, NEW S, NEW f, f = [k \in 0..n |-> f[k]],
         f[0] \in S, \A k \in 1..n : f[k - 1] \in S => f[k] \in S
  PROVE  f \in [0..n -> S]
  <1> DEFINE P == {m \in Nat : m <= n => f[m] \in S}
  <1>1. \A m \in P : m + 1 \in P
    <2>1. ASSUME NEW m \in P PROVE m + 1 <= n => f[m + 1] \in S
      <3> SUFFICES ASSUME m + 1 <= n PROVE f[m + 1] \in S
        OBVIOUS
      <3>1. m \in Nat /\ m <= n
        OBVIOUS
      <3>2. f[m] \in S /\ m + 1 \in 1..n /\ (m + 1) - 1 = m
        BY <3>1
      <3> QED
        BY <3>2
    <2>2. \A m \in P : m + 1 \in Nat
      OBVIOUS
    <2> QED
      BY <2>1, <2>2
  <1>2. 0 \in P /\ P \in SUBSET Nat
    OBVIOUS
  <1>3. P = Nat
    <2> HIDE DEF P
    <2> QED
      BY <1>1, <1>2, Induct
  <1>4. \A k \in 0..n : f[k] \in S
    BY <1>3
  <1> QED
    BY <1>4

-----------------------------------------------------------------------------
(* The recursive definitions of the model.                                 *)

(* What is written grows by one part after the other.                      *)
LEMMA FrontsDef ==
  ASSUME NEW parts \in Seq(Texts)
  PROVE  /\ Fronts(parts) \in [0..Len(parts) -> Texts]
         /\ Fronts(parts)[0] = <<>>
         /\ \A k \in 1..Len(parts) : Fronts(parts)[k] = Fronts(parts)[k - 1] \o parts[k]
         /\ Joined(parts) \in Texts
  <1> DEFINE n == Len(parts)
             step == [q \in (1..n) \X Texts |-> q[2] \o parts[q[1]]]
  <1>1. n \in Nat
    OBVIOUS
  <1>2. \A k \in 1..n : parts[k] \in Texts
    OBVIOUS
  <1>3. step \in [(1..n) \X Texts -> Texts]
    <2> SUFFICES ASSUME NEW q \in (1..n) \X Texts PROVE q[2] \o parts[q[1]] \in Texts
      OBVIOUS
    <2>1. q[2] \in Texts /\ parts[q[1]] \in Texts
      BY <1>2
    <2> QED
      BY <2>1, ConcatProperties DEF Texts
  <1>4. <<>> \in Texts
    BY DEF Texts
  <1>5. PICK f \in [0..n -> Texts] :
          f[0] = <<>> /\ \A k \in 1..n : f[k] = step[<<k, f[k - 1]>>]
    <2> HIDE DEF n, step
    <2>1. step \in Steps(n, Texts)
      BY <1>3 DEF Steps
    <2>2. Recursed(n, Texts, <<>>, step)
      BY <1>1, <1>4, <2>1, Recursion
    <2> QED
      BY <2>2 DEF Recursed
  <1>6. \A k \in 1..n : f[k] = f[k - 1] \o parts[k]
    <2> SUFFICES ASSUME NEW k \in 1..n PROVE f[k] = f[k - 1] \o parts[k]
      OBVIOUS
    <2>1. f[k - 1] \in Texts
      BY <1>1, <1>5
    <2>2. <<k, f[k - 1]>> \in (1..n) \X Texts
      BY <2>1
    <2>3. step[<<k, f[k - 1]>>] = f[k - 1] \o parts[k]
      BY <2>2
    <2> QED
      BY <1>5, <2>3
  <1> DEFINE Right(g) == g = [k \in 0..n |-> IF k = 0 THEN <<>> ELSE g[k - 1] \o parts[k]]
             E == CHOOSE g : Right(g)
  <1>7. Right(f)
    <2>1. f = [k \in 0..n |-> f[k]]
      BY <1>5
    <2>2. \A k \in 0..n : f[k] = IF k = 0 THEN <<>> ELSE f[k - 1] \o parts[k]
      <3> SUFFICES ASSUME NEW k \in 0..n
                   PROVE  f[k] = IF k = 0 THEN <<>> ELSE f[k - 1] \o parts[k]
        OBVIOUS
      <3>1. k = 0 \/ k \in 1..n
        BY <1>1
      <3> QED
        BY <1>5, <1>6, <3>1
    <2> QED
      BY <2>1, <2>2
  <1>8. Fronts(parts) = E
    BY DEF Fronts
  <1>9. Right(E)
    <2> HIDE DEF Right
    <2> QED
      BY <1>7
  <1>10. E = [k \in 0..n |-> E[k]] /\ E[0] = <<>>
         /\ \A k \in 1..n : E[k] = E[k - 1] \o parts[k]
    <2> HIDE DEF E
    <2>1. E = [k \in 0..n |-> IF k = 0 THEN <<>> ELSE E[k - 1] \o parts[k]]
      BY <1>9
    <2>2. 0 \in 0..n /\ \A k \in 1..n : k \in 0..n /\ k # 0
      BY <1>1
    <2> HIDE DEF n
    <2>3. E = [k \in 0..n |-> E[k]]
      BY <2>1
    <2> QED
      BY <2>1, <2>2, <2>3
  <1>11. E \in [0..n -> Texts]
    <2> HIDE DEF E, n
    <2>1. \A k \in 1..n : E[k - 1] \in Texts => E[k] \in Texts
      BY <1>2, <1>10, ConcatProperties DEF Texts
    <2> QED
      BY <1>1, <1>4, <1>10, <2>1, StaysIn
  <1>12. Joined(parts) \in Texts
    BY <1>1, <1>8, <1>11 DEF Joined
  <1> QED
    BY <1>8, <1>10, <1>11, <1>12

(* The states of a scan: where it begins, and on past each byte.           *)
Scan == [string : BOOLEAN, escaped : BOOLEAN, object : Nat, list : Nat]

(* Past goes from states of a scan to states of a scan.                    *)
LEMMA PastType ==
  ASSUME NEW at \in Scan, NEW c
  PROVE  Past(at, c) \in Scan
  <1> DEFINE c1 == c = "\\"
             c2 == c # Quote
  <1>1. Less(at.object) \in Nat /\ Less(at.list) \in Nat
    BY DEF Scan, Less
  <1>2. /\ [at EXCEPT !.escaped = FALSE] \in Scan
        /\ [at EXCEPT !.escaped = c1, !.string = c2] \in Scan
    <2>1. c1 \in BOOLEAN /\ c2 \in BOOLEAN
      OBVIOUS
    <2> HIDE DEF c1, c2
    <2> QED
      BY <2>1 DEF Scan
  <1>3. /\ [at EXCEPT !.string = TRUE] \in Scan
        /\ [at EXCEPT !.object = @ + 1] \in Scan
        /\ [at EXCEPT !.list = @ + 1] \in Scan
    <2>1. at.object + 1 \in Nat /\ at.list + 1 \in Nat
      BY DEF Scan
    <2>2. [at EXCEPT !.string = TRUE] \in Scan
      BY DEF Scan
    <2>3. [at EXCEPT !.object = @ + 1] \in Scan
      BY <2>1 DEF Scan
    <2>4. [at EXCEPT !.list = @ + 1] \in Scan
      BY <2>1 DEF Scan
    <2> QED
      BY <2>2, <2>3, <2>4
  <1>4. [at EXCEPT !.object = Less(@)] \in Scan /\ [at EXCEPT !.list = Less(@)] \in Scan
    BY <1>1 DEF Scan
  <1> QED
    BY <1>2, <1>3, <1>4, Zenon DEF Past

IsReading(r, at, data) ==
  /\ r \in Seq(Scan) /\ Len(r) = Len(data) + 1 /\ r[1] = at
  /\ \A n \in 1..Len(data) : r[n + 1] = Past(r[n], data[n])

(* Reading is the sequence its recursive definition says.                  *)
LEMMA ReadingDef ==
  ASSUME NEW at \in Scan, NEW data \in Texts
  PROVE  IsReading(Reading(at, data), at, data)
  <1> DEFINE n == Len(data)
             S == Seq(Scan)
             After(k, s) == Append(s, Past(s[k], data[k]))
             step == [q \in (1..n) \X S |-> IF q[1] \in 1..Len(q[2]) THEN After(q[1], q[2]) ELSE q[2]]
  <1>1. n \in Nat
    BY DEF Texts
  <1>2. ASSUME NEW k \in Nat, NEW s \in S, k \in 1..Len(s)
        PROVE  /\ After(k, s) \in S /\ Len(After(k, s)) = Len(s) + 1
               /\ After(k, s)[Len(s) + 1] = Past(s[k], data[k])
               /\ \A i \in 1..Len(s) : After(k, s)[i] = s[i]
    <2>1. s[k] \in Scan
      BY <1>2
    <2>2. Past(s[k], data[k]) \in Scan
      BY <2>1, PastType
    <2> QED
      BY <2>2, AppendProperties
  <1> HIDE DEF After
  <1>3. step \in [(1..n) \X S -> S]
    BY <1>2
  <1>4. <<at>> \in S
    OBVIOUS
  <1>5. PICK f \in [0..n -> S] :
          f[0] = <<at>> /\ \A k \in 1..n : f[k] = step[<<k, f[k - 1]>>]
    <2> HIDE DEF n, step, S
    <2>1. step \in Steps(n, S)
      BY <1>3 DEF Steps
    <2>2. Recursed(n, S, <<at>>, step)
      BY <1>1, <1>4, <2>1, Recursion
    <2> QED
      BY <2>2 DEF Recursed
  <1> DEFINE Grown(k) == Len(f[k]) = k + 1 /\ (k > 0 => f[k] = After(k, f[k - 1]))
             P == {k \in Nat : k <= n => Grown(k)}
  <1>6. 0 \in P
    <2>1. Len(<<at>>) = 1 /\ f[0] = <<at>>
      BY <1>5
    <2>2. Grown(0)
      BY <2>1
    <2> QED
      BY <2>2
  <1>7. \A k \in P : k + 1 \in P
    <2> SUFFICES ASSUME NEW k \in Nat, Grown(k), k + 1 <= n PROVE Grown(k + 1)
      BY <1>1
    <2>1. f[k] \in S /\ k + 1 \in 1..n /\ (k + 1) - 1 = k /\ k + 1 \in 1..Len(f[k])
      BY <1>1, <1>5
    <2>2. f[k + 1] = step[<<k + 1, f[k]>>]
      BY <1>5, <2>1
    <2>3. f[k + 1] = After(k + 1, f[k])
      BY <2>1, <2>2
    <2>4. Len(After(k + 1, f[k])) = Len(f[k]) + 1
      BY <1>2, <2>1
    <2> QED
      BY <2>1, <2>3, <2>4
  <1>8. \A k \in 0..n : Grown(k)
    <2>1. P \in SUBSET Nat
      OBVIOUS
    <2>2. P = Nat
      <3> HIDE DEF P
      <3> QED
        BY <1>6, <1>7, <2>1, Induct
    <2> HIDE DEF Grown
    <2>3. \A k \in Nat : k <= n => Grown(k)
      BY <2>2
    <2> QED
      BY <1>1, <2>3
  <1> DEFINE Right(g) == g = [k \in 0..n |-> IF k = 0 THEN <<at>>
                                             ELSE LET before == g[k - 1]
                                                  IN Append(before, Past(before[k], data[k]))]
             E == CHOOSE g : Right(g)
  <1>9. Right(f)
    <2>1. f = [k \in 0..n |-> f[k]]
      BY <1>5
    <2>2. \A k \in 0..n : f[k] = IF k = 0 THEN <<at>>
                                 ELSE LET before == f[k - 1]
                                      IN Append(before, Past(before[k], data[k]))
      <3> SUFFICES ASSUME NEW k \in 0..n
                   PROVE  f[k] = IF k = 0 THEN <<at>> ELSE After(k, f[k - 1])
        BY DEF After
      <3>1. Grown(k) /\ k \in Nat
        BY <1>1, <1>8
      <3> QED
        BY <1>5, <3>1
    <2> QED
      BY <2>1, <2>2
  <1>10. Reading(at, data) = E[n]
    BY DEF Reading
  <1>11. Right(E)
    <2> HIDE DEF Right
    <2> QED
      BY <1>9
  <1>12. E[0] = <<at>> /\ \A k \in 1..n : E[k] = After(k, E[k - 1])
    <2> HIDE DEF E
    <2>1. E = [k \in 0..n |-> IF k = 0 THEN <<at>> ELSE After(k, E[k - 1])]
      BY <1>11 DEF After
    <2>2. 0 \in 0..n /\ \A k \in 1..n : k \in 0..n /\ k # 0
      BY <1>1
    <2> HIDE DEF n
    <2> QED
      BY <2>1, <2>2
  <1> DEFINE Good(k) == /\ E[k] \in S /\ Len(E[k]) = k + 1 /\ E[k][1] = at
                        /\ \A i \in 1..k : E[k][i + 1] = Past(E[k][i], data[i])
             Q == {k \in Nat : k <= n => Good(k)}
  <1> HIDE DEF E
  <1>13. 0 \in Q
    <2>1. Len(<<at>>) = 1 /\ <<at>>[1] = at
      OBVIOUS
    <2>2. Good(0)
      BY <1>4, <1>12, <2>1
    <2> QED
      BY <2>2
  <1>14. \A k \in Q : k + 1 \in Q
    <2> SUFFICES ASSUME NEW k \in Nat, Good(k), k + 1 <= n PROVE Good(k + 1)
      <3>1. n \in Nat
        BY <1>1
      <3> HIDE DEF n, Good
      <3> QED
        BY <3>1
    <2>1. k + 1 \in 1..n /\ (k + 1) - 1 = k /\ k + 1 \in 1..Len(E[k])
      BY <1>1
    <2>2. E[k + 1] = After(k + 1, E[k])
      BY <1>12, <2>1
    <2> DEFINE before == E[k]
    <2>a. before \in S /\ k + 1 \in Nat /\ k + 1 \in 1..Len(before) /\ Len(before) = k + 1
      BY <2>1
    <2>b. E[k + 1] = After(k + 1, before)
      BY <2>2
    <2>c. /\ E[k + 1] \in S /\ Len(E[k + 1]) = Len(before) + 1
          /\ E[k + 1][Len(before) + 1] = Past(before[k + 1], data[k + 1])
          /\ \A i \in 1..Len(before) : E[k + 1][i] = before[i]
      <3> HIDE DEF before, S, Q
      <3>1. /\ After(k + 1, before) \in S /\ Len(After(k + 1, before)) = Len(before) + 1
            /\ After(k + 1, before)[Len(before) + 1] = Past(before[k + 1], data[k + 1])
            /\ \A i \in 1..Len(before) : After(k + 1, before)[i] = before[i]
        BY <1>2, <2>a
      <3> QED
        BY <2>b, <3>1
    <2>3. /\ E[k + 1] \in S /\ Len(E[k + 1]) = Len(E[k]) + 1
          /\ E[k + 1][Len(E[k]) + 1] = Past(E[k][k + 1], data[k + 1])
          /\ \A i \in 1..Len(E[k]) : E[k + 1][i] = E[k][i]
      BY <2>c
    <2>4. E[k + 1][1] = at
      <3>1. 1 \in 1..Len(E[k])
        BY <2>a
      <3> QED
        BY <2>3, <3>1
    <2>5. ASSUME NEW i \in 1..(k + 1) PROVE E[k + 1][i + 1] = Past(E[k + 1][i], data[i])
      <3>1. CASE i = k + 1
        BY <2>3, <3>1
      <3>2. CASE i # k + 1
        <4>1. i \in 1..k /\ i \in 1..Len(E[k]) /\ i + 1 \in 1..Len(E[k])
          BY <3>2
        <4> QED
          BY <2>3, <4>1
      <3> QED
        BY <3>1, <3>2
    <2> QED
      BY <2>3, <2>4, <2>5
  <1>15. Good(n)
    <2>1. Q \in SUBSET Nat
      OBVIOUS
    <2>2. Q = Nat
      <3> HIDE DEF Q
      <3> QED
        BY <1>13, <1>14, <2>1, Induct
    <2> QED
      BY <1>1, <2>2
  <1> QED
    BY <1>10, <1>15 DEF IsReading

(* The least of a set of positions.                                        *)
LEMMA MinIs ==
  ASSUME NEW S \in SUBSET Int, NEW m \in S, \A q \in S : m <= q
  PROVE  Min(S) = m /\ First(S) = m
  <1>1. \A x \in S : (\A q \in S : x <= q) => x = m
    OBVIOUS
  <1>2. Min(S) = m
    BY <1>1 DEF Min
  <1> QED
    BY <1>2 DEF First

-----------------------------------------------------------------------------
(* A text that stands in another one, after so many of its bytes.          *)
Stands(data, o, s) ==
  o \in Nat /\ o + Len(s) <= Len(data) /\ \A i \in 1..Len(s) : data[o + i] = s[i]

(* One text after another stands where the one stands and the other stands
   after it.                                                               *)
LEMMA StandsConcat ==
  ASSUME NEW data \in Texts, NEW x \in Texts, NEW y \in Texts, NEW o \in Nat
  PROVE  Stands(data, o, x \o y) <=> Stands(data, o, x) /\ Stands(data, o + Len(x), y)
  <1>1. /\ Len(x) \in Nat /\ Len(y) \in Nat /\ Len(data) \in Nat
        /\ Len(x \o y) = Len(x) + Len(y)
    BY DEF Texts
  <1>2. \A i \in 1..Len(x) : (x \o y)[i] = x[i]
    BY DEF Texts
  <1>3. \A i \in 1..Len(y) : (x \o y)[Len(x) + i] = y[i]
    BY DEF Texts
  <1>4. ASSUME Stands(data, o, x \o y)
        PROVE  Stands(data, o, x) /\ Stands(data, o + Len(x), y)
    <2>1. \A i \in 1..Len(x) : data[o + i] = x[i]
      <3> TAKE i \in 1..Len(x)
      <3>1. i \in 1..Len(x \o y)
        BY <1>1
      <3> QED
        BY <1>2, <1>4, <3>1 DEF Stands
    <2>2. \A i \in 1..Len(y) : data[(o + Len(x)) + i] = y[i]
      <3> TAKE i \in 1..Len(y)
      <3>1. Len(x) + i \in 1..Len(x \o y) /\ o + (Len(x) + i) = (o + Len(x)) + i
        BY <1>1
      <3> QED
        BY <1>3, <1>4, <3>1 DEF Stands
    <2> QED
      BY <1>1, <1>4, <2>1, <2>2 DEF Stands
  <1>5. ASSUME Stands(data, o, x), Stands(data, o + Len(x), y)
        PROVE  Stands(data, o, x \o y)
    <2>1. \A i \in 1..Len(x \o y) : data[o + i] = (x \o y)[i]
      <3> TAKE i \in 1..Len(x \o y)
      <3>1. CASE i <= Len(x)
        <4>1. i \in 1..Len(x)
          BY <1>1, <3>1
        <4> QED
          BY <1>2, <1>5, <4>1 DEF Stands
      <3>2. CASE i > Len(x)
        <4>1. i - Len(x) \in 1..Len(y) /\ (o + Len(x)) + (i - Len(x)) = o + i
              /\ Len(x) + (i - Len(x)) = i
          BY <1>1, <3>2
        <4>2. data[(o + Len(x)) + (i - Len(x))] = y[i - Len(x)]
          BY <1>5, <4>1 DEF Stands
        <4>3. (x \o y)[Len(x) + (i - Len(x))] = y[i - Len(x)]
          BY <1>3, <4>1
        <4> QED
          BY <4>1, <4>2, <4>3
      <3> QED
        BY <1>1, <3>1, <3>2
    <2> QED
      BY <1>1, <1>5, <2>1 DEF Stands
  <1> QED
    BY <1>4, <1>5

(* A text stands in itself.                                                *)
LEMMA StandsSelf ==
  ASSUME NEW s \in Texts
  PROVE  Stands(s, 0, s)
  BY DEF Stands, Texts

(* A scan of a text goes through what stands in it as if that were alone.  *)
LEMMA ReadingStands ==
  ASSUME NEW data \in Texts, NEW s \in Texts, NEW o \in Nat, Stands(data, o, s),
         NEW top \in Scan, NEW at \in Scan, Reading(top, data)[o + 1] = at
  PROVE  \A n \in 1..(Len(s) + 1) : Reading(top, data)[o + n] = Reading(at, s)[n]
  <1> DEFINE r == Reading(top, data)
             w == Reading(at, s)
             Same(k) == r[o + (k + 1)] = w[k + 1]
             P == {k \in Nat : k <= Len(s) => Same(k)}
  <1>1. IsReading(r, top, data) /\ IsReading(w, at, s)
    BY ReadingDef
  <1>2. Len(s) \in Nat /\ Len(data) \in Nat /\ o + Len(s) <= Len(data)
    BY DEF Texts, Stands
  <1> HIDE DEF r, w
  <1>3. 0 \in P
    BY <1>1 DEF IsReading, r
  <1>4. \A k \in P : k + 1 \in P
    <2> SUFFICES ASSUME NEW k \in Nat, Same(k), k + 1 <= Len(s)
                 PROVE  Same(k + 1)
      <3> HIDE DEF Same
      <3> QED
        BY <1>2
    <2>1. k + 1 \in 1..Len(s) /\ o + (k + 1) \in 1..Len(data)
      BY <1>2
    <2>2. w[(k + 1) + 1] = Past(w[k + 1], s[k + 1])
      BY <1>1, <2>1 DEF IsReading
    <2>3. r[(o + (k + 1)) + 1] = Past(r[o + (k + 1)], data[o + (k + 1)])
      BY <1>1, <2>1 DEF IsReading
    <2>4. data[o + (k + 1)] = s[k + 1]
      BY <2>1 DEF Stands
    <2>5. (o + (k + 1)) + 1 = o + ((k + 1) + 1)
      OBVIOUS
    <2> QED
      BY <2>2, <2>3, <2>4, <2>5
  <1>5. P = Nat
    <2>1. P \in SUBSET Nat
      OBVIOUS
    <2> HIDE DEF P
    <2> QED
      BY <1>3, <1>4, <2>1, Induct
  <1>6. \A k \in Nat : k <= Len(s) => Same(k)
    <2> HIDE DEF Same
    <2> QED
      BY <1>5
  <1>7. ASSUME NEW n \in 1..(Len(s) + 1) PROVE r[o + n] = w[n]
    <2>1. n - 1 \in Nat /\ n - 1 <= Len(s) /\ (n - 1) + 1 = n
      BY <1>2
    <2>2. Same(n - 1)
      BY <1>6, <2>1
    <2> QED
      BY <2>1, <2>2
  <1> QED
    BY <1>7 DEF r, w

-----------------------------------------------------------------------------
(* Texts after which a scan is where it was before, outside of strings, and
   that never go above that level: in particular values, and what an object
   or a list has between its braces or brackets.                           *)

Marks == {Quote, "{", "}", "[", "]"}
Outside(at) == at \in Scan /\ ~at.string /\ ~at.escaped

Back(s) == \A at \in Scan : Outside(at) => Reading(at, s)[Len(s) + 1] = at
Below(s) ==
  \A at \in Scan : Outside(at) =>
    \A n \in 1..Len(s) : LET b == Reading(at, s)[n] IN
      b \in Scan /\ b.object >= at.object /\ b.list >= at.list
Closed(s) ==
  \A at \in Scan : Outside(at) =>
    \A n \in 1..Len(s) : LET b == Reading(at, s)[n] IN
      s[n] = "}" => b.string \/ b.object > at.object
Covered(s) ==
  \A at \in Scan : Outside(at) =>
    \A n \in 2..Len(s) : LET b == Reading(at, s)[n] IN
      s[n] = Quote => b.string \/ b.object > at.object \/ b.list > at.list

Loose(s) == Back(s) /\ Below(s) /\ Closed(s)
Tidy(s) == Loose(s) /\ Covered(s)

(* Reading at its ends and between them.                                   *)
LEMMA ReadingType ==
  ASSUME NEW at \in Scan, NEW s \in Texts
  PROVE  /\ \A n \in 1..(Len(s) + 1) : Reading(at, s)[n] \in Scan
         /\ Reading(at, s)[1] = at
         /\ \A n \in 1..Len(s) : Reading(at, s)[n + 1] = Past(Reading(at, s)[n], s[n])
  BY ReadingDef DEF IsReading

(* What each byte does to a scan outside of strings.                       *)
LEMMA PastOutside ==
  ASSUME NEW at, Outside(at)
  PROVE  /\ \A c : c \notin Marks => Past(at, c) = at
         /\ Past(at, Quote) = [at EXCEPT !.string = TRUE]
         /\ Past(at, "{") = [at EXCEPT !.object = @ + 1]
         /\ Past(at, "}") = [at EXCEPT !.object = Less(@)]
         /\ Past(at, "[") = [at EXCEPT !.list = @ + 1]
         /\ Past(at, "]") = [at EXCEPT !.list = Less(@)]
  BY DEF Outside, Past, Marks, Quote

(* Nothing happens in a text without marks.                                *)
LEMMA UnmarkedReading ==
  ASSUME NEW s \in Texts, \A n \in 1..Len(s) : s[n] \notin Marks, NEW at, Outside(at)
  PROVE  \A n \in 1..(Len(s) + 1) : Reading(at, s)[n] = at
  <1> DEFINE w == Reading(at, s)
             Same(k) == w[k + 1] = at
             P == {k \in Nat : k <= Len(s) => Same(k)}
  <1>1. at \in Scan /\ Len(s) \in Nat
    BY DEF Outside, Texts
  <1>2. w[1] = at /\ \A n \in 1..Len(s) : w[n + 1] = Past(w[n], s[n])
    BY <1>1, ReadingType
  <1> HIDE DEF w
  <1>3. 0 \in P
    BY <1>2
  <1>4. \A k \in P : k + 1 \in P
    <2> SUFFICES ASSUME NEW k \in Nat, Same(k), k + 1 <= Len(s)
                 PROVE  Same(k + 1)
      <3> HIDE DEF Same
      <3> QED
        BY <1>1
    <2>1. k + 1 \in 1..Len(s)
      BY <1>1
    <2>2. w[(k + 1) + 1] = Past(at, s[k + 1])
      BY <1>2, <2>1
    <2> QED
      BY <2>1, <2>2, PastOutside
  <1>5. P = Nat
    <2>1. P \in SUBSET Nat
      OBVIOUS
    <2> HIDE DEF P
    <2> QED
      BY <1>3, <1>4, <2>1, Induct
  <1>6. \A k \in Nat : k <= Len(s) => Same(k)
    <2> HIDE DEF Same
    <2> QED
      BY <1>5
  <1>7. ASSUME NEW n \in 1..(Len(s) + 1) PROVE w[n] = at
    <2>1. n - 1 \in Nat /\ n - 1 <= Len(s) /\ (n - 1) + 1 = n
      BY <1>1
    <2>2. Same(n - 1)
      BY <1>6, <2>1
    <2> QED
      BY <2>1, <2>2
  <1> QED
    BY <1>7 DEF w

(* A text without marks is tidy.                                           *)
LEMMA UnmarkedTidy ==
  ASSUME NEW s \in Texts, \A n \in 1..Len(s) : s[n] \notin Marks
  PROVE  Tidy(s)
  <1>a. \A n \in 2..Len(s) : n \in 1..Len(s)
    <2>1. Len(s) \in Nat
      BY DEF Texts
    <2> QED
      BY <2>1
  <1>b. ASSUME NEW a \in Scan PROVE a.object >= a.object /\ a.list >= a.list
    <2>1. a.object \in Nat /\ a.list \in Nat
      BY DEF Scan
    <2> QED
      BY <2>1
  <1> SUFFICES ASSUME NEW at \in Scan, Outside(at)
               PROVE  /\ Reading(at, s)[Len(s) + 1] = at
                      /\ \A n \in 1..Len(s) : s[n] \notin {Quote, "}"} /\ Reading(at, s)[n] = at
    BY <1>a, <1>b DEF Tidy, Loose, Back, Below, Closed, Covered
  <1>1. \A n \in 1..(Len(s) + 1) : Reading(at, s)[n] = at
    BY UnmarkedReading
  <1>2. Len(s) + 1 \in 1..(Len(s) + 1) /\ 1..Len(s) \in SUBSET (1..(Len(s) + 1))
    BY DEF Texts
  <1> QED
    BY <1>1, <1>2 DEF Marks

(* What stands one after the other.                                        *)
LEMMA ReadingConcat ==
  ASSUME NEW x \in Texts, NEW y \in Texts, NEW at \in Scan, NEW mid \in Scan,
         Reading(at, x)[Len(x) + 1] = mid
  PROVE  /\ \A n \in 1..(Len(x) + 1) : Reading(at, x \o y)[n] = Reading(at, x)[n]
         /\ \A n \in 1..(Len(y) + 1) : Reading(at, x \o y)[Len(x) + n] = Reading(mid, y)[n]
         /\ Len(x \o y) = Len(x) + Len(y)
         /\ \A n \in 1..Len(x) : (x \o y)[n] = x[n]
         /\ \A n \in 1..Len(y) : (x \o y)[Len(x) + n] = y[n]
  <1>1. x \o y \in Texts
    BY ConcatProperties DEF Texts
  <1>2. Stands(x \o y, 0, x) /\ Stands(x \o y, Len(x), y) /\ Len(x) \in Nat
    <2>0. Len(x) \in Nat
      BY DEF Texts
    <2>1. Stands(x \o y, 0, x \o y) /\ 0 \in Nat /\ Len(x) \in Nat /\ 0 + Len(x) = Len(x)
      BY <1>1, <2>0, StandsSelf
    <2> QED
      BY <1>1, <2>1, StandsConcat
  <1>3. Reading(at, x \o y)[0 + 1] = at
    BY <1>1, ReadingType
  <1>4. \A n \in 1..(Len(x) + 1) : Reading(at, x \o y)[0 + n] = Reading(at, x)[n]
    <2>1. 0 \in Nat
      OBVIOUS
    <2> QED
      BY <1>1, <1>2, <1>3, <2>1, ReadingStands
  <1>5. \A n \in 1..(Len(x) + 1) : Reading(at, x \o y)[n] = Reading(at, x)[n]
    <2> TAKE n \in 1..(Len(x) + 1)
    <2>1. 0 + n = n
      BY <1>2
    <2> QED
      BY <1>4, <2>1
  <1>6. Len(x) + 1 \in 1..(Len(x) + 1)
    BY <1>2
  <1>7. \A n \in 1..(Len(y) + 1) : Reading(at, x \o y)[Len(x) + n] = Reading(mid, y)[n]
    BY <1>1, <1>2, <1>5, <1>6, ReadingStands
  <1>8. /\ Len(x \o y) = Len(x) + Len(y)
        /\ \A n \in 1..Len(x) : (x \o y)[n] = x[n]
        /\ \A n \in 1..Len(y) : (x \o y)[Len(x) + n] = y[n]
    BY DEF Texts
  <1> QED
    BY <1>5, <1>7, <1>8

(* A position in one of two texts.                                         *)
LEMMA EitherPart ==
  ASSUME NEW a \in Nat, NEW b \in Nat, NEW n \in 1..(a + b)
  PROVE  n \in 1..a \/ \E m \in 1..b : n = a + m
  <1>1. CASE n <= a
    BY <1>1
  <1>2. CASE n > a
    <2>1. n - a \in 1..b /\ n = a + (n - a)
      BY <1>2
    <2> QED
      BY <2>1
  <1> QED
    BY <1>1, <1>2

(* What is loose stays so, one after another.                              *)
LEMMA LooseConcat ==
  ASSUME NEW x \in Texts, NEW y \in Texts, Loose(x), Loose(y)
  PROVE  Loose(x \o y)
  <1> DEFINE s == x \o y
  <1>0. s \in Texts /\ Len(x) \in Nat /\ Len(y) \in Nat
    BY ConcatProperties DEF Texts
  <1> SUFFICES ASSUME NEW at \in Scan, Outside(at)
               PROVE  /\ Reading(at, s)[Len(s) + 1] = at
                      /\ \A n \in 1..Len(s) : LET b == Reading(at, s)[n] IN
                           /\ b \in Scan /\ b.object >= at.object /\ b.list >= at.list
                           /\ s[n] = "}" => b.string \/ b.object > at.object
    BY DEF Loose, Back, Below, Closed
  <1>1. Reading(at, x)[Len(x) + 1] = at
    BY DEF Loose, Back
  <1>2. /\ \A n \in 1..(Len(x) + 1) : Reading(at, s)[n] = Reading(at, x)[n]
        /\ \A n \in 1..(Len(y) + 1) : Reading(at, s)[Len(x) + n] = Reading(at, y)[n]
        /\ Len(s) = Len(x) + Len(y)
        /\ \A n \in 1..Len(x) : s[n] = x[n]
        /\ \A n \in 1..Len(y) : s[Len(x) + n] = y[n]
    BY <1>1, ReadingConcat
  <1> HIDE DEF s
  <1>3. Reading(at, s)[Len(s) + 1] = at
    <2>1. Len(y) + 1 \in 1..(Len(y) + 1) /\ Len(x) + (Len(y) + 1) = Len(s) + 1
      BY <1>0, <1>2
    <2>2. Reading(at, s)[Len(x) + (Len(y) + 1)] = Reading(at, y)[Len(y) + 1]
      BY <1>2, <2>1
    <2>3. Reading(at, y)[Len(y) + 1] = at
      BY DEF Loose, Back
    <2> QED
      BY <2>1, <2>2, <2>3
  <1>4. ASSUME NEW n \in 1..Len(s)
        PROVE  LET b == Reading(at, s)[n] IN
                 /\ b \in Scan /\ b.object >= at.object /\ b.list >= at.list
                 /\ s[n] = "}" => b.string \/ b.object > at.object
    <2>1. CASE n \in 1..Len(x)
      <3>1. n \in 1..(Len(x) + 1)
        BY <1>0, <2>1
      <3>2. Reading(at, s)[n] = Reading(at, x)[n] /\ s[n] = x[n]
        BY <1>2, <2>1, <3>1
      <3> QED
        BY <2>1, <3>2 DEF Loose, Below, Closed
    <2>2. CASE \E m \in 1..Len(y) : n = Len(x) + m
      <3>1. PICK m \in 1..Len(y) : n = Len(x) + m
        BY <2>2
      <3>2. m \in 1..(Len(y) + 1)
        BY <1>0, <3>1
      <3>3. Reading(at, s)[n] = Reading(at, y)[m] /\ s[n] = y[m]
        BY <1>2, <3>1, <3>2
      <3> QED
        BY <3>1, <3>3 DEF Loose, Below, Closed
    <2>3. n \in 1..(Len(x) + Len(y))
      BY <1>2
    <2>4. n \in 1..Len(x) \/ \E m \in 1..Len(y) : n = Len(x) + m
      BY <1>0, <2>3, EitherPart
    <2> QED
      BY <2>1, <2>2, <2>4
  <1> QED
    BY <1>3, <1>4

-----------------------------------------------------------------------------
(* What a string has between its quotes keeps a scan inside of it.         *)
Inside(at) == [at EXCEPT !.string = TRUE]

Within(s) ==
  \A at \in Scan : Outside(at) =>
    /\ Reading(Inside(at), s)[Len(s) + 1] = Inside(at)
    /\ \A n \in 1..Len(s) : LET b == Reading(Inside(at), s)[n] IN
         b \in Scan /\ b.string /\ b.object = at.object /\ b.list = at.list

(* What each byte does to a scan in a string.                              *)
LEMMA PastInside ==
  ASSUME NEW i, i.string, ~i.escaped, NEW c, NEW e \in BOOLEAN, NEW q \in BOOLEAN,
         e = (c = "\\"), q = (c # Quote)
  PROVE  Past(i, c) = [i EXCEPT !.escaped = e, !.string = q]
  <1>1. Past(i, c) = [i EXCEPT !.escaped = c = "\\", !.string = c # Quote]
    BY DEF Past
  <1> QED
    BY <1>1, Zenon

(* The quote is a byte, and neither a backslash nor a brace.               *)
LEMMA QuoteIs == Quote \in Characters /\ Quote # "\\" /\ Quote # "}" /\ <<Quote>> \in Texts
  <1>1. Quote \in Characters
    BY CharactersAssumption
  <1>2. Quote # "\\" /\ Quote # "}"
    BY DEF Quote
  <1>3. <<Quote>> \in Seq(Characters)
    BY <1>1
  <1> QED
    BY <1>1, <1>2, <1>3 DEF Texts

(* Going into a string and out of it again.                                *)
LEMMA InsideIs ==
  ASSUME NEW at, Outside(at)
  PROVE  /\ at \in Scan /\ Inside(at) \in Scan /\ Inside(at).string /\ ~Inside(at).escaped
         /\ Inside(at).object = at.object /\ Inside(at).list = at.list
         /\ Past(at, Quote) = Inside(at) /\ Past(Inside(at), Quote) = at
  <1>1. /\ at \in Scan /\ Inside(at) \in Scan /\ Inside(at).string /\ ~Inside(at).escaped
        /\ Inside(at).object = at.object /\ Inside(at).list = at.list
    BY DEF Outside, Scan, Inside
  <1>2. Past(at, Quote) = Inside(at)
    BY PastOutside DEF Inside
  <1>3. Past(Inside(at), Quote) = [Inside(at) EXCEPT !.escaped = FALSE, !.string = FALSE]
    <2>1. FALSE = (Quote = "\\") /\ FALSE = (Quote # Quote)
      BY QuoteIs
    <2> QED
      BY <1>1, <2>1, PastInside, Zenon
  <1>4. [Inside(at) EXCEPT !.escaped = FALSE, !.string = FALSE] = at
    BY DEF Outside, Scan, Inside
  <1> QED
    BY <1>1, <1>2, <1>3, <1>4

(* A byte written in a string leaves the scan in the string.               *)
LEMMA EscapeWithin ==
  ASSUME NEW c \in Characters
  PROVE  Escape(c) \in Texts /\ Within(Escape(c))
  <1>1. Escape(c) \in Texts
    <2>1. "\\" \in Characters
      BY CharactersAssumption
    <2>2. <<"\\", c>> \in Seq(Characters) /\ <<c>> \in Seq(Characters)
      BY <2>1
    <2> QED
      BY <2>2 DEF Escape, Texts
  <1> SUFFICES ASSUME NEW at \in Scan, Outside(at)
               PROVE  /\ Reading(Inside(at), Escape(c))[Len(Escape(c)) + 1] = Inside(at)
                      /\ \A n \in 1..Len(Escape(c)) : LET b == Reading(Inside(at), Escape(c))[n] IN
                           b \in Scan /\ b.string /\ b.object = at.object /\ b.list = at.list
    BY <1>1 DEF Within
  <1> DEFINE i == Inside(at)
             w == Reading(i, Escape(c))
             e == [i EXCEPT !.escaped = TRUE]
  <1>2. i \in Scan /\ i.string /\ ~i.escaped /\ i.object = at.object /\ i.list = at.list
    BY InsideIs
  <1>3. w[1] = i /\ \A n \in 1..Len(Escape(c)) : w[n + 1] = Past(w[n], Escape(c)[n])
    BY <1>1, <1>2, ReadingType
  <1> HIDE DEF i, w
  <1>4. CASE c \in Special
    <2>1. Escape(c) = <<"\\", c>>
      BY <1>4 DEF Escape
    <2>2. Len(Escape(c)) = 2 /\ Escape(c)[1] = "\\" /\ Escape(c)[2] = c
      BY <2>1
    <2>3. w[2] = Past(i, "\\") /\ w[3] = Past(w[2], c)
      BY <1>3, <2>2
    <2>4. Past(i, "\\") = [i EXCEPT !.escaped = TRUE, !.string = TRUE]
      <3>1. TRUE = ("\\" = "\\") /\ TRUE = ("\\" # Quote)
        BY QuoteIs
      <3> QED
        BY <1>2, <3>1, PastInside, Zenon
    <2>5. w[2] = e /\ e \in Scan /\ e.string /\ e.escaped /\ e.object = at.object /\ e.list = at.list
      BY <1>2, <2>3, <2>4 DEF Scan
    <2> HIDE DEF e
    <2>6. w[3] = [e EXCEPT !.escaped = FALSE]
      BY <2>3, <2>5 DEF Past
    <2>7. w[3] = i
      BY <1>2, <2>6 DEF e, Scan
    <2>8. \A n \in 1..2 : w[n] \in Scan /\ w[n].string /\ w[n].object = at.object /\ w[n].list = at.list
      BY <1>2, <1>3, <2>5
    <2> QED
      BY <2>2, <2>7, <2>8 DEF i, w
  <1>5. CASE c \notin Special
    <2>1. Escape(c) = <<c>>
      BY <1>5 DEF Escape
    <2>2. Len(Escape(c)) = 1 /\ Escape(c)[1] = c
      BY <2>1
    <2>3. w[2] = Past(i, c)
      <3>1. 1 \in 1..Len(Escape(c)) /\ 1 + 1 = 2
        BY <2>2
      <3>2. w[1 + 1] = Past(w[1], Escape(c)[1])
        BY <1>3, <3>1
      <3> QED
        BY <1>3, <2>2, <3>2
    <2>4. Past(i, c) = [i EXCEPT !.escaped = FALSE, !.string = TRUE]
      <3>1. FALSE = (c = "\\") /\ TRUE = (c # Quote)
        BY <1>5 DEF Special
      <3> QED
        BY <1>2, <3>1, PastInside, Zenon
    <2>5. w[2] = i
      BY <1>2, <2>3, <2>4 DEF Scan
    <2>6. \A n \in 1..1 : w[n] \in Scan /\ w[n].string /\ w[n].object = at.object /\ w[n].list = at.list
      BY <1>2, <1>3
    <2> QED
      BY <2>2, <2>5, <2>6 DEF i, w
  <1> QED
    BY <1>4, <1>5

(* So do two texts that do, one after the other.                           *)
LEMMA WithinConcat ==
  ASSUME NEW x \in Texts, NEW y \in Texts, Within(x), Within(y)
  PROVE  Within(x \o y)
  <1> DEFINE s == x \o y
  <1>0. s \in Texts /\ Len(x) \in Nat /\ Len(y) \in Nat
    BY ConcatProperties DEF Texts
  <1> SUFFICES ASSUME NEW at \in Scan, Outside(at)
               PROVE  /\ Reading(Inside(at), s)[Len(s) + 1] = Inside(at)
                      /\ \A n \in 1..Len(s) : LET b == Reading(Inside(at), s)[n] IN
                           b \in Scan /\ b.string /\ b.object = at.object /\ b.list = at.list
    BY DEF Within
  <1>1. Reading(Inside(at), x)[Len(x) + 1] = Inside(at) /\ Inside(at) \in Scan
    BY InsideIs DEF Within
  <1>2. /\ \A n \in 1..(Len(x) + 1) : Reading(Inside(at), s)[n] = Reading(Inside(at), x)[n]
        /\ \A n \in 1..(Len(y) + 1) : Reading(Inside(at), s)[Len(x) + n] = Reading(Inside(at), y)[n]
        /\ Len(s) = Len(x) + Len(y)
    BY <1>1, ReadingConcat
  <1> HIDE DEF s
  <1>3. Reading(Inside(at), s)[Len(s) + 1] = Inside(at)
    <2>1. Len(y) + 1 \in 1..(Len(y) + 1) /\ Len(x) + (Len(y) + 1) = Len(s) + 1
      BY <1>0, <1>2
    <2>2. Reading(Inside(at), s)[Len(x) + (Len(y) + 1)] = Reading(Inside(at), y)[Len(y) + 1]
      BY <1>2, <2>1
    <2>3. Reading(Inside(at), y)[Len(y) + 1] = Inside(at)
      BY DEF Within
    <2> QED
      BY <2>1, <2>2, <2>3
  <1>4. ASSUME NEW n \in 1..Len(s)
        PROVE  LET b == Reading(Inside(at), s)[n] IN
                 b \in Scan /\ b.string /\ b.object = at.object /\ b.list = at.list
    <2>1. CASE n \in 1..Len(x)
      <3>1. n \in 1..(Len(x) + 1)
        BY <1>0, <2>1
      <3>2. Reading(Inside(at), s)[n] = Reading(Inside(at), x)[n]
        BY <1>2, <3>1
      <3> QED
        BY <2>1, <3>2 DEF Within
    <2>2. CASE \E m \in 1..Len(y) : n = Len(x) + m
      <3>1. PICK m \in 1..Len(y) : n = Len(x) + m
        BY <2>2
      <3>2. m \in 1..(Len(y) + 1)
        BY <1>0, <3>1
      <3>3. Reading(Inside(at), s)[n] = Reading(Inside(at), y)[m]
        BY <1>2, <3>1, <3>2
      <3> QED
        BY <3>1, <3>3 DEF Within
    <2>3. n \in 1..(Len(x) + Len(y))
      BY <1>2
    <2>4. n \in 1..Len(x) \/ \E m \in 1..Len(y) : n = Len(x) + m
      BY <1>0, <2>3, EitherPart
    <2> QED
      BY <2>1, <2>2, <2>4
  <1> QED
    BY <1>3, <1>4

(* What holds of every part, of nothing, and of two texts joined, holds of
   all that is written.                                                    *)
LEMMA JoinedWithin ==
  ASSUME NEW parts \in Seq(Texts), \A k \in 1..Len(parts) : Within(parts[k])
  PROVE  Within(Joined(parts))
  <1> DEFINE n == Len(parts)
             F == Fronts(parts)
             Good(k) == Within(F[k])
             P == {k \in Nat : k <= n => Good(k)}
  <1>0. \A k \in 1..n : parts[k] \in Texts
    OBVIOUS
  <1>1. /\ F \in [0..n -> Texts] /\ F[0] = <<>>
        /\ \A k \in 1..n : F[k] = F[k - 1] \o parts[k]
    BY FrontsDef
  <1>2. n \in Nat
    OBVIOUS
  <1>3. Within(<<>>)
    <2>1. <<>> \in Texts /\ Len(<<>>) = 0
      BY DEF Texts
    <2>2. \A at \in Scan : Outside(at) => Reading(Inside(at), <<>>)[0 + 1] = Inside(at)
      BY <2>1, ReadingType, InsideIs
    <2>3. 1..0 = {}
      OBVIOUS
    <2> QED
      BY <2>1, <2>2, <2>3 DEF Within
  <1> HIDE DEF F, n
  <1>4. 0 \in P
    BY <1>1, <1>3
  <1>5. \A k \in P : k + 1 \in P
    <2> SUFFICES ASSUME NEW k \in Nat, Good(k), k + 1 <= n PROVE Good(k + 1)
      <3> HIDE DEF Good
      <3> QED
        BY <1>2
    <2>1. k \in 0..n /\ k + 1 \in 1..n /\ (k + 1) - 1 = k
      BY <1>2
    <2>2. F[k] \in Texts /\ F[k + 1] = F[k] \o parts[k + 1] /\ parts[k + 1] \in Texts
      BY <1>0, <1>1, <2>1
    <2>3. Within(parts[k + 1])
      BY <2>1 DEF n
    <2> QED
      BY <2>2, <2>3, WithinConcat
  <1>6. P = Nat
    <2>1. P \in SUBSET Nat
      OBVIOUS
    <2> HIDE DEF P
    <2> QED
      BY <1>4, <1>5, <2>1, Induct
  <1> QED
    BY <1>2, <1>6 DEF Joined, F, n

(* What is joined of loose parts is loose.                                 *)
LEMMA JoinedLoose ==
  ASSUME NEW parts \in Seq(Texts), \A k \in 1..Len(parts) : Loose(parts[k])
  PROVE  Loose(Joined(parts))
  <1> DEFINE n == Len(parts)
             F == Fronts(parts)
             Good(k) == Loose(F[k])
             P == {k \in Nat : k <= n => Good(k)}
  <1>0. \A k \in 1..n : parts[k] \in Texts
    OBVIOUS
  <1>1. /\ F \in [0..n -> Texts] /\ F[0] = <<>>
        /\ \A k \in 1..n : F[k] = F[k - 1] \o parts[k]
    BY FrontsDef
  <1>2. n \in Nat
    OBVIOUS
  <1>3. Loose(<<>>)
    <2>1. <<>> \in Texts /\ Len(<<>>) = 0
      BY DEF Texts
    <2>2. \A k \in 1..Len(<<>>) : <<>>[k] \notin Marks
      BY <2>1
    <2> QED
      BY <2>1, <2>2, UnmarkedTidy DEF Tidy
  <1> HIDE DEF F, n
  <1>4. 0 \in P
    BY <1>1, <1>3
  <1>5. \A k \in P : k + 1 \in P
    <2> SUFFICES ASSUME NEW k \in Nat, Good(k), k + 1 <= n PROVE Good(k + 1)
      <3> HIDE DEF Good
      <3> QED
        BY <1>2
    <2>1. k \in 0..n /\ k + 1 \in 1..n /\ (k + 1) - 1 = k
      BY <1>2
    <2>2. F[k] \in Texts /\ F[k + 1] = F[k] \o parts[k + 1] /\ parts[k + 1] \in Texts
      BY <1>0, <1>1, <2>1
    <2>3. Loose(parts[k + 1])
      BY <2>1 DEF n
    <2> QED
      BY <2>2, <2>3, LooseConcat
  <1>6. P = Nat
    <2>1. P \in SUBSET Nat
      OBVIOUS
    <2> HIDE DEF P
    <2> QED
      BY <1>4, <1>5, <2>1, Induct
  <1> QED
    BY <1>2, <1>6 DEF Joined, F, n

(* A string between its quotes.                                            *)
LEMMA EscapesType ==
  ASSUME NEW k \in Texts
  PROVE  /\ Escapes(k) \in Seq(Texts) /\ Len(Escapes(k)) = Len(k)
         /\ \A i \in 1..Len(k) : k[i] \in Characters /\ Escapes(k)[i] = Escape(k[i])
         /\ Joined(Escapes(k)) \in Texts /\ Within(Joined(Escapes(k)))
  <1>1. Len(k) \in Nat /\ \A i \in 1..Len(k) : k[i] \in Characters
    BY DEF Texts
  <1>2. \A i \in 1..Len(k) : Escape(k[i]) \in Texts /\ Within(Escape(k[i]))
    BY <1>1, EscapeWithin
  <1>3. Escapes(k) \in Seq(Texts) /\ Len(Escapes(k)) = Len(k)
        /\ \A i \in 1..Len(k) : Escapes(k)[i] = Escape(k[i])
    BY <1>1, <1>2 DEF Escapes
  <1> QED
    BY <1>1, <1>2, <1>3, FrontsDef, JoinedWithin

(* The scan of a string as it is written: in the string from its first
   quote to its last.                                                      *)
LEMMA QuotedReading ==
  ASSUME NEW k \in Texts
  PROVE  /\ Quoted(k) \in Texts /\ Len(Quoted(k)) >= 2 /\ Len(Quoted(k)) \in Nat
         /\ Quoted(k)[1] = Quote /\ Quoted(k) = <<Quote>> \o Joined(Escapes(k)) \o <<Quote>>
         /\ \A at \in Scan : Outside(at) =>
              /\ Reading(at, Quoted(k))[1] = at
              /\ Reading(at, Quoted(k))[Len(Quoted(k)) + 1] = at
              /\ \A n \in 2..Len(Quoted(k)) : LET b == Reading(at, Quoted(k))[n] IN
                   b \in Scan /\ b.string /\ b.object = at.object /\ b.list = at.list
  <1> DEFINE j == Joined(Escapes(k))
             q == <<Quote>>
             x == q \o j
             s == x \o q
  <1>1. j \in Texts /\ Within(j) /\ Len(j) \in Nat
    BY EscapesType DEF Texts
  <1>2. q \in Texts /\ Len(q) = 1 /\ q[1] = Quote
    BY QuoteIs
  <1> HIDE DEF j, q
  <1>3. x \in Texts /\ Len(x) = Len(j) + 1 /\ x[1] = Quote
    <2>1. x \in Texts /\ Len(x) = Len(q) + Len(j)
      BY <1>1, <1>2, ConcatProperties DEF Texts
    <2>2. 1 \in 1..Len(x) /\ 1 <= Len(q)
      BY <1>1, <1>2, <2>1
    <2>3. x[1] = q[1]
      BY <1>1, <1>2, <2>2, ConcatProperties DEF Texts
    <2> HIDE DEF x
    <2> QED
      BY <1>1, <1>2, <2>1, <2>3
  <1> HIDE DEF x
  <1>4. s \in Texts /\ Len(s) = Len(j) + 2 /\ s[1] = Quote
    <2>1. s \in Texts /\ Len(s) = Len(x) + Len(q)
      BY <1>2, <1>3, ConcatProperties DEF Texts
    <2>2. 1 \in 1..Len(s) /\ 1 <= Len(x)
      BY <1>1, <1>2, <1>3, <2>1
    <2>3. s[1] = x[1]
      BY <1>2, <1>3, <2>2, ConcatProperties DEF Texts
    <2> HIDE DEF s
    <2> QED
      BY <1>1, <1>2, <1>3, <2>1, <2>3
  <1>5. Quoted(k) = s
    BY DEF Quoted, s, x, q, j
  <1>6. ASSUME NEW at \in Scan, Outside(at)
        PROVE  /\ Reading(at, s)[1] = at /\ Reading(at, s)[Len(s) + 1] = at
               /\ \A n \in 2..Len(s) : LET b == Reading(at, s)[n] IN
                    b \in Scan /\ b.string /\ b.object = at.object /\ b.list = at.list
    <2> DEFINE i == Inside(at)
    <2>1. /\ at \in Scan /\ i \in Scan /\ i.string /\ i.object = at.object /\ i.list = at.list
          /\ Past(at, Quote) = i /\ Past(i, Quote) = at
      BY <1>6, InsideIs
    <2>a. 1 \in 1..Len(q) /\ 1 + 1 = 2 /\ Len(q) + 1 = 2
      BY <1>2
    <2> HIDE DEF i
    <2>2. Reading(at, q)[Len(q) + 1] = i
      <3>1. Reading(at, q)[1] = at /\ Reading(at, q)[1 + 1] = Past(Reading(at, q)[1], q[1])
        BY <1>2, <2>1, <2>a, ReadingType
      <3> QED
        BY <1>2, <2>1, <2>a, <3>1
    <2>3. Reading(i, q)[1] = i /\ Reading(i, q)[2] = at
      <3>1. Reading(i, q)[1] = i /\ Reading(i, q)[1 + 1] = Past(Reading(i, q)[1], q[1])
        BY <1>2, <2>1, <2>a, ReadingType
      <3> QED
        BY <1>2, <2>1, <2>a, <3>1
    <2>4. /\ Reading(i, j)[Len(j) + 1] = i
          /\ \A n \in 1..Len(j) : LET b == Reading(i, j)[n] IN
               b \in Scan /\ b.string /\ b.object = at.object /\ b.list = at.list
      BY <1>1, <1>6 DEF Within, i
    <2>5. \A n \in 1..(Len(j) + 1) : Reading(at, x)[Len(q) + n] = Reading(i, j)[n]
      <3>1. q \in Texts /\ j \in Texts /\ at \in Scan /\ i \in Scan
        BY <1>1, <1>2, <2>1
      <3>2. \A n \in 1..(Len(j) + 1) : Reading(at, q \o j)[Len(q) + n] = Reading(i, j)[n]
        BY <2>2, <3>1, ReadingConcat
      <3> QED
        BY <3>2 DEF x
    <2>6. Reading(at, x)[Len(x) + 1] = i
      <3>1. Len(j) + 1 \in 1..(Len(j) + 1) /\ Len(q) + (Len(j) + 1) = Len(x) + 1
        BY <1>1, <1>2, <1>3
      <3> QED
        BY <2>4, <2>5, <3>1
    <2>7. /\ \A n \in 1..(Len(x) + 1) : Reading(at, s)[n] = Reading(at, x)[n]
          /\ \A n \in 1..(Len(q) + 1) : Reading(at, s)[Len(x) + n] = Reading(i, q)[n]
      <3>1. q \in Texts /\ x \in Texts /\ at \in Scan /\ i \in Scan
        BY <1>2, <1>3, <2>1
      <3> QED
        BY <2>6, <3>1, ReadingConcat
    <2>8. Reading(at, s)[Len(s) + 1] = at
      <3>1. 2 \in 1..(Len(q) + 1) /\ Len(x) + 2 = Len(s) + 1
        BY <1>1, <1>2, <1>3, <1>4
      <3> QED
        BY <2>3, <2>7, <3>1
    <2>9. ASSUME NEW n \in 2..Len(s)
          PROVE  LET b == Reading(at, s)[n] IN
                   b \in Scan /\ b.string /\ b.object = at.object /\ b.list = at.list
      <3>1. n - 1 \in 1..(Len(j) + 1) /\ n \in 1..(Len(x) + 1) /\ Len(q) + (n - 1) = n
        BY <1>1, <1>2, <1>3, <1>4
      <3>2. Reading(at, s)[n] = Reading(i, j)[n - 1]
        BY <2>5, <2>7, <3>1
      <3>3. n - 1 = Len(j) + 1 \/ n - 1 \in 1..Len(j)
        BY <1>1, <3>1
      <3> QED
        BY <2>1, <2>4, <3>2, <3>3
    <2>10. Reading(at, s)[1] = at
      BY <1>4, ReadingType
    <2> QED
      BY <2>8, <2>9, <2>10
  <1>7. Len(s) >= 2 /\ Len(s) \in Nat
    BY <1>1, <1>4
  <1>8. s = <<Quote>> \o Joined(Escapes(k)) \o <<Quote>>
    BY DEF x, q, j
  <1> HIDE DEF s
  <1>9. Quoted(k) = <<Quote>> \o Joined(Escapes(k)) \o <<Quote>>
    BY <1>5, <1>8
  <1> QED
    BY <1>4, <1>5, <1>6, <1>7, <1>9

(* A string as it is written is tidy, whatever bytes it is of.             *)
LEMMA QuotedTidy ==
  ASSUME NEW k \in Texts
  PROVE  Tidy(Quoted(k))
  <1> DEFINE s == Quoted(k)
  <1>1. /\ Len(s) \in Nat /\ s[1] = Quote
        /\ \A at \in Scan : Outside(at) =>
             /\ Reading(at, s)[1] = at /\ Reading(at, s)[Len(s) + 1] = at
             /\ \A n \in 2..Len(s) : LET b == Reading(at, s)[n] IN
                  b \in Scan /\ b.string /\ b.object = at.object /\ b.list = at.list
    BY QuotedReading
  <1> HIDE DEF s
  <1>2. \A n \in 1..Len(s) : n = 1 \/ n \in 2..Len(s)
    BY <1>1
  <1>3. Quote # "}"
    BY DEF Quote
  <1>4. ASSUME NEW at \in Scan PROVE at.object \in Nat /\ at.list \in Nat
    BY DEF Scan
  <1>5. Back(s) /\ Covered(s)
    BY <1>1 DEF Back, Covered
  <1>6. Closed(s)
    BY <1>1, <1>2, <1>3 DEF Closed
  <1>7. Below(s)
    <2> SUFFICES ASSUME NEW at \in Scan, Outside(at), NEW n \in 1..Len(s)
                 PROVE  LET b == Reading(at, s)[n] IN
                          b \in Scan /\ b.object >= at.object /\ b.list >= at.list
      BY DEF Below
    <2>1. LET b == Reading(at, s)[n] IN b \in Scan /\ b.object = at.object /\ b.list = at.list
      BY <1>1, <1>2
    <2> QED
      BY <1>4, <2>1
  <1> QED
    BY <1>5, <1>6, <1>7 DEF Tidy, Loose, s

-----------------------------------------------------------------------------
(* A text between two marks.                                               *)
Between(o, m, c) == <<o>> \o m \o <<c>>

(* A text between two marks, byte by byte.                                 *)
LEMMA BetweenIs ==
  ASSUME NEW o \in Characters, NEW c \in Characters, NEW m \in Texts
  PROVE  /\ Between(o, m, c) \in Texts /\ Len(Between(o, m, c)) = Len(m) + 2
         /\ Between(o, m, c)[1] = o /\ Between(o, m, c)[Len(m) + 2] = c
         /\ \A n \in 1..Len(m) : Between(o, m, c)[n + 1] = m[n]
  <1> DEFINE p == <<o>>
             q == <<c>>
             x == p \o m
             s == x \o q
  <1>1. /\ p \in Texts /\ Len(p) = 1 /\ p[1] = o
        /\ q \in Texts /\ Len(q) = 1 /\ q[1] = c /\ Len(m) \in Nat
    BY DEF Texts
  <1>2. Between(o, m, c) = s
    BY DEF Between
  <1> HIDE DEF p, q
  <1>3. /\ x \in Texts /\ Len(x) = Len(m) + 1 /\ x[1] = o
        /\ \A n \in 1..Len(m) : x[n + 1] = m[n]
    <2>1. x \in Texts /\ Len(x) = Len(p) + Len(m)
      BY <1>1, ConcatProperties DEF Texts
    <2>2. \A n \in 1..Len(x) : x[n] = IF n <= Len(p) THEN p[n] ELSE m[n - Len(p)]
      <3>1. \A n \in 1..(Len(p) + Len(m)) :
              (p \o m)[n] = IF n <= Len(p) THEN p[n] ELSE m[n - Len(p)]
        BY <1>1, ConcatProperties DEF Texts
      <3> QED
        BY <2>1, <3>1
    <2> HIDE DEF x
    <2>3. 1 \in 1..Len(x) /\ \A n \in 1..Len(m) : n + 1 \in 1..Len(x) /\ (n + 1) - 1 = n
      BY <1>1, <2>1
    <2> QED
      BY <1>1, <2>1, <2>2, <2>3
  <1> HIDE DEF x
  <1>4. /\ s \in Texts /\ Len(s) = Len(m) + 2 /\ s[1] = o /\ s[Len(m) + 2] = c
        /\ \A n \in 1..Len(m) : s[n + 1] = m[n]
    <2>1. s \in Texts /\ Len(s) = Len(x) + Len(q)
      BY <1>1, <1>3, ConcatProperties DEF Texts
    <2>2. \A n \in 1..Len(s) : s[n] = IF n <= Len(x) THEN x[n] ELSE q[n - Len(x)]
      BY <1>1, <1>3, ConcatProperties DEF Texts
    <2> HIDE DEF s
    <2>3. /\ 1 \in 1..Len(s) /\ \A n \in 1..Len(m) : n + 1 \in 1..Len(s) /\ n + 1 <= Len(x)
          /\ Len(m) + 2 \in 1..Len(s) /\ (Len(m) + 2) - Len(x) = 1 /\ ~(Len(m) + 2 <= Len(x))
          /\ 1 <= Len(x)
      BY <1>1, <1>3, <2>1
    <2> QED
      BY <1>1, <1>3, <2>1, <2>2, <2>3
  <1> HIDE DEF s
  <1> QED
    BY <1>2, <1>4

(* The scan of a text between two marks is that of the text, begun past the
   first mark.                                                             *)
LEMMA BetweenReading ==
  ASSUME NEW o \in Characters, NEW c \in Characters, NEW m \in Texts,
         NEW at \in Scan, NEW mid \in Scan,
         Past(at, o) = mid, Reading(mid, m)[Len(m) + 1] = mid
  PROVE  /\ Reading(at, Between(o, m, c))[1] = at
         /\ \A n \in 1..(Len(m) + 1) :
              Reading(at, Between(o, m, c))[n + 1] = Reading(mid, m)[n]
         /\ Reading(at, Between(o, m, c))[Len(m) + 3] = Past(mid, c)
  <1> DEFINE p == <<o>>
             q == <<c>>
             x == p \o m
             s == x \o q
  <1>b. /\ p \in Texts /\ Len(p) = 1 /\ p[1] = o
        /\ q \in Texts /\ Len(q) = 1 /\ q[1] = c /\ Len(m) \in Nat
    BY DEF Texts
  <1>c. x \in Texts /\ Len(x) = Len(m) + 1
    <2>1. x \in Texts /\ Len(x) = Len(p) + Len(m)
      BY <1>b, ConcatProperties DEF Texts
    <2> HIDE DEF x
    <2> QED
      BY <1>b, <2>1
  <1>d. s \in Texts /\ Between(o, m, c) = s
    BY BetweenIs DEF Between
  <1> HIDE DEF p, q, x
  <1>a. /\ 1 \in 1..Len(p) /\ 1 \in 1..Len(q) /\ 1 + 1 = 2
        /\ Len(p) + 1 = 2 /\ Len(q) + 1 = 2
    BY <1>b
  <1>1. Reading(at, p)[Len(p) + 1] = mid
    <2>1. Reading(at, p)[1] = at /\ Reading(at, p)[1 + 1] = Past(Reading(at, p)[1], p[1])
      BY <1>b, <1>a, ReadingType
    <2> QED
      BY <1>b, <1>a, <2>1
  <1>2. \A n \in 1..(Len(m) + 1) : Reading(at, x)[Len(p) + n] = Reading(mid, m)[n]
    <2>0. p \in Texts /\ m \in Texts /\ at \in Scan /\ mid \in Scan
      BY <1>b
    <2>1. \A n \in 1..(Len(m) + 1) : Reading(at, p \o m)[Len(p) + n] = Reading(mid, m)[n]
      BY <1>1, <2>0, ReadingConcat
    <2> QED
      BY <2>1 DEF x
  <1>3. Reading(at, x)[Len(x) + 1] = mid
    <2>1. Len(m) + 1 \in 1..(Len(m) + 1) /\ Len(p) + (Len(m) + 1) = Len(x) + 1
      BY <1>b, <1>c
    <2> QED
      BY <1>2, <2>1
  <1>4. /\ \A n \in 1..(Len(x) + 1) : Reading(at, s)[n] = Reading(at, x)[n]
        /\ \A n \in 1..(Len(q) + 1) : Reading(at, s)[Len(x) + n] = Reading(mid, q)[n]
    <2>0. x \in Texts /\ q \in Texts /\ at \in Scan /\ mid \in Scan
      BY <1>b, <1>c
    <2> QED
      BY <1>3, <2>0, ReadingConcat
  <1>5. Reading(at, s)[Len(m) + 3] = Past(mid, c)
    <2>1. Reading(mid, q)[1] = mid /\ Reading(mid, q)[1 + 1] = Past(Reading(mid, q)[1], q[1])
      BY <1>b, <1>a, ReadingType
    <2>2. 2 \in 1..(Len(q) + 1) /\ Len(x) + 2 = Len(m) + 3
      BY <1>b, <1>c
    <2> QED
      BY <1>b, <1>4, <1>a, <2>1, <2>2
  <1>6. ASSUME NEW n \in 1..(Len(m) + 1) PROVE Reading(at, s)[n + 1] = Reading(mid, m)[n]
    <2>1. n + 1 \in 1..(Len(x) + 1) /\ Len(p) + n = n + 1
      BY <1>b, <1>c
    <2> QED
      BY <1>2, <1>4, <2>1
  <1>7. Reading(at, s)[1] = at
    BY <1>d, ReadingType
  <1> QED
    BY <1>5, <1>6, <1>7, <1>d

Wrappers == {<<"{", "}">>, <<"[", "]">>}

(* What braces and brackets do to a scan outside of strings.               *)
LEMMA WrapPast ==
  ASSUME NEW w \in Wrappers, NEW at, Outside(at)
  PROVE  /\ w[1] \in Characters /\ w[2] \in Characters /\ w[1] # "}" /\ w[2] # Quote
         /\ Outside(Past(at, w[1])) /\ Past(Past(at, w[1]), w[2]) = at
         /\ Past(at, w[1]).object >= at.object /\ Past(at, w[1]).list >= at.list
         /\ w[2] = "}" => Past(at, w[1]).object > at.object
         /\ Past(at, w[1]).object > at.object \/ Past(at, w[1]).list > at.list
  <1>0. at \in Scan /\ ~at.string /\ ~at.escaped /\ at.object \in Nat /\ at.list \in Nat
    BY DEF Outside, Scan
  <1>1. CASE w = <<"{", "}">>
    <2>1. w[1] = "{" /\ w[2] = "}"
      BY <1>1
    <2> DEFINE b == Past(at, "{")
    <2>2. b = [at EXCEPT !.object = @ + 1]
      BY PastOutside
    <2>3. b \in Scan /\ ~b.string /\ ~b.escaped /\ b.object = at.object + 1 /\ b.list = at.list
      <3>1. at.object + 1 \in Nat
        BY <1>0
      <3> HIDE DEF b
      <3>2. b \in Scan
        BY <1>0, <2>2, <3>1 DEF Scan
      <3>3. ~b.string /\ ~b.escaped /\ b.object = at.object + 1 /\ b.list = at.list
        BY <1>0, <2>2 DEF Scan
      <3> QED
        BY <3>2, <3>3
    <2> HIDE DEF b
    <2>4. Outside(b)
      BY <2>3 DEF Outside
    <2>5. Past(b, "}") = [b EXCEPT !.object = at.object]
      <3>1. Less(b.object) = at.object
        BY <1>0, <2>3 DEF Less
      <3> QED
        BY <2>4, <3>1, PastOutside
    <2>6. Past(b, "}") = at
      BY <1>0, <2>2, <2>5 DEF Scan
    <2>7. "{" \in Characters /\ "}" \in Characters /\ "}" # Quote
      BY CharactersAssumption, QuoteIs
    <2>8. b.object >= at.object /\ b.list >= at.list /\ b.object > at.object
      BY <1>0, <2>3
    <2> QED
      BY <2>1, <2>4, <2>6, <2>7, <2>8 DEF b
  <1>2. CASE w = <<"[", "]">>
    <2>1. w[1] = "[" /\ w[2] = "]"
      BY <1>2
    <2> DEFINE b == Past(at, "[")
    <2>2. b = [at EXCEPT !.list = @ + 1]
      BY PastOutside
    <2>3. b \in Scan /\ ~b.string /\ ~b.escaped /\ b.list = at.list + 1 /\ b.object = at.object
      BY <1>0, <2>2 DEF Scan
    <2> HIDE DEF b
    <2>4. Outside(b)
      BY <2>3 DEF Outside
    <2>5. Past(b, "]") = [b EXCEPT !.list = at.list]
      <3>1. Less(b.list) = at.list
        BY <1>0, <2>3 DEF Less
      <3> QED
        BY <2>4, <3>1, PastOutside
    <2>6. Past(b, "]") = at
      BY <1>0, <2>2, <2>5 DEF Scan
    <2>7. "[" \in Characters /\ "]" \in Characters /\ "]" # Quote
      BY CharactersAssumption DEF Quote
    <2>8. b.object >= at.object /\ b.list >= at.list /\ b.list > at.list
      BY <1>0, <2>3
    <2> QED
      BY <2>1, <2>4, <2>6, <2>7, <2>8 DEF b
  <1> QED
    BY <1>1, <1>2 DEF Wrappers

(* A loose text between braces or brackets is tidy.                        *)
LEMMA WrapTidy ==
  ASSUME NEW w \in Wrappers, NEW m \in Texts, Loose(m)
  PROVE  Tidy(Between(w[1], m, w[2]))
  <1> DEFINE s == Between(w[1], m, w[2])
  <1>0. Len(m) \in Nat
    BY DEF Texts
  <1> SUFFICES ASSUME NEW at \in Scan, Outside(at)
               PROVE  /\ Reading(at, s)[Len(s) + 1] = at
                      /\ \A n \in 1..Len(s) : LET b == Reading(at, s)[n] IN
                           /\ b \in Scan /\ b.object >= at.object /\ b.list >= at.list
                           /\ s[n] = "}" => b.string \/ b.object > at.object
                      /\ \A n \in 2..Len(s) : LET b == Reading(at, s)[n] IN
                           b.object > at.object \/ b.list > at.list
    BY DEF Tidy, Loose, Back, Below, Closed, Covered
  <1> DEFINE mid == Past(at, w[1])
  <1>1. /\ w[1] \in Characters /\ w[2] \in Characters /\ w[1] # "}" /\ w[2] # Quote
        /\ Outside(mid) /\ Past(mid, w[2]) = at
        /\ mid.object >= at.object /\ mid.list >= at.list
        /\ w[2] = "}" => mid.object > at.object
        /\ mid.object > at.object \/ mid.list > at.list
    BY WrapPast
  <1>2. /\ mid \in Scan /\ mid.object \in Nat /\ mid.list \in Nat
        /\ at.object \in Nat /\ at.list \in Nat
    BY <1>1 DEF Outside, Scan
  <1>3. Reading(mid, m)[Len(m) + 1] = mid
    BY <1>1, <1>2 DEF Loose, Back
  <1>4. \A n \in 1..Len(m) : LET b == Reading(mid, m)[n] IN
          /\ b \in Scan /\ b.object >= mid.object /\ b.list >= mid.list
          /\ m[n] = "}" => b.string \/ b.object > mid.object
    BY <1>1, <1>2 DEF Loose, Below, Closed
  <1>5. /\ Len(s) = Len(m) + 2 /\ s[1] = w[1] /\ s[Len(m) + 2] = w[2]
        /\ \A n \in 1..Len(m) : s[n + 1] = m[n]
        /\ Reading(at, s)[1] = at
        /\ \A n \in 1..(Len(m) + 1) : Reading(at, s)[n + 1] = Reading(mid, m)[n]
        /\ Reading(at, s)[Len(m) + 3] = Past(mid, w[2])
    <2>1. w[1] \in Characters /\ w[2] \in Characters /\ at \in Scan /\ mid \in Scan /\ m \in Texts
      BY <1>1, <1>2
    <2>2. Past(at, w[1]) = mid
      OBVIOUS
    <2> DEFINE o == w[1]
               c == w[2]
    <2>3. /\ o \in Characters /\ c \in Characters /\ at \in Scan /\ mid \in Scan /\ m \in Texts
          /\ Past(at, o) = mid
      BY <2>1, <2>2
    <2> HIDE DEF mid, s, o, c
    <2>4. /\ Len(Between(o, m, c)) = Len(m) + 2
          /\ Between(o, m, c)[1] = o /\ Between(o, m, c)[Len(m) + 2] = c
          /\ \A n \in 1..Len(m) : Between(o, m, c)[n + 1] = m[n]
      BY <2>3, BetweenIs
    <2>5. /\ Reading(at, Between(o, m, c))[1] = at
          /\ \A n \in 1..(Len(m) + 1) :
               Reading(at, Between(o, m, c))[n + 1] = Reading(mid, m)[n]
          /\ Reading(at, Between(o, m, c))[Len(m) + 3] = Past(mid, c)
      BY <1>3, <2>3, BetweenReading
    <2> QED
      BY <2>4, <2>5 DEF s, o, c
  <1> HIDE DEF s, mid
  <1>6. Reading(at, s)[Len(s) + 1] = at
    <2>1. Len(s) + 1 = Len(m) + 3
      BY <1>0, <1>5
    <2> QED
      BY <1>1, <1>5, <2>1
  <1>7. ASSUME NEW n \in 2..Len(s)
        PROVE  LET b == Reading(at, s)[n] IN
                 /\ b \in Scan /\ b.object >= mid.object /\ b.list >= mid.list
                 /\ s[n] = "}" => b.string \/ b.object > at.object
    <2>1. n - 1 \in 1..(Len(m) + 1) /\ (n - 1) + 1 = n
      BY <1>0, <1>5
    <2>2. Reading(at, s)[n] = Reading(mid, m)[n - 1]
      BY <1>5, <2>1
    <2>3. CASE n - 1 \in 1..Len(m)
      <3>1. s[n] = m[n - 1]
        BY <1>5, <2>1, <2>3
      <3>2. LET b == Reading(mid, m)[n - 1] IN
              /\ b \in Scan /\ b.object >= mid.object /\ b.list >= mid.list
              /\ m[n - 1] = "}" => b.string \/ b.object > mid.object
        BY <1>4, <2>3
      <3>3. LET b == Reading(mid, m)[n - 1] IN b.object > mid.object => b.object > at.object
        <4> DEFINE b == Reading(mid, m)[n - 1]
        <4>1. b.object \in Nat
          BY <3>2 DEF Scan
        <4>2. mid.object >= at.object
          BY <1>1
        <4> HIDE DEF b
        <4>3. b.object > mid.object => b.object > at.object
          BY <1>2, <4>1, <4>2
        <4> QED
          BY <4>3 DEF b
      <3> QED
        BY <2>2, <3>1, <3>2, <3>3
    <2>4. CASE n - 1 = Len(m) + 1
      <3>1. s[n] = w[2] /\ Reading(at, s)[n] = mid
        <4>1. n = Len(m) + 2
          BY <1>0, <2>1, <2>4
        <4> QED
          BY <1>3, <1>5, <2>2, <2>4, <4>1
      <3>2. mid.object >= mid.object /\ mid.list >= mid.list
        BY <1>2
      <3>3. w[2] = "}" => mid.object > at.object
        BY <1>1
      <3> QED
        BY <1>2, <3>1, <3>2, <3>3
    <2>5. n - 1 \in 1..Len(m) \/ n - 1 = Len(m) + 1
      BY <1>0, <2>1
    <2> QED
      BY <2>3, <2>4, <2>5
  <1>8. ASSUME NEW n \in 1..Len(s)
        PROVE  LET b == Reading(at, s)[n] IN
                 /\ b \in Scan /\ b.object >= at.object /\ b.list >= at.list
                 /\ s[n] = "}" => b.string \/ b.object > at.object
    <2>1. CASE n = 1
      <3>1. at.object >= at.object /\ at.list >= at.list
        BY <1>2
      <3> QED
        BY <1>1, <1>5, <2>1, <3>1
    <2>2. CASE n # 1
      <3>1. n \in 2..Len(s)
        BY <1>0, <1>5, <2>2
      <3> DEFINE b == Reading(at, s)[n]
      <3>2. /\ b \in Scan /\ b.object >= mid.object /\ b.list >= mid.list
            /\ s[n] = "}" => b.string \/ b.object > at.object
        BY <1>7, <3>1
      <3> HIDE DEF b
      <3>3. b.object \in Nat /\ b.list \in Nat
        BY <3>2 DEF Scan
      <3>4. mid.object >= at.object /\ mid.list >= at.list
        BY <1>1
      <3>5. b.object >= at.object /\ b.list >= at.list
        <4>1. b.object >= mid.object /\ b.list >= mid.list
          BY <3>2
        <4> QED
          BY <1>2, <3>3, <3>4, <4>1
      <3> QED
        BY <3>2, <3>5 DEF b
    <2> QED
      BY <2>1, <2>2
  <1>9. ASSUME NEW n \in 2..Len(s)
        PROVE  LET b == Reading(at, s)[n] IN b.object > at.object \/ b.list > at.list
    <2> DEFINE b == Reading(at, s)[n]
    <2>1. b \in Scan /\ b.object >= mid.object /\ b.list >= mid.list
      BY <1>7
    <2> HIDE DEF b
    <2>2. b.object \in Nat /\ b.list \in Nat
      BY <2>1 DEF Scan
    <2>3. mid.object > at.object \/ mid.list > at.list
      BY <1>1
    <2>4. b.object > at.object \/ b.list > at.list
      BY <1>2, <2>1, <2>2, <2>3
    <2> QED
      BY <2>4 DEF b
  <1> QED
    BY <1>6, <1>8, <1>9

-----------------------------------------------------------------------------
(* Trees and their texts.                                                  *)

(* A text of one byte.                                                     *)
LEMMA OneMark ==
  ASSUME NEW c \in Characters
  PROVE  <<c>> \in Texts /\ Len(<<c>>) = 1 /\ <<c>>[1] = c /\ (c \notin Marks => Tidy(<<c>>))
  <1>1. <<c>> \in Texts /\ Len(<<c>>) = 1 /\ <<c>>[1] = c
    BY DEF Texts
  <1>2. ASSUME c \notin Marks PROVE Tidy(<<c>>)
    <2>1. \A n \in 1..Len(<<c>>) : <<c>>[n] \notin Marks
      BY <1>1, <1>2
    <2> QED
      BY <1>1, <2>1, UnmarkedTidy
  <1> QED
    BY <1>1, <1>2

(* The comma and the colon, which no scan minds, and the empty text.       *)
LEMMA PlainMarks ==
  /\ <<",">> \in Texts /\ Len(<<",">>) = 1 /\ <<",">>[1] = "," /\ Tidy(<<",">>)
  /\ <<":">> \in Texts /\ Len(<<":">>) = 1 /\ <<":">>[1] = ":" /\ Tidy(<<":">>)
  /\ <<>> \in Texts /\ Len(<<>>) = 0 /\ Tidy(<<>>)
  <1>1. "," \in Characters /\ ":" \in Characters
    BY CharactersAssumption
  <1>2. "," \notin Marks /\ ":" \notin Marks
    BY DEF Marks, Quote
  <1>3. <<>> \in Texts /\ Len(<<>>) = 0
    BY DEF Texts
  <1>4. Tidy(<<>>)
    <2>1. \A n \in 1..Len(<<>>) : <<>>[n] \notin Marks
      BY <1>3
    <2> QED
      BY <1>3, <2>1, UnmarkedTidy
  <1>5. /\ <<",">> \in Texts /\ Len(<<",">>) = 1 /\ <<",">>[1] = "," /\ Tidy(<<",">>)
    BY <1>1, <1>2, OneMark
  <1>6. /\ <<":">> \in Texts /\ Len(<<":">>) = 1 /\ <<":">>[1] = ":" /\ Tidy(<<":">>)
    BY <1>1, <1>2, OneMark
  <1> QED
    BY <1>3, <1>4, <1>5, <1>6

(* White space is tidy.                                                    *)
LEMMA GapIs ==
  ASSUME NEW gap \in Blanks
  PROVE  /\ gap \in Texts /\ Len(gap) \in Nat /\ \A i \in 1..Len(gap) : gap[i] = " "
         /\ Tidy(gap)
  <1>2. " " \in Characters
    BY CharactersAssumption
  <1>0. Len(gap) \in Nat /\ gap \in [1..Len(gap) -> {" "}]
    BY LenProperties DEF Blanks
  <1>1. Len(gap) \in Nat /\ \A i \in 1..Len(gap) : gap[i] = " "
    <2>1. Len(gap) \in Nat
      BY <1>0
    <2>2. ASSUME NEW i \in 1..Len(gap) PROVE gap[i] = " "
      <3>1. gap[i] \in {" "}
        BY <1>0
      <3> QED
        BY <3>1
    <2> QED
      BY <2>1, <2>2
  <1>3. gap \in Texts
    <2>1. gap \in [1..Len(gap) -> Characters]
      BY <1>0, <1>1, <1>2
    <2>2. gap \in Seq(Characters)
      <3> DEFINE n == Len(gap)
      <3>1. n \in Nat /\ gap \in [1..n -> Characters]
        BY <1>0, <2>1
      <3> HIDE DEF n
      <3> QED
        BY <3>1
    <2> QED
      BY <2>2 DEF Texts
  <1>4. " " \notin Marks
    BY DEF Marks, Quote
  <1>5. Tidy(gap)
    BY <1>1, <1>3, <1>4, UnmarkedTidy
  <1> QED
    BY <1>1, <1>3, <1>5

(* Several texts one after the other.                                      *)
LEMMA Pieces ==
  ASSUME NEW x \in Texts, NEW y \in Texts
  PROVE  /\ x \o y \in Texts /\ Len(x \o y) = Len(x) + Len(y)
         /\ Len(x) \in Nat /\ Len(y) \in Nat
         /\ Loose(x) /\ Loose(y) => Loose(x \o y)
  BY ConcatProperties, LooseConcat DEF Texts

(* Four texts in a row, as a member is made of.                            *)
LEMMA FourPieces ==
  ASSUME NEW x \in Texts, NEW y \in Texts, NEW z \in Texts, NEW w \in Texts
  PROVE  /\ x \o y \o z \o w \in Texts
         /\ Len(x \o y \o z \o w) = Len(x) + Len(y) + Len(z) + Len(w)
         /\ Loose(x) /\ Loose(y) /\ Loose(z) /\ Loose(w) => Loose(x \o y \o z \o w)
  <1> DEFINE a == x \o y
             b == a \o z
  <1>1. a \in Texts /\ Len(a) = Len(x) + Len(y) /\ (Loose(x) /\ Loose(y) => Loose(a))
        /\ Len(x) \in Nat /\ Len(y) \in Nat
    BY Pieces
  <1> HIDE DEF a
  <1>2. b \in Texts /\ Len(b) = Len(a) + Len(z) /\ (Loose(a) /\ Loose(z) => Loose(b))
        /\ Len(z) \in Nat
    BY <1>1, Pieces
  <1> HIDE DEF b
  <1>3. b \o w \in Texts /\ Len(b \o w) = Len(b) + Len(w) /\ (Loose(b) /\ Loose(w) => Loose(b \o w))
        /\ Len(w) \in Nat
    BY <1>2, Pieces
  <1>4. x \o y \o z \o w = b \o w
    BY DEF a, b
  <1> QED
    BY <1>1, <1>2, <1>3, <1>4

(* Where each of four texts in a row stands.                               *)
LEMMA StandsFour ==
  ASSUME NEW data \in Texts, NEW o \in Nat,
         NEW x \in Texts, NEW y \in Texts, NEW z \in Texts, NEW w \in Texts,
         Stands(data, o, x \o y \o z \o w)
  PROVE  /\ Stands(data, o, x)
         /\ Stands(data, o + Len(x), y)
         /\ Stands(data, o + Len(x) + Len(y), z)
         /\ Stands(data, o + Len(x) + Len(y) + Len(z), w)
  <1> DEFINE a == x \o y
             b == a \o z
  <1>1. a \in Texts /\ Len(a) = Len(x) + Len(y) /\ Len(x) \in Nat /\ Len(y) \in Nat
    BY Pieces
  <1>a. Stands(data, o, b \o w)
    OBVIOUS
  <1>b. Stands(data, o, a) => Stands(data, o, x) /\ Stands(data, o + Len(x), y)
    BY StandsConcat
  <1> HIDE DEF a
  <1>2. b \in Texts /\ Len(b) = Len(a) + Len(z) /\ Len(z) \in Nat
    BY <1>1, Pieces
  <1>c. Stands(data, o, b) => Stands(data, o, a) /\ Stands(data, o + Len(a), z)
    BY <1>1, StandsConcat
  <1> HIDE DEF b
  <1>3. Stands(data, o, b) /\ Stands(data, o + Len(b), w)
    BY <1>2, <1>a, StandsConcat
  <1>4. o + Len(a) = o + Len(x) + Len(y) /\ o + Len(b) = o + Len(x) + Len(y) + Len(z)
    BY <1>1, <1>2
  <1> QED
    BY <1>3, <1>4, <1>b, <1>c

CommaLen(i) == IF i = 1 THEN 0 ELSE 1

(* Where the white space and the text of a part stand in it.               *)
LEMMA PartIs ==
  ASSUME NEW gap \in Blanks, NEW part \in Texts, NEW i \in Nat
  PROVE  /\ Part(gap, i, part) \in Texts /\ CommaLen(i) \in 0..1
         /\ Len(Part(gap, i, part)) = CommaLen(i) + Len(gap) + Len(part) + Len(gap)
         /\ Loose(part) => Loose(Part(gap, i, part))
         /\ \A data \in Texts, o \in Nat : Stands(data, o, Part(gap, i, part)) =>
              /\ i # 1 => data[o + 1] = ","
              /\ Stands(data, o + CommaLen(i), gap)
              /\ Stands(data, o + CommaLen(i) + Len(gap), part)
              /\ Stands(data, o + CommaLen(i) + Len(gap) + Len(part), gap)
  <1> DEFINE sep == IF i = 1 THEN <<>> ELSE <<",">>
  <1>1. sep \in Texts /\ Len(sep) = CommaLen(i) /\ Tidy(sep) /\ (i # 1 => sep[1] = ",")
    <2>1. CASE i = 1
      <3>1. sep = <<>> /\ CommaLen(i) = 0
        BY <2>1 DEF CommaLen
      <3> HIDE DEF sep
      <3> QED
        BY <2>1, <3>1, PlainMarks
    <2>2. CASE i # 1
      <3>1. sep = <<",">> /\ CommaLen(i) = 1
        BY <2>2 DEF CommaLen
      <3> HIDE DEF sep
      <3> QED
        BY <2>2, <3>1, PlainMarks
    <2> QED
      BY <2>1, <2>2
  <1>2. gap \in Texts /\ Tidy(gap)
    BY GapIs
  <1>3. Part(gap, i, part) = sep \o gap \o part \o gap
    BY DEF Part
  <1>4. Loose(sep) /\ Loose(gap)
    BY <1>1, <1>2 DEF Tidy
  <1> HIDE DEF sep
  <1>5. /\ sep \o gap \o part \o gap \in Texts
        /\ Len(sep \o gap \o part \o gap) = Len(sep) + Len(gap) + Len(part) + Len(gap)
        /\ Loose(part) => Loose(sep \o gap \o part \o gap)
    BY <1>1, <1>2, <1>4, FourPieces
  <1>6. ASSUME NEW data \in Texts, NEW o \in Nat, Stands(data, o, Part(gap, i, part))
        PROVE  /\ i # 1 => data[o + 1] = ","
               /\ Stands(data, o + CommaLen(i), gap)
               /\ Stands(data, o + CommaLen(i) + Len(gap), part)
               /\ Stands(data, o + CommaLen(i) + Len(gap) + Len(part), gap)
    <2>0. sep \in Texts /\ gap \in Texts /\ Stands(data, o, sep \o gap \o part \o gap)
      BY <1>1, <1>2, <1>3, <1>6
    <2>1. /\ Stands(data, o, sep)
          /\ Stands(data, o + Len(sep), gap)
          /\ Stands(data, o + Len(sep) + Len(gap), part)
          /\ Stands(data, o + Len(sep) + Len(gap) + Len(part), gap)
      BY <2>0, StandsFour
    <2>2. i # 1 => data[o + 1] = ","
      <3> SUFFICES ASSUME i # 1 PROVE data[o + 1] = ","
        OBVIOUS
      <3>0. CommaLen(i) = 1 /\ Len(sep) = CommaLen(i)
        BY <1>1 DEF CommaLen
      <3>a. 1 \in 1..Len(sep)
        BY <3>0
      <3>1. 1 \in 1..Len(sep) /\ sep[1] = ","
        BY <1>1, <3>a
      <3> QED
        BY <2>1, <3>1 DEF Stands
    <2> QED
      BY <1>1, <2>1, <2>2
  <1>7. CommaLen(i) \in 0..1
    BY DEF CommaLen
  <1> QED
    BY <1>1, <1>3, <1>5, <1>6, <1>7

(* The place of the colon and that of the value in a member.               *)
ColonIn(gap, m) == Len(Quoted(m.key)) + Len(gap) + 1
ValueIn(gap, m) == ColonIn(gap, m) + Len(gap)

(* Where key, colon and value stand in a member.                           *)
LEMMA MemberIs ==
  ASSUME NEW gap \in Blanks, NEW m, m.key \in Texts, m.value.text \in Texts
  PROVE  /\ Member(gap, m) \in Texts
         /\ Len(Member(gap, m)) = ValueIn(gap, m) + Len(m.value.text)
         /\ Loose(m.value.text) => Loose(Member(gap, m))
         /\ \A data \in Texts, o \in Nat : Stands(data, o, Member(gap, m)) =>
              /\ Stands(data, o, Quoted(m.key))
              /\ Stands(data, o + Len(Quoted(m.key)), gap)
              /\ data[o + ColonIn(gap, m)] = ":"
              /\ Stands(data, o + ColonIn(gap, m), gap)
              /\ Stands(data, o + ValueIn(gap, m), m.value.text)
  <1> DEFINE q == Quoted(m.key)
             c == <<":">>
             t == m.value.text
             f == q \o gap \o c \o gap
  <1>1. /\ q \in Texts /\ Tidy(q) /\ Len(q) \in Nat
        /\ c \in Texts /\ Tidy(c) /\ Len(c) = 1 /\ c[1] = ":"
        /\ gap \in Texts /\ Tidy(gap) /\ Len(gap) \in Nat
        /\ t \in Texts /\ Len(t) \in Nat
    <2>1. q \in Texts /\ Tidy(q) /\ Len(q) \in Nat
      BY QuotedReading, QuotedTidy
    <2>2. c \in Texts /\ Tidy(c) /\ Len(c) = 1 /\ c[1] = ":"
      BY PlainMarks
    <2>3. gap \in Texts /\ Tidy(gap) /\ Len(gap) \in Nat
      BY GapIs
    <2>4. t \in Texts /\ Len(t) \in Nat
      BY DEF Texts
    <2> QED
      BY <2>1, <2>2, <2>3, <2>4
  <1>2. Member(gap, m) = f \o t
    BY DEF Member
  <1>3. Loose(q) /\ Loose(c) /\ Loose(gap)
    BY <1>1 DEF Tidy
  <1>a. \A x : x = m.key => Quoted(x) = q
    OBVIOUS
  <1> HIDE DEF q, c, t
  <1>4. f \in Texts /\ Len(f) = Len(q) + Len(gap) + Len(c) + Len(gap) /\ Loose(f)
    <2>1. q \in Texts /\ gap \in Texts /\ c \in Texts
      BY <1>1
    <2> QED
      BY <2>1, <1>3, FourPieces
  <1>5. ASSUME NEW data \in Texts, NEW o \in Nat, Stands(data, o, f)
        PROVE  /\ Stands(data, o, q)
               /\ Stands(data, o + Len(q), gap)
               /\ Stands(data, o + Len(q) + Len(gap), c)
               /\ Stands(data, o + Len(q) + Len(gap) + Len(c), gap)
    <2>1. q \in Texts /\ gap \in Texts /\ c \in Texts
      BY <1>1
    <2> QED
      BY <2>1, <1>5, StandsFour
  <1> HIDE DEF f
  <1>6. f \o t \in Texts /\ Len(f \o t) = Len(f) + Len(t) /\ (Loose(t) => Loose(f \o t))
    BY <1>1, <1>4, Pieces
  <1>7. ColonIn(gap, m) = Len(q) + Len(gap) + 1 /\ ValueIn(gap, m) = Len(f)
    BY <1>1, <1>4 DEF ColonIn, ValueIn, q
  <1>8. ASSUME NEW data \in Texts, NEW o \in Nat, Stands(data, o, f \o t)
        PROVE  /\ Stands(data, o, q)
               /\ Stands(data, o + Len(q), gap)
               /\ data[o + ColonIn(gap, m)] = ":"
               /\ Stands(data, o + ColonIn(gap, m), gap)
               /\ Stands(data, o + ValueIn(gap, m), t)
    <2>1. Stands(data, o, f) /\ Stands(data, o + Len(f), t)
      BY <1>1, <1>4, <1>8, StandsConcat
    <2>2. /\ Stands(data, o, q)
          /\ Stands(data, o + Len(q), gap)
          /\ Stands(data, o + Len(q) + Len(gap), c)
          /\ Stands(data, o + Len(q) + Len(gap) + Len(c), gap)
      BY <1>5, <2>1
    <2>3. data[(o + Len(q) + Len(gap)) + 1] = c[1]
      <3>1. 1 \in 1..Len(c)
        BY <1>1
      <3> QED
        BY <2>2, <3>1 DEF Stands
    <2>4. /\ (o + Len(q) + Len(gap)) + 1 = o + ColonIn(gap, m)
          /\ o + Len(q) + Len(gap) + Len(c) = o + ColonIn(gap, m)
      BY <1>1, <1>7
    <2>5. data[o + ColonIn(gap, m)] = ":"
      BY <1>1, <2>3, <2>4
    <2>6. Stands(data, o + ColonIn(gap, m), gap)
      BY <2>2, <2>4
    <2>7. Stands(data, o + ValueIn(gap, m), t)
      BY <1>7, <2>1
    <2> QED
      BY <2>1, <2>2, <2>5, <2>6, <2>7
  <1>9. Len(f \o t) = ValueIn(gap, m) + Len(t)
    BY <1>6, <1>7
  <1> QED
    BY <1>2, <1>6, <1>8, <1>9 DEF q, t

-----------------------------------------------------------------------------
(* Parts one after the other, and where each of them begins.               *)

Front(parts, i) == Len(Fronts(parts)[i])

(* How much has been written after each part.                              *)
LEMMA FrontIs ==
  ASSUME NEW parts \in Seq(Texts)
  PROVE  /\ Len(parts) \in Nat /\ Front(parts, 0) = 0
         /\ \A i \in 0..Len(parts) : Front(parts, i) \in Nat
         /\ \A i \in 1..Len(parts) :
              /\ parts[i] \in Texts /\ Len(parts[i]) \in Nat
              /\ Front(parts, i) = Front(parts, i - 1) + Len(parts[i])
         /\ Len(Joined(parts)) = Front(parts, Len(parts))
  <1> DEFINE F == Fronts(parts)
             n == Len(parts)
  <1>1. /\ F \in [0..n -> Texts] /\ F[0] = <<>>
        /\ \A k \in 1..n : F[k] = F[k - 1] \o parts[k]
    BY FrontsDef
  <1>2. n \in Nat /\ \A i \in 1..n : parts[i] \in Texts
    <2>1. n \in Nat
      BY LenProperties
    <2> QED
      BY <2>1, ElementOfSeq
  <1>3. Front(parts, 0) = 0
    BY <1>1 DEF Front
  <1>4. ASSUME NEW i \in 0..n PROVE F[i] \in Texts /\ Front(parts, i) \in Nat
    <2>1. F[i] \in Texts
      BY <1>1
    <2> QED
      BY <2>1 DEF Front, Texts
  <1>5. ASSUME NEW i \in 1..n
        PROVE  Len(parts[i]) \in Nat /\ Front(parts, i) = Front(parts, i - 1) + Len(parts[i])
    <2>0. i - 1 \in 0..n
      BY <1>2
    <2>1. F[i - 1] \in Texts /\ parts[i] \in Texts
      BY <1>1, <1>2, <2>0
    <2>2. Len(F[i - 1] \o parts[i]) = Len(F[i - 1]) + Len(parts[i]) /\ Len(parts[i]) \in Nat
      BY <2>1, Pieces
    <2>3. F[i] = F[i - 1] \o parts[i]
      BY <1>1
    <2> QED
      BY <2>2, <2>3 DEF Front
  <1>6. Len(Joined(parts)) = Front(parts, n)
    BY DEF Joined, Front
  <1> QED
    BY <1>2, <1>3, <1>4, <1>5, <1>6

(* It only grows.                                                          *)
LEMMA FrontsGrow ==
  ASSUME NEW parts \in Seq(Texts), NEW i \in 0..Len(parts), NEW j \in 0..Len(parts), i <= j
  PROVE  Front(parts, i) <= Front(parts, j)
  <1> DEFINE n == Len(parts)
             Same(k) == Front(parts, i) <= Front(parts, i + k)
             P == {k \in Nat : i + k <= n => Same(k)}
  <1>1. n \in Nat /\ \A h \in 0..n : Front(parts, h) \in Nat
    BY FrontIs
  <1>2. \A h \in 1..n : Len(parts[h]) \in Nat /\ Front(parts, h) = Front(parts, h - 1) + Len(parts[h])
    BY FrontIs
  <1>3. Same(0)
    <2>1. i + 0 = i /\ Front(parts, i) \in Nat
      BY <1>1
    <2> QED
      BY <2>1
  <1>4. ASSUME NEW k \in Nat, i + (k + 1) <= n, Same(k) PROVE Same(k + 1)
    <2>1. i + (k + 1) \in 1..n /\ (i + (k + 1)) - 1 = i + k /\ i + k \in 0..n
      BY <1>1, <1>4
    <2>2. /\ Len(parts[i + (k + 1)]) \in Nat
          /\ Front(parts, i + (k + 1)) = Front(parts, i + k) + Len(parts[i + (k + 1)])
      BY <1>2, <2>1
    <2>3. Front(parts, i + k) \in Nat /\ Front(parts, i) \in Nat
      BY <1>1, <2>1
    <2> QED
      BY <1>4, <2>2, <2>3
  <1>5. P = Nat
    <2> HIDE DEF Same
    <2>1. 0 \in P
      BY <1>3
    <2>2. ASSUME NEW k \in P PROVE k + 1 \in P
      <3>1. ASSUME i + (k + 1) <= n PROVE Same(k + 1)
        <4>1. i + k <= n
          BY <1>1, <3>1
        <4>2. Same(k)
          BY <4>1
        <4> QED
          BY <1>4, <3>1, <4>2
      <3> QED
        BY <3>1
    <2> HIDE DEF P
    <2>3. P \in SUBSET Nat
      BY DEF P
    <2> QED
      BY <2>1, <2>2, <2>3, Induct
  <1>6. Same(j - i)
    <2> HIDE DEF Same
    <2>1. j - i \in Nat /\ i + (j - i) <= n
      BY <1>1
    <2> QED
      BY <1>5, <2>1
  <1>7. i + (j - i) = j
    BY <1>1
  <1> QED
    BY <1>6, <1>7

(* Each part stands after those before it.                                 *)
LEMMA JoinedStands ==
  ASSUME NEW data \in Texts, NEW o \in Nat, NEW parts \in Seq(Texts),
         Stands(data, o, Joined(parts)), NEW i \in 1..Len(parts)
  PROVE  Stands(data, o + Front(parts, i - 1), parts[i])
  <1> DEFINE F == Fronts(parts)
             n == Len(parts)
             Same(k) == Stands(data, o, F[n - k])
             P == {k \in Nat : k <= n => Same(k)}
  <1>1. /\ F \in [0..n -> Texts]
        /\ \A k \in 1..n : F[k] = F[k - 1] \o parts[k]
    BY FrontsDef
  <1>2. n \in Nat /\ \A h \in 1..n : parts[h] \in Texts
    BY FrontIs
  <1>3. Same(0)
    BY <1>2 DEF Joined
  <1>a. ASSUME NEW h \in 1..n, Stands(data, o, F[h])
        PROVE  Stands(data, o, F[h - 1]) /\ Stands(data, o + Front(parts, h - 1), parts[h])
    <2>1. h - 1 \in 0..n
      BY <1>2
    <2>2. F[h - 1] \in Texts /\ parts[h] \in Texts /\ Stands(data, o, F[h - 1] \o parts[h])
      BY <1>1, <1>2, <1>a, <2>1
    <2> QED
      BY <2>2, StandsConcat DEF Front
  <1>4. ASSUME NEW k \in Nat, k + 1 <= n, Same(k) PROVE Same(k + 1)
    <2>1. n - k \in 1..n /\ (n - k) - 1 = n - (k + 1)
      BY <1>2, <1>4
    <2> QED
      BY <1>4, <1>a, <2>1
  <1>5. P = Nat
    <2> HIDE DEF Same
    <2>1. 0 \in P
      BY <1>3
    <2>2. ASSUME NEW k \in P PROVE k + 1 \in P
      <3>1. ASSUME k + 1 <= n PROVE Same(k + 1)
        <4>1. k <= n
          BY <1>2, <3>1
        <4>2. Same(k)
          BY <4>1
        <4> QED
          BY <1>4, <3>1, <4>2
      <3> QED
        BY <3>1
    <2> HIDE DEF P
    <2>3. P \in SUBSET Nat
      BY DEF P
    <2> QED
      BY <2>1, <2>2, <2>3, Induct
  <1>6. Same(n - i)
    <2> HIDE DEF Same
    <2>1. n - i \in Nat /\ n - i <= n
      BY <1>2
    <2> QED
      BY <1>5, <2>1
  <1>7. n - (n - i) = i
    BY <1>2
  <1>8. Stands(data, o, F[i])
    BY <1>6, <1>7
  <1> QED
    BY <1>8, <1>a

(* Every place in the whole is in one of the parts.                        *)
LEMMA InSomePart ==
  ASSUME NEW parts \in Seq(Texts), NEW p \in 1..Len(Joined(parts))
  PROVE  \E i \in 1..Len(parts) : \E m \in 1..Len(parts[i]) : p = Front(parts, i - 1) + m
  <1> DEFINE n == Len(parts)
             Place == \E i \in 1..n : \E m \in 1..Len(parts[i]) : p = Front(parts, i - 1) + m
             Same(k) == p <= Front(parts, k) => Place
             P == {k \in Nat : k <= n => Same(k)}
  <1>1. /\ n \in Nat /\ Front(parts, 0) = 0 /\ Len(Joined(parts)) = Front(parts, n)
        /\ \A h \in 0..n : Front(parts, h) \in Nat
    BY FrontIs
  <1>2. \A h \in 1..n : Len(parts[h]) \in Nat /\ Front(parts, h) = Front(parts, h - 1) + Len(parts[h])
    BY FrontIs
  <1>p. p \in Nat /\ p >= 1 /\ p <= Front(parts, n)
    <2>1. Front(parts, n) \in Nat
      BY <1>1
    <2> QED
      BY <1>1, <2>1
  <1>3. Same(0)
    BY <1>1, <1>p
  <1>4. ASSUME NEW k \in Nat, k + 1 <= n, Same(k) PROVE Same(k + 1)
    <2> SUFFICES ASSUME p <= Front(parts, k + 1) PROVE Place
      OBVIOUS
    <2>1. k + 1 \in 1..n /\ (k + 1) - 1 = k /\ k \in 0..n
      BY <1>1, <1>4
    <2>2. /\ Len(parts[k + 1]) \in Nat /\ Front(parts, k) \in Nat
          /\ Front(parts, k + 1) = Front(parts, k) + Len(parts[k + 1])
      BY <1>1, <1>2, <2>1
    <2>3. CASE p <= Front(parts, k)
      BY <1>4, <2>3
    <2>4. CASE p > Front(parts, k)
      <3>1. p - Front(parts, k) \in 1..Len(parts[k + 1]) /\ p = Front(parts, k) + (p - Front(parts, k))
        BY <1>p, <2>2, <2>4
      <3>2. p = Front(parts, (k + 1) - 1) + (p - Front(parts, k))
        BY <2>1, <3>1
      <3> QED
        BY <2>1, <3>1, <3>2
    <2> QED
      BY <1>p, <2>2, <2>3, <2>4
  <1>5. P = Nat
    <2> HIDE DEF Same
    <2>1. 0 \in P
      BY <1>3
    <2>2. ASSUME NEW k \in P PROVE k + 1 \in P
      <3>1. ASSUME k + 1 <= n PROVE Same(k + 1)
        <4>1. k <= n
          BY <1>1, <3>1
        <4>2. Same(k)
          BY <4>1
        <4> QED
          BY <1>4, <3>1, <4>2
      <3> QED
        BY <3>1
    <2> HIDE DEF P
    <2>3. P \in SUBSET Nat
      BY DEF P
    <2> QED
      BY <2>1, <2>2, <2>3, Induct
  <1>6. Same(n)
    <2> HIDE DEF Same
    <2> QED
      BY <1>1, <1>5
  <1> QED
    BY <1>p, <1>6

-----------------------------------------------------------------------------
(* The parts of a list and of an object.                                   *)

(* What ValuesAssumption says of one tree.                                 *)
LEMMA ValueIs ==
  ASSUME NEW v \in Values
  PROVE  /\ v.text \in Texts /\ Len(v.text) \in Nat
         /\ IsText(v) \/ IsNumber(v) \/ IsTrue(v) \/ IsListOf(v, Values) \/ IsObjectOf(v, Values)
  <1>1. /\ v.text \in Texts
        /\ IsText(v) \/ IsNumber(v) \/ IsTrue(v) \/ IsListOf(v, Values) \/ IsObjectOf(v, Values)
    BY ValuesAssumption DEF AreTrees
  <1>2. Len(v.text) \in Nat
    BY <1>1 DEF Texts
  <1> QED
    BY <1>1, <1>2

(* The texts of parts, whatever their parts are.                           *)
PartsOf(parts, gap, inner) ==
  /\ parts \in Seq(Texts) /\ gap \in Blanks /\ Len(inner) = Len(parts)
  /\ \A i \in 1..Len(parts) : inner[i] \in Texts /\ parts[i] = Part(gap, i, inner[i])

(* Parts of loose texts, with what is between them, are loose.             *)
LEMMA PartsLoose ==
  ASSUME NEW parts, NEW gap, NEW inner, PartsOf(parts, gap, inner),
         \A i \in 1..Len(parts) : Loose(inner[i])
  PROVE  Joined(parts) \o gap \in Texts /\ Loose(Joined(parts) \o gap)
  <1>1. parts \in Seq(Texts) /\ gap \in Blanks /\ Len(parts) \in Nat
    BY LenProperties DEF PartsOf
  <1>2. ASSUME NEW i \in 1..Len(parts) PROVE Loose(parts[i])
    <2>1. inner[i] \in Texts /\ parts[i] = Part(gap, i, inner[i]) /\ Loose(inner[i])
      BY <1>2 DEF PartsOf
    <2>2. i \in Nat
      BY <1>1
    <2> QED
      BY <1>1, <2>1, <2>2, PartIs
  <1>3. Joined(parts) \in Texts /\ Loose(Joined(parts))
    BY <1>1, <1>2, JoinedLoose, FrontsDef
  <1>4. gap \in Texts /\ Loose(gap)
    BY <1>1, GapIs DEF Tidy
  <1> QED
    BY <1>3, <1>4, Pieces

(* The whole is as long as its parts, and longer than what is in each.     *)
LEMMA PartsLength ==
  ASSUME NEW parts, NEW gap, NEW inner, PartsOf(parts, gap, inner)
  PROVE  /\ Joined(parts) \o gap \in Texts /\ Len(gap) \in Nat
         /\ Len(Joined(parts) \o gap) = Front(parts, Len(parts)) + Len(gap)
         /\ Front(parts, Len(parts)) \in Nat
         /\ \A i \in 1..Len(parts) :
              Len(inner[i]) \in Nat /\ Len(inner[i]) <= Len(Joined(parts) \o gap)
  <1>1. parts \in Seq(Texts) /\ gap \in Blanks
    BY DEF PartsOf
  <1>2. /\ Len(parts) \in Nat /\ Len(Joined(parts)) = Front(parts, Len(parts))
        /\ \A i \in 0..Len(parts) : Front(parts, i) \in Nat
        /\ \A i \in 1..Len(parts) :
              /\ Len(parts[i]) \in Nat
              /\ Front(parts, i) = Front(parts, i - 1) + Len(parts[i])
    BY <1>1, FrontIs
  <1>3. Joined(parts) \in Texts /\ gap \in Texts
    BY <1>1, FrontsDef, GapIs
  <1>4. /\ Joined(parts) \o gap \in Texts /\ Len(gap) \in Nat
        /\ Len(Joined(parts) \o gap) = Len(Joined(parts)) + Len(gap)
    BY <1>3, Pieces
  <1>5. Front(parts, Len(parts)) \in Nat
    BY <1>2
  <1>6. ASSUME NEW i \in 1..Len(parts)
        PROVE  Len(inner[i]) \in Nat /\ Len(inner[i]) <= Len(Joined(parts) \o gap)
    <2>1. inner[i] \in Texts /\ parts[i] = Part(gap, i, inner[i]) /\ i \in Nat
      BY <1>2 DEF PartsOf
    <2>2. Len(parts[i]) = CommaLen(i) + Len(gap) + Len(inner[i]) + Len(gap) /\ CommaLen(i) \in 0..1
      BY <1>1, <2>1, PartIs
    <2>3. Len(inner[i]) \in Nat
      BY <2>1 DEF Texts
    <2>4. i - 1 \in 0..Len(parts) /\ i \in 0..Len(parts) /\ i <= Len(parts)
          /\ Len(parts) \in 0..Len(parts)
      BY <1>2
    <2>5. Front(parts, i - 1) \in Nat /\ Front(parts, i) <= Front(parts, Len(parts))
      BY <1>1, <1>2, <2>4, FrontsGrow
    <2>6. Front(parts, i) = Front(parts, i - 1) + Len(parts[i])
      BY <1>2
    <2> HIDE DEF CommaLen
    <2>7. Len(inner[i]) <= Len(parts[i]) /\ Len(parts[i]) \in Nat
      BY <1>2, <1>4, <2>2, <2>3
    <2>8. Len(parts[i]) <= Front(parts, Len(parts))
      BY <1>5, <2>5, <2>6, <2>7
    <2> QED
      BY <1>2, <1>4, <1>5, <2>3, <2>7, <2>8
  <1> QED
    BY <1>2, <1>4, <1>5, <1>6

ItemTexts(v) == [i \in 1..Len(v.items) |-> v.items[i].text]
MemberTexts(v) == [i \in 1..Len(v.members) |-> Member(v.gap, v.members[i])]

(* The parts of a list.                                                    *)
LEMMA ListParts ==
  ASSUME NEW v, IsListOf(v, Values)
  PROVE  /\ PartsOf(ItemParts(v), v.gap, ItemTexts(v)) /\ Len(v.items) \in Nat
         /\ Len(ItemParts(v)) = Len(v.items)
         /\ \A i \in 1..Len(v.items) :
              v.items[i] \in Values /\ ItemTexts(v)[i] = v.items[i].text
         /\ Items(v) = Joined(ItemParts(v)) \o v.gap
         /\ v.text = Between("[", Items(v), "]") /\ v.gap \in Blanks
  <1> DEFINE n == Len(v.items)
  <1>1. v.gap \in Blanks /\ v.items \in Seq(Values) /\ n \in Nat
    BY LenProperties DEF IsListOf
  <1>2. \A i \in 1..n : v.items[i] \in Values
    BY <1>1, ElementOfSeq
  <1>3. \A i \in 1..n : v.items[i].text \in Texts
    BY <1>2, ValueIs
  <1>4. /\ ItemParts(v) = [i \in 1..n |-> Part(v.gap, i, v.items[i].text)]
        /\ ItemTexts(v) = [i \in 1..n |-> v.items[i].text]
    BY DEF ItemParts, ItemTexts
  <1>5. \A i \in 1..n : Part(v.gap, i, v.items[i].text) \in Texts
    <2> TAKE i \in 1..n
    <2>1. i \in Nat /\ v.items[i].text \in Texts
      BY <1>1, <1>3
    <2> QED
      BY <1>1, <2>1, PartIs
  <1>6. /\ ItemParts(v) \in Seq(Texts) /\ Len(ItemParts(v)) = n /\ Len(ItemTexts(v)) = n
        /\ \A i \in 1..n : ItemParts(v)[i] = Part(v.gap, i, v.items[i].text)
        /\ \A i \in 1..n : ItemTexts(v)[i] = v.items[i].text
    BY <1>1, <1>4, <1>5
  <1>7. PartsOf(ItemParts(v), v.gap, ItemTexts(v))
    BY <1>1, <1>3, <1>6 DEF PartsOf
  <1>8. v.text = Between("[", Items(v), "]")
    BY DEF IsListOf, Between
  <1>9. Items(v) = Joined(ItemParts(v)) \o v.gap
    BY DEF Items
  <1> QED
    BY <1>1, <1>2, <1>6, <1>7, <1>8, <1>9

(* The parts of an object.                                                 *)
LEMMA ObjectParts ==
  ASSUME NEW v, IsObjectOf(v, Values)
  PROVE  /\ PartsOf(MemberParts(v), v.gap, MemberTexts(v)) /\ Len(v.members) \in Nat
         /\ Len(MemberParts(v)) = Len(v.members)
         /\ \A i \in 1..Len(v.members) :
              /\ v.members[i].key \in Texts /\ v.members[i].value \in Values
              /\ v.members[i].value.text \in Texts
              /\ MemberTexts(v)[i] = Member(v.gap, v.members[i])
         /\ Members(v) = Joined(MemberParts(v)) \o v.gap
         /\ v.text = Between("{", Members(v), "}") /\ v.gap \in Blanks
  <1> DEFINE n == Len(v.members)
             M == [key : Texts, value : Values]
  <1>1. v.gap \in Blanks /\ v.members \in Seq(M) /\ n \in Nat
    BY LenProperties DEF IsObjectOf
  <1>2. \A i \in 1..n : v.members[i] \in M
    BY <1>1, ElementOfSeq
  <1>3. \A i \in 1..n : v.members[i].key \in Texts /\ v.members[i].value \in Values
    BY <1>2
  <1>a. \A i \in 1..n : v.members[i].value.text \in Texts
    BY <1>3, ValueIs
  <1>b. \A i \in 1..n : Member(v.gap, v.members[i]) \in Texts
    BY <1>1, <1>3, <1>a, MemberIs
  <1>4. /\ MemberParts(v) = [i \in 1..n |-> Part(v.gap, i, Member(v.gap, v.members[i]))]
        /\ MemberTexts(v) = [i \in 1..n |-> Member(v.gap, v.members[i])]
    BY DEF MemberParts, MemberTexts
  <1>5. \A i \in 1..n : Part(v.gap, i, Member(v.gap, v.members[i])) \in Texts
    <2> TAKE i \in 1..n
    <2>1. i \in Nat /\ Member(v.gap, v.members[i]) \in Texts
      BY <1>1, <1>b
    <2> QED
      BY <1>1, <2>1, PartIs
  <1>6. /\ MemberParts(v) \in Seq(Texts) /\ Len(MemberParts(v)) = n /\ Len(MemberTexts(v)) = n
        /\ \A i \in 1..n : MemberParts(v)[i] = Part(v.gap, i, Member(v.gap, v.members[i]))
        /\ \A i \in 1..n : MemberTexts(v)[i] = Member(v.gap, v.members[i])
    BY <1>1, <1>4, <1>5
  <1>7. PartsOf(MemberParts(v), v.gap, MemberTexts(v))
    BY <1>1, <1>b, <1>6 DEF PartsOf
  <1>8. v.text = Between("{", Members(v), "}")
    BY DEF IsObjectOf, Between
  <1>9. Members(v) = Joined(MemberParts(v)) \o v.gap
    BY DEF Members
  <1> QED
    BY <1>1, <1>3, <1>a, <1>6, <1>7, <1>8, <1>9

(* Every tree's text is tidy, and so is what is inside it.                 *)
LEMMA PlainTidy ==
  ASSUME NEW v \in Values, IsText(v) \/ IsNumber(v) \/ IsTrue(v)
  PROVE  Tidy(v.text)
  <1>0. v.text \in Texts
    BY ValueIs
  <1>1. CASE IsText(v)
    <2>1. v.bytes \in Texts /\ v.text = Quoted(v.bytes)
      BY <1>1 DEF IsText
    <2> QED
      BY <2>1, QuotedTidy
  <1>2. CASE IsNumber(v)
    <2>1. v.text \in Seq(DOMAIN Digit)
      BY <1>2 DEF IsNumber
    <2>2. \A n \in 1..Len(v.text) : v.text[n] \in DOMAIN Digit
      BY <2>1, ElementOfSeq
    <2>3. \A c \in DOMAIN Digit : c \notin Marks
      BY DEF Digit, Marks, Quote
    <2>4. \A n \in 1..Len(v.text) : v.text[n] \notin Marks
      BY <2>2, <2>3
    <2> QED
      BY <1>0, <2>4, UnmarkedTidy
  <1>3. CASE IsTrue(v)
    <2>1. v.text = <<"t", "r", "u", "e">>
      BY <1>3 DEF IsTrue
    <2>2. \A n \in 1..Len(v.text) : v.text[n] \in {"t", "r", "u", "e"}
      BY <2>1
    <2>3. \A c \in {"t", "r", "u", "e"} : c \notin Marks
      BY DEF Marks, Quote
    <2>4. \A n \in 1..Len(v.text) : v.text[n] \notin Marks
      BY <2>2, <2>3
    <2> QED
      BY <1>0, <2>4, UnmarkedTidy
  <1> QED
    BY <1>1, <1>2, <1>3

(* What is between the brackets of a list is loose, and the list tidy, if
   its items are loose.                                                    *)
LEMMA ListInner ==
  ASSUME NEW v, IsListOf(v, Values),
         \A i \in 1..Len(v.items) : Loose(v.items[i].text)
  PROVE  Items(v) \in Texts /\ Loose(Items(v)) /\ Tidy(v.text)
  <1>1. /\ PartsOf(ItemParts(v), v.gap, ItemTexts(v))
        /\ Len(ItemParts(v)) = Len(v.items)
        /\ \A i \in 1..Len(v.items) : ItemTexts(v)[i] = v.items[i].text
        /\ Items(v) = Joined(ItemParts(v)) \o v.gap
        /\ v.text = Between("[", Items(v), "]")
    BY ListParts
  <1>2. \A i \in 1..Len(ItemParts(v)) : Loose(ItemTexts(v)[i])
    BY <1>1
  <1>3. Items(v) \in Texts /\ Loose(Items(v))
    BY <1>1, <1>2, PartsLoose
  <1>4. Tidy(v.text)
    <2> DEFINE w == <<"[", "]">>
    <2>1. w \in Wrappers /\ w[1] = "[" /\ w[2] = "]"
      BY DEF Wrappers
    <2> HIDE DEF w
    <2>2. Tidy(Between(w[1], Items(v), w[2]))
      BY <1>3, <2>1, WrapTidy
    <2> QED
      BY <1>1, <2>1, <2>2
  <1> QED
    BY <1>3, <1>4

(* The same for the braces and the values of an object.                    *)
LEMMA ObjectInner ==
  ASSUME NEW v, IsObjectOf(v, Values),
         \A i \in 1..Len(v.members) : Loose(v.members[i].value.text)
  PROVE  Members(v) \in Texts /\ Loose(Members(v)) /\ Tidy(v.text)
  <1>1. /\ PartsOf(MemberParts(v), v.gap, MemberTexts(v)) /\ v.gap \in Blanks
        /\ Len(MemberParts(v)) = Len(v.members)
        /\ \A i \in 1..Len(v.members) :
              /\ v.members[i].key \in Texts /\ v.members[i].value.text \in Texts
              /\ MemberTexts(v)[i] = Member(v.gap, v.members[i])
        /\ Members(v) = Joined(MemberParts(v)) \o v.gap
        /\ v.text = Between("{", Members(v), "}")
    BY ObjectParts
  <1>2. ASSUME NEW i \in 1..Len(MemberParts(v)) PROVE Loose(MemberTexts(v)[i])
    <2>1. /\ v.members[i].key \in Texts /\ v.members[i].value.text \in Texts
          /\ MemberTexts(v)[i] = Member(v.gap, v.members[i]) /\ Loose(v.members[i].value.text)
      BY <1>1
    <2> QED
      BY <1>1, <2>1, MemberIs
  <1>3. Members(v) \in Texts /\ Loose(Members(v))
    BY <1>1, <1>2, PartsLoose
  <1>4. Tidy(v.text)
    <2> DEFINE w == <<"{", "}">>
    <2>1. w \in Wrappers /\ w[1] = "{" /\ w[2] = "}"
      BY DEF Wrappers
    <2> HIDE DEF w
    <2>2. Tidy(Between(w[1], Members(v), w[2]))
      BY <1>3, <2>1, WrapTidy
    <2> QED
      BY <1>1, <2>1, <2>2
  <1> QED
    BY <1>3, <1>4

(* An item is shorter than its list ...                                    *)
LEMMA ListShorter ==
  ASSUME NEW v, IsListOf(v, Values), NEW i \in 1..Len(v.items)
  PROVE  /\ v.items[i] \in Values /\ Len(v.items[i].text) \in Nat
         /\ Len(v.text) \in Nat /\ Len(v.items[i].text) + 2 <= Len(v.text)
  <1>1. /\ PartsOf(ItemParts(v), v.gap, ItemTexts(v))
        /\ Len(ItemParts(v)) = Len(v.items)
        /\ \A h \in 1..Len(v.items) : v.items[h] \in Values /\ ItemTexts(v)[h] = v.items[h].text
        /\ Items(v) = Joined(ItemParts(v)) \o v.gap
        /\ v.text = Between("[", Items(v), "]")
    BY ListParts
  <1>2. Items(v) \in Texts /\ Len(v.items[i].text) \in Nat /\ Len(v.items[i].text) <= Len(Items(v))
    <2>1. /\ Items(v) \in Texts
          /\ \A h \in 1..Len(v.items) :
               Len(ItemTexts(v)[h]) \in Nat /\ Len(ItemTexts(v)[h]) <= Len(Items(v))
      BY <1>1, PartsLength
    <2>2. ItemTexts(v)[i] = v.items[i].text
      BY <1>1
    <2> QED
      BY <2>1, <2>2
  <1>3. Len(v.text) = Len(Items(v)) + 2
    <2>1. "[" \in Characters /\ "]" \in Characters /\ Items(v) \in Texts
      BY <1>2, CharactersAssumption
    <2>2. Len(Between("[", Items(v), "]")) = Len(Items(v)) + 2
      BY <2>1, BetweenIs
    <2> QED
      BY <1>1, <2>2
  <1>4. Len(Items(v)) \in Nat
    BY <1>2 DEF Texts
  <1>5. v.items[i] \in Values
    BY <1>1
  <1> QED
    BY <1>2, <1>3, <1>4, <1>5

(* Where the colon and the value of a member are, as numbers.              *)
LEMMA MemberPlaces ==
  ASSUME NEW gap \in Blanks, NEW m, m.key \in Texts
  PROVE  /\ Len(gap) \in Nat /\ Len(Quoted(m.key)) \in Nat
         /\ ColonIn(gap, m) \in Nat /\ ColonIn(gap, m) = Len(Quoted(m.key)) + Len(gap) + 1
         /\ ValueIn(gap, m) \in Nat /\ ValueIn(gap, m) = ColonIn(gap, m) + Len(gap)
  <1> DEFINE q == Len(Quoted(m.key))
             g == Len(gap)
             c == ColonIn(gap, m)
             p == ValueIn(gap, m)
  <1>1. q \in Nat /\ g \in Nat
    BY QuotedReading, GapIs
  <1>2. c = q + g + 1 /\ p = c + g
    BY DEF ColonIn, ValueIn
  <1> HIDE DEF q, g, c, p
  <1>3. c \in Nat
    BY <1>1, <1>2
  <1>4. p \in Nat
    BY <1>1, <1>2, <1>3
  <1> QED
    BY <1>1, <1>2, <1>3, <1>4 DEF q, g, c, p

(* ... and a value shorter than its object, so induction on length reaches
   every part.                                                             *)
LEMMA ObjectShorter ==
  ASSUME NEW v, IsObjectOf(v, Values), NEW i \in 1..Len(v.members)
  PROVE  /\ v.members[i].value \in Values /\ Len(v.members[i].value.text) \in Nat
         /\ Len(v.text) \in Nat /\ Len(v.members[i].value.text) + 2 <= Len(v.text)
  <1>1. /\ PartsOf(MemberParts(v), v.gap, MemberTexts(v)) /\ v.gap \in Blanks
        /\ Len(MemberParts(v)) = Len(v.members)
        /\ \A h \in 1..Len(v.members) :
              /\ v.members[h].key \in Texts /\ v.members[h].value \in Values
              /\ v.members[h].value.text \in Texts
              /\ MemberTexts(v)[h] = Member(v.gap, v.members[h])
        /\ Members(v) = Joined(MemberParts(v)) \o v.gap
        /\ v.text = Between("{", Members(v), "}")
    BY ObjectParts
  <1> DEFINE m == v.members[i]
  <1>a. /\ m.key \in Texts /\ m.value \in Values /\ m.value.text \in Texts
        /\ MemberTexts(v)[i] = Member(v.gap, m)
    BY <1>1
  <1>b. Members(v) \in Texts /\ Len(MemberTexts(v)[i]) \in Nat /\ Len(MemberTexts(v)[i]) <= Len(Members(v))
    BY <1>1, PartsLength
  <1>3. Len(v.text) = Len(Members(v)) + 2
    <2>1. "{" \in Characters /\ "}" \in Characters /\ Members(v) \in Texts
      BY <1>b, CharactersAssumption
    <2>2. Len(Between("{", Members(v), "}")) = Len(Members(v)) + 2
      BY <2>1, BetweenIs
    <2> QED
      BY <1>1, <2>2
  <1>4. Len(Members(v)) \in Nat /\ Len(m.value.text) \in Nat /\ Len(v.gap) \in Nat
        /\ Len(Quoted(m.key)) \in Nat
    <2>1. Len(Members(v)) \in Nat
      BY <1>b DEF Texts
    <2>2. Len(m.value.text) \in Nat
      BY <1>a DEF Texts
    <2>3. Len(v.gap) \in Nat
      BY <1>1, GapIs
    <2>4. Len(Quoted(m.key)) \in Nat
      BY <1>a, QuotedReading
    <2> QED
      BY <2>1, <2>2, <2>3, <2>4
  <1>5. Len(Member(v.gap, m)) = ValueIn(v.gap, m) + Len(m.value.text)
    BY <1>1, <1>a, MemberIs
  <1> HIDE DEF m
  <1>6. ValueIn(v.gap, m) \in Nat
    BY <1>1, <1>a, MemberPlaces
  <1>7. Len(m.value.text) + 2 <= Len(v.text) /\ Len(v.text) \in Nat
    BY <1>a, <1>b, <1>3, <1>4, <1>5, <1>6
  <1> QED
    BY <1>a, <1>4, <1>7 DEF m

(* Every tree, as it is written, is tidy: by induction on the length of its
   text.                                                                   *)
LEMMA WrittenTidy ==
  ASSUME NEW v \in Values
  PROVE  Tidy(v.text)
  <1> DEFINE Fine(u) == Tidy(u.text)
             Same(k) == \A u \in Values : Len(u.text) <= k => Fine(u)
             P == {k \in Nat : Same(k)}
  <1>1. ASSUME NEW k \in Nat, \A u \in Values : Len(u.text) + 2 <= k => Fine(u),
               NEW u \in Values, Len(u.text) <= k
        PROVE  Fine(u)
    <2>1. CASE IsText(u) \/ IsNumber(u) \/ IsTrue(u)
      BY <2>1, PlainTidy
    <2>2. CASE IsListOf(u, Values)
      <3>1. ASSUME NEW i \in 1..Len(u.items) PROVE Loose(u.items[i].text)
        <4> DEFINE x == u.items[i]
        <4>1. x \in Values /\ Len(x.text) \in Nat /\ Len(u.text) \in Nat
              /\ Len(x.text) + 2 <= Len(u.text)
          BY <2>2, ListShorter
        <4>2. Len(x.text) + 2 <= k
          BY <1>1, <4>1
        <4> HIDE DEF x
        <4>3. Fine(x)
          BY <1>1, <4>1, <4>2
        <4> QED
          BY <4>3 DEF Tidy, x
      <3> QED
        BY <2>2, <3>1, ListInner
    <2>3. CASE IsObjectOf(u, Values)
      <3>1. ASSUME NEW i \in 1..Len(u.members) PROVE Loose(u.members[i].value.text)
        <4> DEFINE x == u.members[i].value
        <4>1. x \in Values /\ Len(x.text) \in Nat /\ Len(u.text) \in Nat
              /\ Len(x.text) + 2 <= Len(u.text)
          BY <2>3, ObjectShorter
        <4>2. Len(x.text) + 2 <= k
          BY <1>1, <4>1
        <4> HIDE DEF x
        <4>3. Fine(x)
          BY <1>1, <4>1, <4>2
        <4> QED
          BY <4>3 DEF Tidy, x
      <3> QED
        BY <2>3, <3>1, ObjectInner
    <2> QED
      BY <2>1, <2>2, <2>3, ValueIs
  <1>2. P = Nat
    <2> HIDE DEF Fine
    <2>1. 0 \in P
      <3>1. \A u \in Values : Len(u.text) \in Nat
        BY ValueIs
      <3>2. \A u \in Values : Len(u.text) + 2 <= 0 => Fine(u)
        BY <3>1
      <3>3. Same(0)
        BY <1>1, <3>2
      <3> QED
        BY <3>3
    <2>2. ASSUME NEW k \in P PROVE k + 1 \in P
      <3>1. Same(k) /\ k \in Nat /\ k + 1 \in Nat
        OBVIOUS
      <3>2. \A u \in Values : Len(u.text) \in Nat
        BY ValueIs
      <3>3. \A u \in Values : Len(u.text) + 2 <= k + 1 => Fine(u)
        <4> TAKE u \in Values
        <4>1. Len(u.text) + 2 <= k + 1 => Len(u.text) <= k
          BY <3>1, <3>2
        <4> QED
          BY <3>1, <4>1
      <3>4. Same(k + 1)
        BY <1>1, <3>1, <3>3
      <3> QED
        BY <3>1, <3>4
    <2> HIDE DEF P
    <2>3. P \in SUBSET Nat
      BY DEF P
    <2> QED
      BY <2>1, <2>2, <2>3, Induct
  <1>3. Len(v.text) \in Nat /\ Len(v.text) <= Len(v.text)
    BY ValueIs
  <1>4. Same(Len(v.text))
    BY <1>2, <1>3
  <1> HIDE DEF P
  <1> QED
    BY <1>3, <1>4

-----------------------------------------------------------------------------
(* White space.                                                            *)

Blank == " "

(* The blank is none of the marks.                                         *)
LEMMA BlankIs ==
  /\ Blank \in Characters /\ Blank # Quote /\ Blank # ":" /\ Blank # "," /\ Blank # "}"
  /\ Blank # "]" /\ Blank # "{" /\ Blank # "[" /\ Blank # "t" /\ Blank \notin DOMAIN Digit
  /\ \A data, p : SkipWs(data, p) =
       Min({x \in p..(Len(data) + 1) : x > Len(data) \/ data[x] # Blank})
  <1>1. Blank \in Characters
    BY CharactersAssumption DEF Blank
  <1>2. /\ Blank # Quote /\ Blank # ":" /\ Blank # "," /\ Blank # "}" /\ Blank # "]"
        /\ Blank # "{" /\ Blank # "[" /\ Blank # "t" /\ Blank \notin DOMAIN Digit
    BY DEF Blank, Quote, Digit
  <1>3. \A data, p : SkipWs(data, p) =
          Min({x \in p..(Len(data) + 1) : x > Len(data) \/ data[x] # Blank})
    BY DEF SkipWs, Blank
  <1> QED
    BY <1>1, <1>2, <1>3

(* White space is blanks.                                                  *)
LEMMA GapBlank ==
  ASSUME NEW gap \in Blanks, NEW i \in 1..Len(gap)
  PROVE  gap[i] = Blank
  BY GapIs DEF Blank

(* The length of a text.                                                   *)
LEMMA LengthNat ==
  ASSUME NEW s \in Texts
  PROVE  Len(s) \in Nat
  BY DEF Texts

(* What is between two marks is no empty text with them.                   *)
LEMMA ObjectLong ==
  ASSUME NEW s \in Texts, NEW n, n = Len(s) + 2
  PROVE  n >= 1
  BY LengthNat

(* SkipWs stops at the first byte that is no blank.                        *)
LEMMA SkipsTo ==
  ASSUME NEW data \in Texts, NEW p \in Nat, NEW q \in Nat, p <= q, q <= Len(data) + 1,
         \A i \in p..(q - 1) : data[i] = Blank, q > Len(data) \/ data[q] # Blank
  PROVE  SkipWs(data, p) = q
  <1> DEFINE S == {x \in p..(Len(data) + 1) : x > Len(data) \/ data[x] # Blank}
  <1>0. Len(data) \in Nat
    BY DEF Texts
  <1>1. q \in S
    BY <1>0
  <1>2. \A x \in S : q <= x
    <2> SUFFICES ASSUME NEW x \in S, x < q PROVE FALSE
      BY <1>0
    <2>1. x \in p..(q - 1) /\ x <= Len(data)
      BY <1>0
    <2>2. data[x] = Blank /\ ~(x > Len(data))
      BY <1>0, <2>1
    <2> QED
      BY <2>2
  <1>3. S \in SUBSET Int
    BY <1>0
  <1>4. SkipWs(data, p) = Min(S)
    BY BlankIs
  <1> HIDE DEF S
  <1> QED
    BY <1>1, <1>2, <1>3, <1>4, MinIs

(* Where white space stands, SkipWs goes to its end, if no more follows.   *)
LEMMA SkipsGap ==
  ASSUME NEW data \in Texts, NEW o \in Nat, NEW gap \in Blanks, Stands(data, o, gap),
         o + Len(gap) + 1 > Len(data) \/ data[o + Len(gap) + 1] # Blank
  PROVE  SkipWs(data, o + 1) = o + Len(gap) + 1
  <1> DEFINE q == o + Len(gap) + 1
  <1>1. Len(data) \in Nat /\ Len(gap) \in Nat /\ \A i \in 1..Len(gap) : gap[i] = Blank
    <2>1. Len(data) \in Nat
      BY LengthNat
    <2>2. Len(gap) \in Nat
      BY GapIs
    <2> QED
      BY <2>1, <2>2, GapBlank
  <1>2. o + Len(gap) <= Len(data) /\ \A i \in 1..Len(gap) : data[o + i] = gap[i]
    BY DEF Stands
  <1>3. o + 1 \in Nat /\ q \in Nat /\ o + 1 <= q /\ q <= Len(data) + 1
    BY <1>1, <1>2
  <1>4. ASSUME NEW i \in (o + 1)..(q - 1) PROVE data[i] = Blank
    <2>1. i - o \in 1..Len(gap) /\ o + (i - o) = i
      BY <1>1
    <2>2. data[o + (i - o)] = gap[i - o] /\ gap[i - o] = Blank
      BY <1>1, <1>2, <2>1
    <2> QED
      BY <2>1, <2>2
  <1>5. q > Len(data) \/ data[q] # Blank
    OBVIOUS
  <1> HIDE DEF q
  <1>6. SkipWs(data, o + 1) = q
    BY <1>3, <1>4, <1>5, SkipsTo
  <1> QED
    BY <1>6 DEF q

-----------------------------------------------------------------------------
(* What a value begins with tells its kind.                                *)

Starts(v) ==
  /\ v.text \in Texts /\ Len(v.text) \in Nat /\ Len(v.text) >= 1
  /\ v.text[1] # Blank /\ v.text[1] # ":"
  /\ v.text[1] = Quote <=> v.kind = "text"
  /\ v.text[1] \in DOMAIN Digit <=> v.kind = "number"
  /\ v.text[1] = "t" <=> v.kind = "true"
  /\ v.text[1] = "[" <=> v.kind = "list"
  /\ v.text[1] = "{" <=> v.kind = "object"
  /\ v.kind # "missing"

KindIs(v) ==
  /\ v.kind = "text" => IsText(v)
  /\ v.kind = "number" => IsNumber(v)
  /\ v.kind = "true" => IsTrue(v)
  /\ v.kind = "list" => IsListOf(v, Values)
  /\ v.kind = "object" => IsObjectOf(v, Values)

(* The kind of a tree says which of the five it is.                        *)
LEMMA KindOf ==
  ASSUME NEW v \in Values
  PROVE  KindIs(v)
  BY ValueIs DEF KindIs, IsText, IsNumber, IsTrue, IsListOf, IsObjectOf

(* The first byte of its text says the kind of a tree.                     *)
LEMMA StartsWith ==
  ASSUME NEW v \in Values
  PROVE  Starts(v)
  <1> DEFINE c == v.text[1]
  <1>0. v.text \in Texts /\ Len(v.text) \in Nat
    BY ValueIs
  <1>1. CASE IsText(v)
    <2>1. v.bytes \in Texts /\ v.text = Quoted(v.bytes) /\ v.kind = "text"
      BY <1>1 DEF IsText
    <2>2. Len(v.text) >= 1 /\ c = Quote
      BY <1>0, <2>1, QuotedReading
    <2> HIDE DEF c
    <2>3. Quote # Blank /\ Quote # ":" /\ Quote # "t" /\ Quote # "[" /\ Quote # "{"
          /\ Quote \notin DOMAIN Digit
      BY DEF Quote, Digit, Blank
    <2> QED
      BY <1>0, <2>1, <2>2, <2>3 DEF Starts, c
  <1>2. CASE IsNumber(v)
    <2>1. v.text \in Seq(DOMAIN Digit) /\ v.text # <<>> /\ v.kind = "number"
      BY <1>2 DEF IsNumber
    <2>2. Len(v.text) >= 1
      BY <1>0, <2>1, EmptySeq
    <2>3. c \in DOMAIN Digit
      <3>1. 1 \in 1..Len(v.text)
        BY <1>0, <2>2
      <3> QED
        BY <2>1, <3>1, ElementOfSeq
    <2>4. \A d \in DOMAIN Digit : d # Blank /\ d # ":" /\ d # "t" /\ d # "[" /\ d # "{" /\ d # Quote
      BY DEF Quote, Digit, Blank
    <2> HIDE DEF c
    <2> QED
      BY <1>0, <2>1, <2>2, <2>3, <2>4 DEF Starts, c
  <1>3. CASE IsTrue(v)
    <2>1. v.text = <<"t", "r", "u", "e">> /\ v.kind = "true"
      BY <1>3 DEF IsTrue
    <2>2. Len(v.text) >= 1 /\ c = "t"
      BY <2>1
    <2>3. "t" # Quote /\ "t" \notin DOMAIN Digit /\ "t" # Blank
      BY DEF Quote, Digit, Blank
    <2> HIDE DEF c
    <2> QED
      BY <1>0, <2>1, <2>2, <2>3 DEF Starts, c
  <1>4. CASE IsListOf(v, Values)
    <2>1. v.text = Between("[", Items(v), "]") /\ v.kind = "list"
          /\ PartsOf(ItemParts(v), v.gap, ItemTexts(v)) /\ Items(v) = Joined(ItemParts(v)) \o v.gap
      BY <1>4, ListParts DEF IsListOf
    <2>2. Items(v) \in Texts /\ "[" \in Characters /\ "]" \in Characters
      BY <2>1, PartsLength, CharactersAssumption
    <2>a. /\ Between("[", Items(v), "]")[1] = "["
          /\ Len(Between("[", Items(v), "]")) = Len(Items(v)) + 2
      BY <2>2, BetweenIs
    <2>3. c = "[" /\ Len(v.text) = Len(Items(v)) + 2
      BY <2>1, <2>a
    <2>b. Len(Items(v)) \in Nat
      BY <2>2 DEF Texts
    <2>4. Len(v.text) >= 1
      BY <2>3, <2>b
    <2>5. "[" # Quote /\ "[" \notin DOMAIN Digit /\ "[" # Blank
      BY DEF Quote, Digit, Blank
    <2> HIDE DEF c
    <2> QED
      BY <1>0, <2>1, <2>3, <2>4, <2>5 DEF Starts, c
  <1>5. CASE IsObjectOf(v, Values)
    <2>1. v.text = Between("{", Members(v), "}") /\ v.kind = "object"
          /\ PartsOf(MemberParts(v), v.gap, MemberTexts(v)) /\ Members(v) = Joined(MemberParts(v)) \o v.gap
      BY <1>5, ObjectParts DEF IsObjectOf
    <2>2. Members(v) \in Texts /\ "{" \in Characters /\ "}" \in Characters
      BY <2>1, PartsLength, CharactersAssumption
    <2>a. /\ Between("{", Members(v), "}")[1] = "{"
          /\ Len(Between("{", Members(v), "}")) = Len(Members(v)) + 2
      BY <2>2, BetweenIs
    <2>3. c = "{" /\ Len(v.text) = Len(Members(v)) + 2
      BY <2>1, <2>a
    <2>b. Len(Members(v)) \in Nat
      BY <2>2, LengthNat
    <2>4. Len(v.text) >= 1
      BY <1>0, <2>2, <2>3, ObjectLong
    <2>5. "{" # Quote /\ "{" \notin DOMAIN Digit /\ "{" # Blank
      BY DEF Quote, Digit, Blank
    <2> HIDE DEF c
    <2> QED
      BY <1>0, <2>1, <2>3, <2>4, <2>5 DEF Starts, c
  <1> QED
    BY <1>1, <1>2, <1>3, <1>4, <1>5, ValueIs

-----------------------------------------------------------------------------
(* Escapes.                                                                *)

Bare(k) == \A i \in 1..Len(k) : k[i] \notin Special

(* A byte as it is written in a string.                                    *)
LEMMA EscapeIs ==
  ASSUME NEW c \in Characters
  PROVE  /\ c \notin Special => Len(Escape(c)) = 1 /\ Escape(c)[1] = c
         /\ c \in Special => Len(Escape(c)) = 2 /\ Escape(c)[1] = "\\"
  <1>1. CASE c \in Special
    <2>1. Escape(c) = <<"\\", c>>
      BY <1>1 DEF Escape
    <2> QED
      BY <1>1, <2>1
  <1>2. CASE c \notin Special
    <2>1. Escape(c) = <<c>>
      BY <1>2 DEF Escape
    <2> QED
      BY <1>2, <2>1
  <1> QED
    BY <1>1, <1>2

(* Before the first escape, each byte stands for itself.                   *)
LEMMA BareFront ==
  ASSUME NEW k \in Texts, NEW n \in 0..Len(k), \A i \in 1..n : k[i] \notin Special
  PROVE  Front(Escapes(k), n) = n
  <1> DEFINE E == Escapes(k)
             Same(j) == Front(E, j) = j
             P == {j \in Nat : j <= n => Same(j)}
  <1>1. /\ E \in Seq(Texts) /\ Len(E) = Len(k) /\ Len(k) \in Nat
        /\ \A i \in 1..Len(k) : k[i] \in Characters /\ E[i] = Escape(k[i])
    BY EscapesType DEF Texts
  <1>2. Front(E, 0) = 0 /\ \A i \in 1..Len(k) : Front(E, i) = Front(E, i - 1) + Len(E[i])
    BY <1>1, FrontIs
  <1>3. Same(0)
    BY <1>2
  <1>4. ASSUME NEW j \in Nat, j + 1 <= n, Same(j) PROVE Same(j + 1)
    <2>1. j + 1 \in 1..Len(k) /\ j + 1 \in 1..n /\ (j + 1) - 1 = j
      BY <1>1, <1>4
    <2>2. Len(E[j + 1]) = 1
      BY <1>1, <2>1, EscapeIs
    <2>3. Front(E, j + 1) = Front(E, j) + Len(E[j + 1])
      BY <1>2, <2>1
    <2> QED
      BY <1>4, <2>2, <2>3
  <1>5. P = Nat
    <2> HIDE DEF Same
    <2>1. 0 \in P
      BY <1>3
    <2>2. ASSUME NEW j \in P PROVE j + 1 \in P
      <3>1. ASSUME j + 1 <= n PROVE Same(j + 1)
        <4>1. j <= n
          BY <1>1, <3>1
        <4>2. Same(j)
          BY <4>1
        <4> QED
          BY <1>4, <3>1, <4>2
      <3> QED
        BY <3>1
    <2> HIDE DEF P
    <2>3. P \in SUBSET Nat
      BY DEF P
    <2> QED
      BY <2>1, <2>2, <2>3, Induct
  <1>6. Same(n)
    <2> HIDE DEF Same
    <2>1. n \in Nat /\ n <= n
      BY <1>1
    <2> QED
      BY <1>5, <2>1
  <1> QED
    BY <1>6

(* Up to the first byte that needs one there is no escape.                 *)
LEMMA EscapedAt ==
  ASSUME NEW k \in Texts, NEW i \in 1..Len(k), \A h \in 1..(i - 1) : k[h] \notin Special
  PROVE  /\ i <= Len(Joined(Escapes(k)))
         /\ Joined(Escapes(k))[i] = Escape(k[i])[1]
  <1> DEFINE E == Escapes(k)
             e == Joined(E)
  <1>1. /\ E \in Seq(Texts) /\ Len(E) = Len(k) /\ Len(k) \in Nat /\ e \in Texts
        /\ k[i] \in Characters /\ E[i] = Escape(k[i])
    BY EscapesType DEF Texts
  <1>2. Stands(e, 0, e)
    BY <1>1, StandsSelf
  <1>3. Stands(e, 0 + Front(E, i - 1), E[i])
    BY <1>1, <1>2, JoinedStands
  <1>4. Front(E, i - 1) = i - 1
    <2>1. i - 1 \in 0..Len(k)
      BY <1>1
    <2> QED
      BY <2>1, BareFront
  <1>5. 1 \in 1..Len(E[i]) /\ Len(E[i]) \in Nat /\ Len(E[i]) >= 1
    BY <1>1, EscapeIs
  <1> HIDE DEF e, E
  <1>6. 0 + Front(E, i - 1) + Len(E[i]) <= Len(e) /\ e[0 + Front(E, i - 1) + 1] = E[i][1]
    BY <1>3, <1>5 DEF Stands
  <1>7. Len(e) \in Nat /\ i \in Nat
    BY <1>1 DEF Texts
  <1>8. i <= Len(e)
    BY <1>4, <1>5, <1>6, <1>7
  <1>9. 0 + Front(E, i - 1) + 1 = i
    BY <1>4, <1>7
  <1> QED
    BY <1>1, <1>6, <1>8, <1>9 DEF e, E

(* A text that needs no escapes is written as it is.                       *)
LEMMA BareIs ==
  ASSUME NEW k \in Texts, Bare(k)
  PROVE  Joined(Escapes(k)) = k
  <1> DEFINE E == Escapes(k)
             e == Joined(E)
  <1>1. /\ E \in Seq(Texts) /\ Len(E) = Len(k) /\ Len(k) \in Nat /\ e \in Texts
        /\ \A i \in 1..Len(k) : k[i] \in Characters
    BY EscapesType DEF Texts
  <1>2. Len(e) = Len(k)
    <2>1. Len(k) \in 0..Len(k) /\ \A i \in 1..Len(k) : k[i] \notin Special
      BY <1>1 DEF Bare
    <2>2. Front(E, Len(k)) = Len(k)
      BY <2>1, BareFront
    <2>3. Len(e) = Front(E, Len(E))
      BY <1>1, FrontIs
    <2> QED
      BY <1>1, <2>2, <2>3
  <1>3. ASSUME NEW i \in 1..Len(k) PROVE e[i] = k[i]
    <2>1. k[i] \notin Special /\ \A h \in 1..(i - 1) : k[h] \notin Special
      BY <1>1 DEF Bare
    <2>2. e[i] = Escape(k[i])[1]
      BY <2>1, EscapedAt
    <2>3. Escape(k[i])[1] = k[i]
      BY <1>1, <2>1, EscapeIs
    <2> QED
      BY <2>2, <2>3
  <1> HIDE DEF e
  <1>4. e \in Seq(Characters) /\ k \in Seq(Characters)
    BY <1>1 DEF Texts
  <1>5. e = k
    BY <1>1, <1>2, <1>3, <1>4, SeqEqual
  <1> QED
    BY <1>5 DEF e

(* One that needs them has a backslash before any quote of its own.        *)
LEMMA EscapedIs ==
  ASSUME NEW k \in Texts, ~Bare(k)
  PROVE  \E m \in 1..Len(Joined(Escapes(k))) :
           /\ Joined(Escapes(k))[m] = "\\"
           /\ \A n \in 1..m : Joined(Escapes(k))[n] # Quote
  <1> DEFINE e == Joined(Escapes(k))
             P == {j \in Nat : \A i \in 1..j : i <= Len(k) => k[i] \notin Special}
  <1>0. Len(k) \in Nat /\ e \in Texts /\ Len(e) \in Nat /\ \A i \in 1..Len(k) : k[i] \in Characters
    BY EscapesType DEF Texts
  <1>1. \E m \in 1..Len(k) : k[m] \in Special /\ \A i \in 1..(m - 1) : k[i] \notin Special
    <2> SUFFICES ASSUME \A m \in 1..Len(k) : k[m] \in Special =>
                          ~(\A i \in 1..(m - 1) : k[i] \notin Special)
                 PROVE  FALSE
      OBVIOUS
    <2>1. 0 \in P
      OBVIOUS
    <2>2. ASSUME NEW j \in P PROVE j + 1 \in P
      <3>1. CASE j + 1 <= Len(k)
        <4>1. j + 1 \in 1..Len(k) /\ (j + 1) - 1 = j
          BY <1>0, <3>1
        <4>2. \A i \in 1..j : k[i] \notin Special
          BY <1>0, <3>1
        <4>3. k[j + 1] \notin Special
          BY <4>1, <4>2
        <4>4. \A i \in 1..(j + 1) : i \in 1..j \/ i = j + 1
          OBVIOUS
        <4> QED
          BY <4>2, <4>3, <4>4
      <3>2. CASE j + 1 > Len(k)
        <4>1. \A i \in 1..(j + 1) : i <= Len(k) => i \in 1..j
          BY <1>0, <3>2
        <4> QED
          BY <4>1
      <3> QED
        BY <1>0, <3>1, <3>2
    <2>3. P = Nat
      <3> HIDE DEF P
      <3>1. P \in SUBSET Nat
        BY DEF P
      <3> QED
        BY <2>1, <2>2, <3>1, Induct
    <2>4. Bare(k)
      BY <1>0, <2>3 DEF Bare
    <2> QED
      BY <2>4
  <1>2. PICK m \in 1..Len(k) : k[m] \in Special /\ \A i \in 1..(m - 1) : k[i] \notin Special
    BY <1>1
  <1>3. m <= Len(e) /\ e[m] = "\\"
    <2>1. m <= Len(e) /\ e[m] = Escape(k[m])[1]
      BY <1>2, EscapedAt
    <2>2. Escape(k[m])[1] = "\\"
      BY <1>0, <1>2, EscapeIs
    <2> QED
      BY <2>1, <2>2
  <1>4. ASSUME NEW n \in 1..m PROVE e[n] # Quote
    <2>1. CASE n = m
      BY <1>3, <2>1, QuoteIs
    <2>2. CASE n # m
      <3>1. n \in 1..Len(k) /\ n \in 1..(m - 1) /\ \A i \in 1..(n - 1) : i \in 1..(m - 1)
        BY <1>0, <2>2
      <3>2. k[n] \notin Special /\ \A i \in 1..(n - 1) : k[i] \notin Special
        BY <1>2, <3>1
      <3>3. e[n] = Escape(k[n])[1]
        BY <3>1, <3>2, EscapedAt
      <3>4. Escape(k[n])[1] = k[n]
        BY <1>0, <3>1, <3>2, EscapeIs
      <3>5. Quote \in Special
        BY DEF Special
      <3> QED
        BY <3>2, <3>3, <3>4, <3>5
    <2> QED
      BY <2>1, <2>2
  <1>5. m \in 1..Len(e)
    BY <1>0, <1>3
  <1> QED
    BY <1>3, <1>4, <1>5

-----------------------------------------------------------------------------
(* Where a text stands, and how the readers take it.                       *)

(* The first of some positions.                                            *)
LEMMA MinIn ==
  ASSUME NEW S \in SUBSET Nat, NEW s \in S
  PROVE  Min(S) \in S /\ First(S) = Min(S) /\ \A q \in S : Min(S) <= q
  <1> DEFINE P == {j \in Nat : \A i \in 0..j : i \notin S}
  <1>1. \E m \in S : \A q \in S : m <= q
    <2> SUFFICES ASSUME \A m \in S : ~(\A q \in S : m <= q) PROVE FALSE
      OBVIOUS
    <2>1. 0 \in P
      <3>1. \A q \in S : 0 <= q
        OBVIOUS
      <3>2. 0 \notin S
        BY <3>1
      <3> QED
        BY <3>2
    <2>2. ASSUME NEW j \in P PROVE j + 1 \in P
      <3>1. \A i \in 0..j : i \notin S
        OBVIOUS
      <3>2. \A q \in S : j + 1 <= q
        BY <3>1
      <3>3. j + 1 \notin S
        BY <3>2
      <3>4. \A i \in 0..(j + 1) : i \in 0..j \/ i = j + 1
        OBVIOUS
      <3> QED
        BY <3>1, <3>3, <3>4
    <2> HIDE DEF P
    <2>3. P \in SUBSET Nat
      BY DEF P
    <2>4. P = Nat
      BY <2>1, <2>2, <2>3, Induct
    <2> QED
      BY <2>4 DEF P
  <1>2. PICK m \in S : \A q \in S : m <= q
    BY <1>1
  <1>3. S \in SUBSET Int
    OBVIOUS
  <1>4. Min(S) = m /\ First(S) = m
    BY <1>2, <1>3, MinIs
  <1> QED
    BY <1>2, <1>4

(* A part of a text, byte by byte.                                         *)
LEMMA PieceIs ==
  ASSUME NEW data \in Texts, NEW a \in Nat, NEW b \in Nat, 1 <= a, a <= b + 1, b <= Len(data)
  PROVE  /\ SubSeq(data, a, b) \in Texts /\ Len(SubSeq(data, a, b)) = b - a + 1
         /\ \A i \in 1..(b - a + 1) : SubSeq(data, a, b)[i] = data[a + i - 1]
  BY DEF Texts

(* The bytes of a string that stands in a text.                            *)
LEMMA QuotedStands ==
  ASSUME NEW data \in Texts, NEW o \in Nat, NEW k \in Texts, Stands(data, o, Quoted(k)),
         NEW e, e = Joined(Escapes(k))
  PROVE  /\ e \in Texts /\ Len(e) \in Nat /\ Len(data) \in Nat
         /\ Len(Quoted(k)) = Len(e) + 2 /\ o + Len(e) + 2 <= Len(data)
         /\ data[o + 1] = Quote /\ data[o + Len(e) + 2] = Quote
         /\ \A i \in 1..Len(e) : data[o + i + 1] = e[i]
  <1> DEFINE q == Between(Quote, e, Quote)
  <1>1. e \in Texts /\ Len(e) \in Nat /\ Len(data) \in Nat
    BY EscapesType, LengthNat
  <1>2. Quoted(k) = q
    BY DEF Quoted, Between
  <1>3. /\ Len(q) = Len(e) + 2 /\ q[1] = Quote /\ q[Len(e) + 2] = Quote
        /\ \A n \in 1..Len(e) : q[n + 1] = e[n]
    <2>1. Quote \in Characters /\ e \in Texts
      BY <1>1, QuoteIs
    <2> QED
      BY <2>1, BetweenIs
  <1> HIDE DEF q
  <1>4. o + Len(q) <= Len(data) /\ \A i \in 1..Len(q) : data[o + i] = q[i]
    BY <1>2 DEF Stands
  <1>5. o + Len(e) + 2 <= Len(data)
    BY <1>1, <1>3, <1>4
  <1>6. data[o + 1] = Quote
    <2>1. 1 \in 1..Len(q)
      BY <1>1, <1>3
    <2> QED
      BY <1>3, <1>4, <2>1
  <1>7. data[o + Len(e) + 2] = Quote
    <2>1. Len(e) + 2 \in 1..Len(q) /\ o + (Len(e) + 2) = o + Len(e) + 2
      BY <1>1, <1>3
    <2>2. data[o + (Len(e) + 2)] = Quote
      BY <1>3, <1>4, <2>1
    <2> QED
      BY <2>1, <2>2
  <1>8. ASSUME NEW i \in 1..Len(e) PROVE data[o + i + 1] = e[i]
    <2>1. i + 1 \in 1..Len(q) /\ o + (i + 1) = o + i + 1
      BY <1>1, <1>3
    <2>2. data[o + (i + 1)] = q[i + 1]
      BY <1>4, <2>1
    <2> QED
      BY <1>3, <2>1, <2>2
  <1> QED
    BY <1>1, <1>2, <1>3, <1>5, <1>6, <1>7, <1>8

(* The bytes of another key would not be those.                            *)
LEMMA KeyMatch ==
  ASSUME NEW data \in Texts, NEW o \in Nat, NEW k \in Texts, Stands(data, o, Quoted(k)),
         NEW key \in Texts, Bare(key),
         \A i \in 1..Len(key) : data[o + i + 1] = key[i],
         data[o + Len(key) + 2] = Quote
  PROVE  k = key
  <1> DEFINE e == Joined(Escapes(k))
             n == Len(key)
  <1>1. /\ e \in Texts /\ Len(e) \in Nat /\ n \in Nat
        /\ data[o + Len(e) + 2] = Quote
        /\ \A i \in 1..Len(e) : data[o + i + 1] = e[i]
    BY QuotedStands, LengthNat
  <1>2. Quote \in Special /\ "\\" \in Special
    BY DEF Special
  <1>3. ASSUME ~Bare(k) PROVE FALSE
    <2>1. PICK m \in 1..Len(e) : e[m] = "\\" /\ \A i \in 1..m : e[i] # Quote
      BY <1>3, EscapedIs
    <2> HIDE DEF e
    <2>2. CASE m <= n
      <3>1. m \in 1..n
        BY <1>1, <2>2
      <3>2. key[m] = e[m]
        BY <1>1, <3>1
      <3> QED
        BY <1>2, <2>1, <3>1, <3>2 DEF Bare
    <2>3. CASE m > n
      <3>1. n + 1 \in 1..m /\ n + 1 \in 1..Len(e) /\ o + (n + 1) + 1 = o + n + 2
        BY <1>1, <2>3
      <3>2. data[o + (n + 1) + 1] = e[n + 1]
        BY <1>1, <3>1
      <3>3. e[n + 1] = Quote
        BY <3>1, <3>2
      <3> QED
        BY <2>1, <3>1, <3>3
    <2> QED
      BY <1>1, <2>2, <2>3
  <1>4. ASSUME Bare(k) PROVE k = key
    <2>1. e = k
      BY <1>4, BareIs
    <2> HIDE DEF e
    <2>2. Len(k) \in Nat /\ data[o + Len(k) + 2] = Quote
          /\ \A i \in 1..Len(k) : data[o + i + 1] = k[i]
      BY <1>1, <2>1
    <2>3. ASSUME Len(k) > n PROVE FALSE
      <3>1. n + 1 \in 1..Len(k) /\ o + (n + 1) + 1 = o + n + 2
        BY <1>1, <2>2, <2>3
      <3>2. data[o + (n + 1) + 1] = k[n + 1]
        BY <2>2, <3>1
      <3>3. k[n + 1] = Quote
        BY <3>1, <3>2
      <3> QED
        BY <1>2, <1>4, <3>1, <3>3 DEF Bare
    <2>4. ASSUME Len(k) < n PROVE FALSE
      <3>1. Len(k) + 1 \in 1..n /\ o + (Len(k) + 1) + 1 = o + Len(k) + 2
        BY <1>1, <2>2, <2>4
      <3>2. data[o + (Len(k) + 1) + 1] = key[Len(k) + 1]
        BY <3>1
      <3>3. key[Len(k) + 1] = Quote
        BY <2>2, <3>1, <3>2
      <3> QED
        BY <1>2, <3>1, <3>3 DEF Bare
    <2>5. Len(k) = n
      BY <1>1, <2>2, <2>3, <2>4
    <2>6. \A i \in 1..Len(k) : k[i] = key[i]
      BY <2>2, <2>5
    <2>7. k \in Seq(Characters) /\ key \in Seq(Characters)
      BY DEF Texts
    <2> QED
      BY <2>5, <2>6, <2>7, SeqEqual
  <1> QED
    BY <1>3, <1>4

(* Colon finds the colon after a key exactly if the key is the one it looks
   for.                                                                    *)
LEMMA ColonIs ==
  ASSUME NEW data \in Texts, NEW o \in Nat, NEW k \in Texts, Stands(data, o, Quoted(k)),
         NEW key \in Texts, Bare(key),
         NEW q, q = SkipWs(data, o + Len(Quoted(k)) + 1)
  PROVE  Colon(data, o + 1, key) =
           IF k = key /\ q <= Len(data) /\ data[q] = ":" THEN q ELSE 0
  <1> DEFINE end == (o + 1) + Len(key) + 1
             piece == SubSeq(data, (o + 1) + 1, end)
             want == Append(key, Quote)
             r == SkipWs(data, end + 1)
  <1>1. Len(key) \in Nat /\ Len(data) \in Nat
    BY LengthNat
  <1>2. /\ Len(want) = Len(key) + 1 /\ want[Len(key) + 1] = Quote
        /\ \A i \in 1..Len(key) : want[i] = key[i]
    BY DEF Texts
  <1>3. ASSUME end <= Len(data)
        PROVE  /\ Len(piece) = Len(key) + 1 /\ piece \in Texts
               /\ \A i \in 1..(Len(key) + 1) : piece[i] = data[o + i + 1]
    <2>1. (o + 1) + 1 \in Nat /\ end \in Nat /\ 1 <= (o + 1) + 1 /\ (o + 1) + 1 <= end + 1
          /\ end - ((o + 1) + 1) + 1 = Len(key) + 1
      BY <1>1
    <2>2. \A i \in 1..(Len(key) + 1) : ((o + 1) + 1) + i - 1 = o + i + 1
      BY <1>1
    <2> HIDE DEF end
    <2>3. /\ piece \in Texts /\ Len(piece) = end - ((o + 1) + 1) + 1
          /\ \A i \in 1..(end - ((o + 1) + 1) + 1) : piece[i] = data[((o + 1) + 1) + i - 1]
      BY <1>3, <2>1, PieceIs
    <2> HIDE DEF piece
    <2> QED
      BY <2>1, <2>2, <2>3
  <1>4. ASSUME end <= Len(data), piece = want PROVE k = key
    <2>1. \A i \in 1..Len(key) : data[o + i + 1] = key[i]
      <3> TAKE i \in 1..Len(key)
      <3>1. i \in 1..(Len(key) + 1)
        BY <1>1
      <3>2. piece[i] = data[o + i + 1] /\ want[i] = key[i]
        BY <1>2, <1>3, <1>4, <3>1
      <3> HIDE DEF piece, want
      <3> QED
        BY <1>4, <3>2
    <2>2. data[o + Len(key) + 2] = Quote
      <3>1. Len(key) + 1 \in 1..(Len(key) + 1) /\ o + (Len(key) + 1) + 1 = o + Len(key) + 2
        BY <1>1
      <3>2. piece[Len(key) + 1] = data[o + (Len(key) + 1) + 1]
        BY <1>3, <1>4, <3>1
      <3> HIDE DEF piece, want
      <3> QED
        BY <1>2, <1>4, <3>1, <3>2
    <2> QED
      BY <2>1, <2>2, KeyMatch
  <1>5. ASSUME k = key
        PROVE  end <= Len(data) /\ piece = want /\ end + 1 = o + Len(Quoted(k)) + 1
    <2> DEFINE e == Joined(Escapes(k))
    <2>1. e = key
      BY <1>5, BareIs
    <2>2. /\ Len(Quoted(k)) = Len(e) + 2 /\ o + Len(e) + 2 <= Len(data)
          /\ data[o + Len(e) + 2] = Quote
          /\ \A i \in 1..Len(e) : data[o + i + 1] = e[i]
      BY QuotedStands
    <2> HIDE DEF e
    <2>3. end <= Len(data) /\ end + 1 = o + Len(Quoted(k)) + 1
      BY <1>1, <2>1, <2>2
    <2>4. /\ Len(piece) = Len(key) + 1 /\ piece \in Texts
          /\ \A i \in 1..(Len(key) + 1) : piece[i] = data[o + i + 1]
      BY <1>3, <2>3
    <2>5. want \in Texts
      <3>1. Quote \in Characters /\ key \in Seq(Characters)
        BY QuoteIs DEF Texts
      <3> QED
        BY <3>1, AppendProperties DEF Texts
    <2> HIDE DEF piece, want
    <2>6. ASSUME NEW i \in 1..(Len(key) + 1) PROVE piece[i] = want[i]
      <3>1. CASE i = Len(key) + 1
        <4>1. o + (Len(key) + 1) + 1 = o + Len(key) + 2
          BY <1>1
        <4>2. piece[i] = data[o + (Len(key) + 1) + 1]
          BY <2>4, <3>1
        <4> QED
          BY <1>2, <2>1, <2>2, <3>1, <4>1, <4>2
      <3>2. CASE i # Len(key) + 1
        <4>1. i \in 1..Len(key)
          BY <1>1, <3>2
        <4> QED
          BY <1>2, <2>1, <2>2, <2>4, <4>1
      <3> QED
        BY <3>1, <3>2
    <2>7. piece = want
      <3>1. piece \in Seq(Characters) /\ want \in Seq(Characters) /\ Len(piece) = Len(want)
        BY <1>2, <2>4, <2>5 DEF Texts
      <3>2. \A i \in 1..Len(piece) : piece[i] = want[i]
        BY <2>4, <2>6
      <3> QED
        BY <3>1, <3>2, SeqEqual
    <2> QED
      BY <2>3, <2>7
  <1>6. Colon(data, o + 1, key) =
          IF end <= Len(data) /\ piece = want
            THEN IF r <= Len(data) /\ data[r] = ":" THEN r ELSE 0
            ELSE 0
    BY DEF Colon
  <1> HIDE DEF end, piece, want
  <1>7. CASE k = key
    <2>1. r = q
      BY <1>5, <1>7
    <2> HIDE DEF r
    <2> QED
      BY <1>5, <1>6, <1>7, <2>1
  <1>8. CASE k # key
    <2>1. ~(end <= Len(data) /\ piece = want)
      BY <1>4, <1>8
    <2> HIDE DEF r
    <2> QED
      BY <1>6, <1>8, <2>1
  <1> QED
    BY <1>7, <1>8

(* Plain reads a string exactly if it needs no escapes and fits.           *)
LEMMA PlainIs ==
  ASSUME NEW data \in Texts, NEW o \in Nat, NEW k \in Texts, Stands(data, o, Quoted(k)),
         NEW most \in Int
  PROVE  Plain(data, o + 1, most) =
           IF Bare(k) /\ Len(k) <= most
             THEN Some([bytes |-> k, end |-> o + Len(Quoted(k))]) ELSE None
  <1> DEFINE e == Joined(Escapes(k))
             S == {q \in ((o + 1) + 1)..Len(data) : data[q] = Quote}
             end == First(S)
             bytes == SubSeq(data, (o + 1) + 1, end - 1)
             last == o + Len(e) + 2
  <1>1. /\ e \in Texts /\ Len(e) \in Nat /\ Len(data) \in Nat
        /\ Len(Quoted(k)) = Len(e) + 2 /\ last <= Len(data)
        /\ data[last] = Quote
        /\ \A i \in 1..Len(e) : data[o + i + 1] = e[i]
    BY QuotedStands
  <1> HIDE DEF e
  <1>2. last \in S /\ S \in SUBSET Nat /\ S \in SUBSET Int /\ last \in Nat
    BY <1>1
  <1>3. Plain(data, o + 1, most) =
          IF end = 0 \/ Len(bytes) > most \/ "\\" \in Range(bytes) THEN None
          ELSE Some([bytes |-> bytes, end |-> end])
    BY DEF Plain
  <1>4. CASE Bare(k)
    <2>1. e = k
      BY <1>4, BareIs DEF e
    <2>2. \A i \in 1..Len(k) : data[o + i + 1] = k[i] /\ k[i] # Quote /\ k[i] # "\\"
      BY <1>1, <1>4, <2>1 DEF Bare, Special
    <2>3. ASSUME NEW q \in S PROVE last <= q
      <3> SUFFICES ASSUME q < last PROVE FALSE
        BY <1>2
      <3>1. q - o - 1 \in 1..Len(k) /\ o + (q - o - 1) + 1 = q
        BY <1>1, <2>1
      <3>2. data[o + (q - o - 1) + 1] # Quote
        BY <2>2, <3>1
      <3> QED
        BY <3>1, <3>2
    <2>4. end = last
      <3> HIDE DEF S, last
      <3> QED
        BY <1>2, <2>3, MinIs
    <2>5. Len(bytes) = Len(k) /\ bytes \in Texts /\ \A i \in 1..Len(k) : bytes[i] = k[i]
      <3> DEFINE a == (o + 1) + 1
                 b == end - 1
      <3>1. a \in Nat /\ b \in Nat /\ 1 <= a /\ a <= b + 1 /\ b <= Len(data)
            /\ b - a + 1 = Len(k)
        BY <1>1, <2>1, <2>4
      <3>2. \A i \in 1..Len(k) : a + i - 1 = o + i + 1
        BY <1>1, <2>1
      <3> HIDE DEF a, b
      <3>3. /\ SubSeq(data, a, b) \in Texts /\ Len(SubSeq(data, a, b)) = b - a + 1
            /\ \A i \in 1..(b - a + 1) : SubSeq(data, a, b)[i] = data[a + i - 1]
        BY <3>1, PieceIs
      <3>4. bytes = SubSeq(data, a, b)
        BY DEF a, b
      <3> HIDE DEF bytes
      <3> QED
        BY <2>2, <3>1, <3>2, <3>3, <3>4
    <2> HIDE DEF bytes, end
    <2>6. bytes = k
      <3>1. bytes \in Seq(Characters) /\ k \in Seq(Characters)
        BY <2>5 DEF Texts
      <3> QED
        BY <2>5, <3>1, SeqEqual
    <2>7. "\\" \notin Range(k)
      <3>1. DOMAIN k = 1..Len(k)
        BY DEF Texts
      <3> QED
        BY <2>2, <3>1 DEF Range
    <2>8. end # 0 /\ end = o + Len(Quoted(k))
      BY <1>1, <2>4
    <2>9. Plain(data, o + 1, most) =
            IF Len(k) > most THEN None ELSE Some([bytes |-> k, end |-> o + Len(Quoted(k))])
      BY <1>3, <2>6, <2>7, <2>8
    <2>10. Len(k) \in Nat /\ (Len(k) > most <=> ~(Len(k) <= most))
      BY <1>1, <2>1
    <2> HIDE DEF last
    <2> QED
      BY <1>4, <2>9, <2>10
  <1>5. CASE ~Bare(k)
    <2>1. PICK m \in 1..Len(e) : e[m] = "\\" /\ \A i \in 1..m : e[i] # Quote
      BY <1>5, EscapedIs DEF e
    <2>2. end \in S /\ end \in Nat
      <3> HIDE DEF S, last
      <3> QED
        BY <1>2, MinIn
    <2>3. end > o + m + 1
      <3> SUFFICES ASSUME end <= o + m + 1 PROVE FALSE
        BY <1>1, <2>2
      <3> DEFINE i == end - o - 1
      <3>1. i \in 1..m /\ i \in 1..Len(e) /\ o + i + 1 = end
        BY <1>1, <2>2
      <3>2. data[end] = Quote
        BY <2>2
      <3> HIDE DEF end, i
      <3>3. data[o + i + 1] = e[i]
        BY <1>1, <3>1
      <3> QED
        BY <2>1, <3>1, <3>2, <3>3
    <2>4. "\\" \in Range(bytes)
      <3> DEFINE a == (o + 1) + 1
                 b == end - 1
      <3>0. end <= Len(data) /\ end >= a
        BY <2>2
      <3> HIDE DEF end
      <3>1. a \in Nat /\ b \in Nat /\ 1 <= a /\ a <= b + 1 /\ b <= Len(data)
            /\ m \in 1..(b - a + 1) /\ a + m - 1 = o + m + 1
        BY <1>1, <2>2, <2>3, <3>0
      <3> HIDE DEF a, b
      <3>2. /\ SubSeq(data, a, b) \in Texts /\ Len(SubSeq(data, a, b)) = b - a + 1
            /\ \A i \in 1..(b - a + 1) : SubSeq(data, a, b)[i] = data[a + i - 1]
        BY <3>1, PieceIs
      <3>3. bytes = SubSeq(data, a, b)
        BY DEF a, b
      <3> HIDE DEF bytes
      <3>4. bytes[m] = "\\"
        BY <1>1, <2>1, <3>1, <3>2, <3>3
      <3>5. DOMAIN bytes = 1..Len(bytes) /\ m \in DOMAIN bytes
        BY <3>1, <3>2, <3>3 DEF Texts
      <3> QED
        BY <3>4, <3>5 DEF Range
    <2> HIDE DEF bytes, end
    <2>5. Plain(data, o + 1, most) = None
      BY <1>3, <2>4
    <2> QED
      BY <1>5, <2>5
  <1> QED
    BY <1>4, <1>5

-----------------------------------------------------------------------------
(* Parts that stand in a text.                                             *)

Spot(parts, gap, i) == Front(parts, i - 1) + CommaLen(i) + Len(gap)

(* The places of a part, as numbers.                                       *)
LEMMA SpotIs ==
  ASSUME NEW parts, NEW gap, NEW inner, PartsOf(parts, gap, inner), NEW i \in 1..Len(parts)
  PROVE  /\ i \in Nat /\ Len(parts) \in Nat /\ i <= Len(parts) /\ i - 1 \in 0..Len(parts)
         /\ gap \in Texts /\ Len(gap) \in Nat /\ inner[i] \in Texts /\ Len(inner[i]) \in Nat
         /\ Front(parts, i - 1) \in Nat /\ CommaLen(i) \in 0..1
         /\ Spot(parts, gap, i) \in Nat
         /\ Spot(parts, gap, i) = Front(parts, i - 1) + CommaLen(i) + Len(gap)
         /\ Len(parts[i]) = CommaLen(i) + Len(gap) + Len(inner[i]) + Len(gap)
         /\ Front(parts, i) = Spot(parts, gap, i) + Len(inner[i]) + Len(gap)
         /\ Front(parts, i) \in Nat /\ Front(parts, i) <= Front(parts, Len(parts))
         /\ Front(parts, Len(parts)) \in Nat
         /\ Len(Joined(parts) \o gap) = Front(parts, Len(parts)) + Len(gap)
         /\ Len(Joined(parts)) = Front(parts, Len(parts))
  <1>1. parts \in Seq(Texts) /\ gap \in Blanks /\ inner[i] \in Texts
        /\ parts[i] = Part(gap, i, inner[i])
    BY DEF PartsOf
  <1>2. Len(parts) \in Nat
    BY <1>1, LenProperties
  <1>3. i \in Nat /\ i <= Len(parts) /\ i - 1 \in 0..Len(parts) /\ i \in 0..Len(parts)
        /\ Len(parts) \in 0..Len(parts)
    BY <1>2
  <1>4. gap \in Texts /\ Len(gap) \in Nat /\ Len(inner[i]) \in Nat
    BY <1>1, GapIs, LengthNat
  <1>5. Front(parts, i - 1) \in Nat /\ Front(parts, i) \in Nat /\ Front(parts, Len(parts)) \in Nat
    BY <1>1, <1>3, FrontIs
  <1>6. Front(parts, i) = Front(parts, i - 1) + Len(parts[i]) /\ Len(parts[i]) \in Nat
    BY <1>1, FrontIs
  <1>7. Front(parts, i) <= Front(parts, Len(parts))
    BY <1>1, <1>3, FrontsGrow
  <1>8. Len(Part(gap, i, inner[i])) = CommaLen(i) + Len(gap) + Len(inner[i]) + Len(gap)
        /\ CommaLen(i) \in 0..1
    BY <1>1, <1>3, PartIs
  <1>9. Len(Joined(parts) \o gap) = Front(parts, Len(parts)) + Len(gap)
    BY PartsLength
  <1>a. Spot(parts, gap, i) = Front(parts, i - 1) + CommaLen(i) + Len(gap)
    BY DEF Spot
  <1>b. Spot(parts, gap, i) \in Nat
    BY <1>4, <1>5, <1>8, <1>a
  <1>c. Len(parts[i]) = CommaLen(i) + Len(gap) + Len(inner[i]) + Len(gap)
    BY <1>1, <1>8
  <1>d. Front(parts, i) = Spot(parts, gap, i) + Len(inner[i]) + Len(gap)
    <2> DEFINE f == Front(parts, i - 1)
               c == CommaLen(i)
               g == Len(gap)
               l == Len(inner[i])
               x == Front(parts, i)
               s == Spot(parts, gap, i)
               p == Len(parts[i])
    <2>1. /\ f \in Nat /\ c \in Nat /\ g \in Nat /\ l \in Nat
          /\ x = f + p /\ p = c + g + l + g /\ s = f + c + g
      BY <1>4, <1>5, <1>6, <1>8, <1>a, <1>c
    <2> HIDE DEF f, c, g, l, x, s, p
    <2>2. x = s + l + g
      BY <2>1
    <2> QED
      BY <2>2 DEF l, g, x, s
  <1>e. Len(Joined(parts)) = Front(parts, Len(parts))
    BY <1>1, FrontIs
  <1> QED
    BY <1>1, <1>2, <1>3, <1>4, <1>5, <1>7, <1>8, <1>9, <1>a, <1>b, <1>c, <1>d, <1>e

(* The parts, and white space at the end, stand somewhere.                 *)
PartsStand(data, o, parts, gap, inner) ==
  /\ data \in Texts /\ o \in Nat /\ PartsOf(parts, gap, inner)
  /\ Stands(data, o, Joined(parts) \o gap)

(* What stands at these places.                                            *)
LEMMA PartStands ==
  ASSUME NEW data, NEW o, NEW parts, NEW gap, NEW inner, PartsStand(data, o, parts, gap, inner),
         NEW i \in 1..Len(parts)
  PROVE  /\ Stands(data, o + Front(parts, i - 1), parts[i])
         /\ i # 1 => data[o + Front(parts, i - 1) + 1] = ","
         /\ Stands(data, o + Front(parts, i - 1) + CommaLen(i), gap)
         /\ Stands(data, o + Spot(parts, gap, i), inner[i])
         /\ Stands(data, o + Spot(parts, gap, i) + Len(inner[i]), gap)
         /\ Stands(data, o + Front(parts, Len(parts)), gap)
  <1>1. data \in Texts /\ o \in Nat /\ PartsOf(parts, gap, inner)
        /\ Stands(data, o, Joined(parts) \o gap)
    BY DEF PartsStand
  <1>2. parts \in Seq(Texts) /\ gap \in Blanks /\ inner[i] \in Texts
        /\ parts[i] = Part(gap, i, inner[i])
    BY <1>1 DEF PartsOf
  <1>3. Joined(parts) \in Texts /\ gap \in Texts
    BY <1>2, FrontsDef, GapIs
  <1>4. Stands(data, o, Joined(parts)) /\ Stands(data, o + Len(Joined(parts)), gap)
    BY <1>1, <1>3, StandsConcat
  <1>5. Stands(data, o + Front(parts, i - 1), parts[i])
    BY <1>1, <1>2, <1>4, JoinedStands
  <1>6. /\ i \in Nat /\ Front(parts, i - 1) \in Nat /\ Len(gap) \in Nat /\ CommaLen(i) \in 0..1
        /\ Spot(parts, gap, i) = Front(parts, i - 1) + CommaLen(i) + Len(gap)
        /\ Len(Joined(parts)) = Front(parts, Len(parts))
    BY <1>1, SpotIs
  <1> DEFINE f == o + Front(parts, i - 1)
  <1>7. f \in Nat
    BY <1>1, <1>6
  <1>8. f + CommaLen(i) + Len(gap) = o + Spot(parts, gap, i)
    BY <1>1, <1>6
  <1> HIDE DEF f
  <1>9. Stands(data, f, Part(gap, i, inner[i]))
    BY <1>2, <1>5 DEF f
  <1>10. /\ i # 1 => data[f + 1] = ","
         /\ Stands(data, f + CommaLen(i), gap)
         /\ Stands(data, f + CommaLen(i) + Len(gap), inner[i])
         /\ Stands(data, f + CommaLen(i) + Len(gap) + Len(inner[i]), gap)
    BY <1>1, <1>2, <1>6, <1>7, <1>9, PartIs
  <1> QED
    BY <1>4, <1>5, <1>6, <1>8, <1>10 DEF f

(* The mark after them.                                                    *)
Closing(data, e, z) == z \in {"}", "]"} /\ (e <= Len(data) => data[e] = z)

(* How long a part is.                                                     *)
LEMMA PartLong ==
  ASSUME NEW parts, NEW gap, NEW inner, PartsOf(parts, gap, inner), NEW h \in 1..Len(parts)
  PROVE  /\ Len(parts[h]) = CommaLen(h) + Len(gap) + Len(inner[h]) + Len(gap)
         /\ Len(inner[h]) \in Nat
  BY SpotIs

(* A sum that begins with 1 is not 0.                                      *)
LEMMA OnePlus ==
  ASSUME NEW g \in Nat, NEW l \in Nat, NEW p, p = 1 + g + l + g
  PROVE  p \in Nat /\ p >= 1
  OBVIOUS

(* What comes after one of them, but for white space.                      *)
PartEnd(o, parts, gap, inner, i) == o + Spot(parts, gap, i) + Len(inner[i]) + 1
PartsEnd(o, parts, gap) == o + Len(Joined(parts) \o gap) + 1

Followed(data, o, parts, gap, inner, z, i) ==
  LET q == SkipWs(data, PartEnd(o, parts, gap, inner, i))
  IN /\ i < Len(parts) => q = o + Front(parts, i) + 1 /\ q <= Len(data) /\ data[q] = ","
     /\ i = Len(parts) => q = PartsEnd(o, parts, gap)
     /\ q <= Len(data) => data[q] \in {",", z}
     /\ q \in Nat /\ q <= Len(data) + 1

(* After a part, and white space, comes the comma of the next one or what
   closes them all.                                                        *)
LEMMA PartFollowed ==
  ASSUME NEW data, NEW o, NEW parts, NEW gap, NEW inner, PartsStand(data, o, parts, gap, inner),
         NEW z, Closing(data, PartsEnd(o, parts, gap), z), NEW i \in 1..Len(parts)
  PROVE  Followed(data, o, parts, gap, inner, z, i)
  <1> DEFINE q == SkipWs(data, PartEnd(o, parts, gap, inner, i))
             e == PartsEnd(o, parts, gap)
  <1> SUFFICES /\ i < Len(parts) => q = o + Front(parts, i) + 1 /\ q <= Len(data) /\ data[q] = ","
               /\ i = Len(parts) => q = e
               /\ q <= Len(data) => data[q] \in {",", z}
               /\ q \in Nat /\ q <= Len(data) + 1
    BY DEF Followed
  <1> DEFINE n == Len(parts)
             g == Len(gap)
             d == Len(data)
             s == Spot(parts, gap, i)
             l == Len(inner[i])
             F == Front(parts, i)
             N == Front(parts, n)
             L == Len(Joined(parts) \o gap)
             b == o + s + l
  <1>1. data \in Texts /\ o \in Nat /\ PartsOf(parts, gap, inner) /\ gap \in Blanks
    BY DEF PartsStand, PartsOf
  <1>2. /\ i \in Nat /\ n \in Nat /\ i <= n /\ g \in Nat /\ l \in Nat /\ s \in Nat
        /\ F = s + l + g /\ F \in Nat /\ N \in Nat /\ L = N + g
    BY <1>1, SpotIs
  <1>d. d \in Nat
    BY <1>1, LengthNat
  <1>3. Stands(data, b, gap) /\ Stands(data, o + N, gap)
    BY PartStands
  <1>c. z \in {"}", "]"} /\ (e <= d => data[e] = z)
    BY DEF Closing
  <1>e. e = o + L + 1
    BY DEF PartsEnd
  <1>q. q = SkipWs(data, b + 1)
    BY DEF PartEnd
  <1> HIDE DEF q, e
  <1>n. i < n => /\ Stands(data, o + F, parts[i + 1]) /\ data[o + F + 1] = ","
                 /\ Len(parts[i + 1]) \in Nat /\ Len(parts[i + 1]) >= 1
    <2> SUFFICES ASSUME i < n
                 PROVE  /\ Stands(data, o + F, parts[i + 1]) /\ data[o + F + 1] = ","
                        /\ Len(parts[i + 1]) \in Nat /\ Len(parts[i + 1]) >= 1
      OBVIOUS
    <2>1. i + 1 \in 1..n /\ i + 1 # 1 /\ (i + 1) - 1 = i
      BY <1>2
    <2>2. /\ Stands(data, o + Front(parts, (i + 1) - 1), parts[i + 1])
          /\ data[o + Front(parts, (i + 1) - 1) + 1] = ","
      BY <2>1, PartStands
    <2>3. Stands(data, o + F, parts[i + 1]) /\ data[o + F + 1] = ","
      BY <2>1, <2>2
    <2> HIDE DEF F
    <2> DEFINE h == i + 1
    <2>h. h \in 1..Len(parts)
      BY <2>1
    <2> HIDE DEF h
    <2>k. Len(parts[h]) = CommaLen(h) + Len(gap) + Len(inner[h]) + Len(gap)
          /\ Len(inner[h]) \in Nat
      <3> HIDE DEF n, g, d, s, l, F, N, L, b
      <3>1. PartsOf(parts, gap, inner)
        BY <1>1
      <3> QED
        BY <3>1, <2>h, PartLong
    <2>4. Len(parts[i + 1]) = CommaLen(i + 1) + g + Len(inner[i + 1]) + g
          /\ Len(inner[i + 1]) \in Nat
      BY <2>k DEF h
    <2>5. CommaLen(i + 1) = 1
      BY <2>1 DEF CommaLen
    <2>6. Len(parts[i + 1]) = 1 + g + Len(inner[i + 1]) + g
      BY <2>4, <2>5
    <2>7. Len(parts[i + 1]) \in Nat /\ Len(parts[i + 1]) >= 1
      BY <1>2, <2>4, <2>6, OnePlus
    <2> QED
      BY <2>3, <2>7
  <1> HIDE DEF n, g, d, s, l, F, N, L
  <1>4. b \in Nat /\ b + g + 1 = o + F + 1
    BY <1>1, <1>2
  <1> HIDE DEF b
  <1>5. ASSUME i < n
        PROVE  q = o + F + 1 /\ q \in Nat /\ q <= d /\ data[q] = ","
    <2>1. Stands(data, o + F, parts[i + 1]) /\ data[o + F + 1] = ","
          /\ Len(parts[i + 1]) \in Nat /\ Len(parts[i + 1]) >= 1
      BY <1>5, <1>n
    <2>2. o + F + Len(parts[i + 1]) <= d
      BY <2>1 DEF Stands, d
    <2> DEFINE k == Len(parts[i + 1])
    <2>p. k \in Nat /\ k >= 1 /\ o + F + k <= d
      BY <2>1, <2>2
    <2> HIDE DEF k
    <2>3. o + F + 1 <= d
      <3>1. o \in Nat /\ F \in Nat
        BY <1>1, <1>2
      <3> QED
        BY <3>1, <1>d, <2>p
    <2>4. data[b + g + 1] = ","
      BY <1>4, <2>1
    <2>5. data[b + Len(gap) + 1] # Blank
      <3>1. "," # Blank
        BY BlankIs
      <3>2. b + Len(gap) + 1 = b + g + 1
        BY DEF g
      <3> QED
        BY <2>4, <3>1, <3>2
    <2>6. SkipWs(data, b + 1) = b + Len(gap) + 1
      BY <1>1, <1>3, <1>4, <2>5, SkipsGap
    <2>7. q = b + g + 1
      BY <1>q, <2>6 DEF g
    <2>8. q = o + F + 1
      BY <1>4, <2>7
    <2>9. q \in Nat /\ q <= d
      BY <1>1, <1>2, <2>3, <2>8
    <2> QED
      BY <2>1, <2>8, <2>9
  <1>6. ASSUME i = n
        PROVE  q = e /\ e \in Nat /\ e <= d + 1
    <2>0. F = N
      BY <1>6 DEF F, N, n
    <2>1. e \in Nat /\ b + 1 \in Nat /\ b + 1 <= e /\ e = b + 1 + g + g
          /\ o + N = b + g
      BY <1>1, <1>2, <1>4, <1>e, <2>0
    <2>2. /\ b + g + g <= d
          /\ \A j \in 1..g : data[b + j] = gap[j] /\ data[(b + g) + j] = gap[j]
      BY <1>3, <2>1 DEF Stands, g, d
    <2>3. e <= d + 1
      BY <1>2, <1>4, <1>d, <2>1, <2>2
    <2>a. \A j \in 1..g : gap[j] = Blank
      BY <1>1, GapBlank DEF g
    <2>4. ASSUME NEW x \in (b + 1)..(e - 1) PROVE data[x] = Blank
      <3>1. CASE x <= b + g
        <4>1. x - b \in 1..g /\ b + (x - b) = x
          BY <1>2, <1>4, <2>1, <3>1
        <4> QED
          BY <2>2, <2>a, <4>1
      <3>2. CASE x > b + g
        <4>1. x - (b + g) \in 1..g /\ (b + g) + (x - (b + g)) = x
          BY <1>2, <1>4, <2>1, <3>2
        <4> QED
          BY <2>2, <2>a, <4>1
      <3> QED
        BY <1>2, <1>4, <2>1, <3>1, <3>2
    <2>6. e > Len(data) \/ data[e] # Blank
      <3>1. z # Blank
        BY <1>c, BlankIs
      <3>2. e <= d \/ e > d
        BY <1>d, <2>1
      <3> QED
        BY <1>c, <3>1, <3>2 DEF d
    <2>b. e <= Len(data) + 1
      BY <2>3 DEF d
    <2>8. SkipWs(data, b + 1) = e
      BY <1>1, <2>1, <2>b, <2>4, <2>6, SkipsTo
    <2> QED
      BY <1>q, <2>1, <2>3, <2>8
  <1>7. (i < n => q = o + F + 1 /\ q <= d /\ data[q] = ",") /\ (i = n => q = e)
    BY <1>5, <1>6
  <1>8. q <= d => data[q] \in {",", z}
    <2>1. CASE i < n
      BY <1>5, <2>1
    <2>2. CASE i = n
      BY <1>6, <1>c, <2>2
    <2>3. i < n \/ i = n
      BY <1>2
    <2> QED
      BY <2>1, <2>2, <2>3
  <1>9. q \in Nat /\ q <= d + 1
    <2>1. CASE i < n
      <3>1. q \in Nat /\ q <= d
        BY <1>5, <2>1
      <3> QED
        BY <1>d, <3>1
    <2>2. CASE i = n
      BY <1>6, <2>2
    <2>3. i < n \/ i = n
      BY <1>2
    <2> QED
      BY <2>1, <2>2, <2>3
  <1> QED
    BY <1>7, <1>8, <1>9 DEF n, d, F, L

(* A quote among the parts is inside one of them.                          *)
LEMMA QuoteInside ==
  ASSUME NEW data, NEW o, NEW parts, NEW gap, NEW inner, PartsStand(data, o, parts, gap, inner),
         NEW j \in (o + 1)..(o + Len(Joined(parts) \o gap)), data[j] = Quote
  PROVE  \E i \in 1..Len(parts) : \E r \in 1..Len(inner[i]) : j = o + Spot(parts, gap, i) + r
  <1> DEFINE n == Len(parts)
             g == Len(gap)
             J == Joined(parts)
  <1>1. data \in Texts /\ o \in Nat /\ PartsOf(parts, gap, inner) /\ Stands(data, o, J \o gap)
        /\ parts \in Seq(Texts) /\ gap \in Blanks
    BY DEF PartsStand, PartsOf
  <1>2. J \in Texts /\ gap \in Texts /\ Len(J) \in Nat /\ g \in Nat
        /\ Len(J \o gap) = Len(J) + g
    <2>1. J \in Texts /\ gap \in Texts
      BY <1>1, FrontsDef, GapIs
    <2> QED
      BY <2>1, Pieces
  <1>3. Stands(data, o, J) /\ Stands(data, o + Len(J), gap)
    BY <1>1, <1>2, StandsConcat
  <1>b. ASSUME NEW x \in Nat, Stands(data, x, gap), NEW m \in 1..g, j = x + m PROVE FALSE
    <2>1. data[j] = gap[m] /\ gap[m] = Blank
      BY <1>1, <1>b, GapBlank DEF Stands
    <2> QED
      BY <2>1, BlankIs
  <1>4. j - o \in 1..(Len(J) + g) /\ o + (j - o) = j /\ j \in Nat
    BY <1>1, <1>2
  <1>5. j - o \in 1..Len(J)
    <2>1. ASSUME NEW m \in 1..g, j - o = Len(J) + m PROVE FALSE
      <3>1. o + Len(J) \in Nat /\ j = (o + Len(J)) + m
        BY <1>1, <1>2, <1>4, <2>1
      <3> QED
        BY <1>3, <1>b, <3>1
    <2> QED
      BY <1>2, <1>4, <2>1, EitherPart
  <1>6. PICK i \in 1..n : \E m \in 1..Len(parts[i]) : j - o = Front(parts, i - 1) + m
    BY <1>1, <1>5, InSomePart
  <1>7. PICK m \in 1..Len(parts[i]) : j - o = Front(parts, i - 1) + m
    BY <1>6
  <1> HIDE DEF J
  <1>8. /\ i \in Nat /\ Len(inner[i]) \in Nat /\ Front(parts, i - 1) \in Nat /\ CommaLen(i) \in 0..1
        /\ Spot(parts, gap, i) \in Nat
        /\ Spot(parts, gap, i) = Front(parts, i - 1) + CommaLen(i) + g
        /\ Len(parts[i]) = CommaLen(i) + g + Len(inner[i]) + g
    <2>1. i \in 1..Len(parts) /\ PartsOf(parts, gap, inner)
      BY <1>1
    <2>2. g = Len(gap)
      OBVIOUS
    <2> HIDE DEF g, n
    <2>3. /\ i \in Nat /\ Len(inner[i]) \in Nat /\ Front(parts, i - 1) \in Nat
          /\ CommaLen(i) \in 0..1 /\ Spot(parts, gap, i) \in Nat
          /\ Spot(parts, gap, i) = Front(parts, i - 1) + CommaLen(i) + Len(gap)
          /\ Len(parts[i]) = CommaLen(i) + Len(gap) + Len(inner[i]) + Len(gap)
      BY <2>1, SpotIs
    <2> QED
      BY <2>2, <2>3
  <1>9. /\ i # 1 => data[o + Front(parts, i - 1) + 1] = ","
        /\ Stands(data, o + Front(parts, i - 1) + CommaLen(i), gap)
        /\ Stands(data, o + Spot(parts, gap, i) + Len(inner[i]), gap)
    BY PartStands
  <1> DEFINE f == Front(parts, i - 1)
             c == CommaLen(i)
             s == Spot(parts, gap, i)
             l == Len(inner[i])
  <1>10. /\ f \in Nat /\ c \in 0..1 /\ s \in Nat /\ l \in Nat /\ s = f + c + g
         /\ m \in 1..(c + g + l + g) /\ j = o + f + m
    <2>1. f \in Nat /\ c \in 0..1 /\ s \in Nat /\ l \in Nat /\ s = f + c + g
      BY <1>8
    <2>2. m \in 1..(c + g + l + g)
      BY <1>8
    <2>3. j - o = f + m
      BY <1>7
    <2> HIDE DEF f, c, s, l
    <2>4. j = o + f + m
      BY <1>1, <1>4, <2>1, <2>3
    <2> QED
      BY <2>1, <2>2, <2>4
  <1>11. c = 1 => i # 1
    BY DEF CommaLen
  <1> HIDE DEF f, c, s, l
  <1>12. CASE m <= c
    <2>1. c = 1 /\ j = o + f + 1
      BY <1>1, <1>10, <1>12
    <2>2. data[j] = ","
      BY <1>9, <1>11, <2>1 DEF f
    <2>3. "," # Quote
      BY DEF Quote
    <2> QED
      BY <2>2, <2>3
  <1>13. CASE m > c /\ m <= c + g
    <2>1. m - c \in 1..g /\ j = (o + f + c) + (m - c) /\ o + f + c \in Nat
      BY <1>1, <1>2, <1>10, <1>13
    <2>2. Stands(data, o + f + c, gap)
      BY <1>9 DEF f, c
    <2> QED
      BY <1>b, <2>1, <2>2
  <1>14. CASE m > c + g /\ m <= c + g + l
    <2>1. m - (c + g) \in 1..l /\ j = o + s + (m - (c + g))
      BY <1>1, <1>2, <1>10, <1>14
    <2> QED
      BY <2>1 DEF s, l
  <1>15. CASE m > c + g + l
    <2>1. m - (c + g + l) \in 1..g /\ j = (o + s + l) + (m - (c + g + l)) /\ o + s + l \in Nat
      BY <1>1, <1>2, <1>10, <1>15
    <2>2. Stands(data, o + s + l, gap)
      BY <1>9 DEF s, l
    <2> QED
      BY <1>b, <2>1, <2>2
  <1> QED
    BY <1>2, <1>10, <1>12, <1>13, <1>14, <1>15

-----------------------------------------------------------------------------
(* The scan comes back to where it was between the parts.                  *)

(* A scan begins outside of strings.                                       *)
LEMMA OutermostIs == Outside(Outermost) /\ Outermost \in Scan
  <1>1. Outermost \in Scan
    BY DEF Outermost, Scan
  <1> QED
    BY <1>1 DEF Outside, Outermost

(* Past a loose text a scan is where it was before.                        *)
LEMMA AfterLoose ==
  ASSUME NEW data \in Texts, NEW o \in Nat, NEW s \in Texts, Stands(data, o, s), Back(s),
         NEW at, Outside(at), Nesting(data)[o + 1] = at
  PROVE  Nesting(data)[o + Len(s) + 1] = at
  <1> DEFINE r == Reading(Outermost, data)
  <1>1. at \in Scan /\ Outermost \in Scan /\ r[o + 1] = at
    BY OutermostIs DEF Outside, Nesting
  <1>2. \A n \in 1..(Len(s) + 1) : r[o + n] = Reading(at, s)[n]
    BY <1>1, ReadingStands
  <1>3. Len(s) + 1 \in 1..(Len(s) + 1) /\ o + (Len(s) + 1) = o + Len(s) + 1
    BY LengthNat
  <1>4. r[o + (Len(s) + 1)] = Reading(at, s)[Len(s) + 1]
    BY <1>2, <1>3
  <1>5. Reading(at, s)[Len(s) + 1] = at
    BY <1>1 DEF Back
  <1> HIDE DEF r
  <1>6. r[o + Len(s) + 1] = at
    BY <1>3, <1>4, <1>5
  <1> QED
    BY <1>6 DEF r, Nesting

(* A byte that is no mark changes nothing.                                 *)
LEMMA AfterByte ==
  ASSUME NEW data \in Texts, NEW p \in 1..Len(data), data[p] \notin Marks,
         NEW at, Outside(at), Nesting(data)[p] = at
  PROVE  Nesting(data)[p + 1] = at
  <1>1. Nesting(data)[p + 1] = Past(Nesting(data)[p], data[p])
    BY OutermostIs, ReadingType DEF Nesting
  <1> QED
    BY <1>1, PastOutside

(* So each part begins where the first one began.                          *)
LEMMA ReadingAtPart ==
  ASSUME NEW data, NEW o, NEW parts, NEW gap, NEW inner, PartsStand(data, o, parts, gap, inner),
         \A i \in 1..Len(parts) : Loose(inner[i]),
         NEW at, Outside(at), Nesting(data)[o + 1] = at, NEW i \in 1..Len(parts)
  PROVE  Nesting(data)[o + Spot(parts, gap, i) + 1] = at
  <1> DEFINE n == Len(parts)
             N(k) == Nesting(data)[o + Front(parts, k) + 1]
             Same(k) == N(k) = at
             P == {k \in Nat : k <= n => Same(k)}
  <1>1. data \in Texts /\ o \in Nat /\ PartsOf(parts, gap, inner)
        /\ parts \in Seq(Texts) /\ gap \in Blanks
    BY DEF PartsStand, PartsOf
  <1>2. n \in Nat /\ Front(parts, 0) = 0 /\ \A k \in 0..n : Front(parts, k) \in Nat
    BY <1>1, FrontIs
  <1>3. Same(0)
    <2>1. o + Front(parts, 0) + 1 = o + 1
      BY <1>1, <1>2
    <2> QED
      BY <2>1
  <1>4. ASSUME NEW k \in Nat, k + 1 <= n, Same(k) PROVE Same(k + 1)
    <2> DEFINE h == k + 1
    <2>1. h \in 1..n /\ h - 1 = k /\ h \in Nat /\ k \in 0..n
      BY <1>2, <1>4
    <2>2. Stands(data, o + Front(parts, h - 1), parts[h])
      BY <2>1, PartStands
    <2>3. parts[h] \in Texts /\ Front(parts, h) = Front(parts, h - 1) + Len(parts[h])
          /\ Len(parts[h]) \in Nat
      BY <1>1, <2>1, FrontIs
    <2>4. inner[h] \in Texts /\ parts[h] = Part(gap, h, inner[h]) /\ Loose(inner[h])
      BY <1>1, <2>1 DEF PartsOf
    <2>5. Loose(Part(gap, h, inner[h]))
      BY <1>1, <2>1, <2>4, PartIs
    <2>6. Back(parts[h])
      BY <2>4, <2>5 DEF Loose
    <2> HIDE DEF h
    <2>7. o + Front(parts, k) \in Nat /\ Nesting(data)[(o + Front(parts, k)) + 1] = at
      BY <1>1, <1>2, <1>4, <2>1
    <2>8. Stands(data, o + Front(parts, k), parts[h])
      BY <2>1, <2>2
    <2>9. Nesting(data)[(o + Front(parts, k)) + Len(parts[h]) + 1] = at
      BY <1>1, <2>3, <2>6, <2>7, <2>8, AfterLoose
    <2>10. (o + Front(parts, k)) + Len(parts[h]) + 1 = o + Front(parts, h) + 1
      BY <1>1, <1>2, <2>1, <2>3
    <2>11. Same(h)
      BY <2>9, <2>10
    <2> QED
      BY <2>11 DEF h
  <1>5. P = Nat
    <2> HIDE DEF Same
    <2>1. 0 \in P
      BY <1>3
    <2>2. ASSUME NEW k \in P PROVE k + 1 \in P
      <3>1. ASSUME k + 1 <= n PROVE Same(k + 1)
        <4>1. k <= n
          BY <1>2, <3>1
        <4>2. Same(k)
          BY <4>1
        <4> QED
          BY <1>4, <3>1, <4>2
      <3> QED
        BY <3>1
    <2> HIDE DEF P
    <2>3. P \in SUBSET Nat
      BY DEF P
    <2> QED
      BY <2>1, <2>2, <2>3, Induct
  <1>6. Same(i - 1)
    <2> HIDE DEF Same
    <2>1. i - 1 \in Nat /\ i - 1 <= n
      BY <1>2
    <2> QED
      BY <1>5, <2>1
  <1> DEFINE f == o + Front(parts, i - 1)
             c == CommaLen(i)
  <1>7. f \in Nat /\ c \in 0..1 /\ Len(gap) \in Nat /\ gap \in Texts
        /\ o + Spot(parts, gap, i) = f + c + Len(gap)
    <2>1. /\ Front(parts, i - 1) \in Nat /\ CommaLen(i) \in 0..1 /\ Len(gap) \in Nat
          /\ gap \in Texts /\ Spot(parts, gap, i) = Front(parts, i - 1) + CommaLen(i) + Len(gap)
      BY <1>1, SpotIs
    <2> QED
      BY <1>1, <2>1
  <1>8. Nesting(data)[f + 1] = at
    BY <1>6
  <1>9. (i # 1 => data[f + 1] = ",") /\ Stands(data, f + c, gap)
    BY PartStands
  <1>10. (c = 0 \/ c = 1) /\ (c = 1 => i # 1)
    BY <1>7 DEF CommaLen
  <1> HIDE DEF f, c
  <1>11. Nesting(data)[(f + c) + 1] = at
    <2>1. CASE c = 0
      <3>1. (f + c) + 1 = f + 1
        BY <1>7, <2>1
      <3> QED
        BY <1>8, <3>1
    <2>2. CASE c = 1
      <3>1. f + c + Len(gap) <= Len(data) /\ Len(data) \in Nat
        BY <1>1, <1>9, LengthNat DEF Stands
      <3>2. f + 1 \in 1..Len(data) /\ (f + c) + 1 = (f + 1) + 1
        BY <1>7, <2>2, <3>1
      <3>3. data[f + 1] \notin Marks
        BY <1>9, <1>10, <2>2 DEF Marks, Quote
      <3>4. Nesting(data)[(f + 1) + 1] = at
        BY <1>1, <1>8, <3>2, <3>3, AfterByte
      <3> QED
        BY <3>2, <3>4
    <2> QED
      BY <1>10, <2>1, <2>2
  <1>12. Back(gap)
    BY <1>1, GapIs DEF Tidy, Loose
  <1>13. f + c \in Nat
    BY <1>7
  <1>14. Nesting(data)[(f + c) + Len(gap) + 1] = at
    BY <1>1, <1>7, <1>9, <1>11, <1>12, <1>13, AfterLoose
  <1> QED
    BY <1>7, <1>14

-----------------------------------------------------------------------------
(* The members of an object that stand in a text.                          *)

Span(v) == Len(Joined(MemberParts(v)) \o v.gap)

Setting(data, o, v) ==
  /\ IsObjectOf(v, Values)
  /\ PartsStand(data, o, MemberParts(v), v.gap, MemberTexts(v))
  /\ Closing(data, o + Span(v) + 1, "}")
  /\ \A n \in 1..Len(data) : data[n] = Quote => n > o /\ n <= o + Span(v)
  /\ Outside(Nesting(data)[o + 1]) /\ Direct(Nesting(data)[o + 1], data)

KeyAt(o, v, h) == o + Spot(MemberParts(v), v.gap, h)
ValueAt(o, v, h) == KeyAt(o, v, h) + ValueIn(v.gap, v.members[h])

(* The members of an object are loose.                                     *)
LEMMA MembersLoose ==
  ASSUME NEW v, IsObjectOf(v, Values), NEW h \in 1..Len(MemberParts(v))
  PROVE  Loose(MemberTexts(v)[h])
  <1> DEFINE m == v.members[h]
  <1>1. /\ m.key \in Texts /\ m.value \in Values /\ m.value.text \in Texts
        /\ MemberTexts(v)[h] = Member(v.gap, m) /\ v.gap \in Blanks
    BY ObjectParts
  <1> HIDE DEF m
  <1>2. Loose(m.value.text)
    BY <1>1, WrittenTidy DEF Tidy
  <1> QED
    BY <1>1, <1>2, MemberIs

(* Where key, colon and value of a member stand in the text at hand.       *)
LEMMA MemberAt ==
  ASSUME NEW data, NEW o, NEW v, Setting(data, o, v), NEW h \in 1..Len(v.members),
         NEW a, a = KeyAt(o, v, h), NEW m, m = v.members[h], NEW g, g = v.gap
  PROVE  /\ data \in Texts /\ o \in Nat /\ a \in Nat /\ g \in Blanks
         /\ m.key \in Texts /\ m.value \in Values /\ m.value.text \in Texts
         /\ Stands(data, a, Quoted(m.key))
         /\ Stands(data, a + Len(Quoted(m.key)), g)
         /\ data[a + ColonIn(g, m)] = ":"
         /\ Stands(data, a + ColonIn(g, m), g)
         /\ Stands(data, a + ValueIn(g, m), m.value.text)
         /\ Nesting(data)[a + 1] = Nesting(data)[o + 1]
         /\ MemberTexts(v)[h] = Member(g, m) /\ Len(Member(g, m)) = ValueIn(g, m) + Len(m.value.text)
  <1> DEFINE parts == MemberParts(v)
  <1>1. /\ IsObjectOf(v, Values) /\ PartsStand(data, o, parts, g, MemberTexts(v))
        /\ Outside(Nesting(data)[o + 1])
    BY DEF Setting
  <1>2. /\ Len(parts) = Len(v.members) /\ g \in Blanks
        /\ m.key \in Texts /\ m.value \in Values /\ m.value.text \in Texts
        /\ MemberTexts(v)[h] = Member(g, m)
    BY <1>1, ObjectParts
  <1>3. data \in Texts /\ o \in Nat /\ PartsOf(parts, g, MemberTexts(v))
    BY <1>1 DEF PartsStand
  <1>4. h \in 1..Len(parts)
    BY <1>2
  <1>5. a = o + Spot(parts, g, h) /\ Spot(parts, g, h) \in Nat /\ a \in Nat
    <2>1. Spot(parts, g, h) \in Nat
      BY <1>3, <1>4, SpotIs
    <2> QED
      BY <1>3, <2>1 DEF KeyAt
  <1>6. Stands(data, a, Member(g, m))
    <2>1. Stands(data, o + Spot(parts, g, h), MemberTexts(v)[h])
      BY <1>1, <1>4, PartStands
    <2> QED
      BY <1>2, <1>5, <2>1
  <1>7. /\ Len(Member(g, m)) = ValueIn(g, m) + Len(m.value.text)
        /\ Stands(data, a, Quoted(m.key))
        /\ Stands(data, a + Len(Quoted(m.key)), g)
        /\ data[a + ColonIn(g, m)] = ":"
        /\ Stands(data, a + ColonIn(g, m), g)
        /\ Stands(data, a + ValueIn(g, m), m.value.text)
    BY <1>2, <1>3, <1>5, <1>6, MemberIs
  <1>8. Nesting(data)[o + Spot(parts, g, h) + 1] = Nesting(data)[o + 1]
    <2>1. \A i \in 1..Len(parts) : Loose(MemberTexts(v)[i])
      BY <1>1, MembersLoose
    <2> HIDE DEF parts
    <2> QED
      BY <1>1, <1>4, <2>1, ReadingAtPart
  <1>9. Nesting(data)[a + 1] = Nesting(data)[o + 1]
    BY <1>5, <1>8
  <1> QED
    BY <1>2, <1>3, <1>5, <1>7, <1>9

(* What comes after the value of a member.                                 *)
LEMMA MemberFollowed ==
  ASSUME NEW data, NEW o, NEW v, Setting(data, o, v), NEW h \in 1..Len(v.members),
         NEW e, e = ValueAt(o, v, h) + Len(v.members[h].value.text) + 1,
         NEW q, q = SkipWs(data, e)
  PROVE  q \in Nat /\ q <= Len(data) + 1 /\ (q <= Len(data) => data[q] \in {",", "}"})
  <1> DEFINE parts == MemberParts(v)
             g == v.gap
             m == v.members[h]
             z == "}"
             inner == MemberTexts(v)
  <1>1. /\ IsObjectOf(v, Values) /\ PartsStand(data, o, parts, g, inner)
        /\ Closing(data, PartsEnd(o, parts, g), z)
    BY DEF Setting, Span, PartsEnd
  <1>2. Len(parts) = Len(v.members)
    BY <1>1, ObjectParts
  <1>3. /\ o \in Nat /\ inner[h] = Member(g, m)
        /\ Len(Member(g, m)) = ValueIn(g, m) + Len(m.value.text)
        /\ m.key \in Texts /\ g \in Blanks /\ m.value.text \in Texts
    BY MemberAt
  <1>4. ValueIn(g, m) \in Nat /\ Len(m.value.text) \in Nat
    BY <1>3, MemberPlaces, LengthNat
  <1>5. Spot(parts, g, h) \in Nat
    BY <1>1, <1>2, SpotIs DEF PartsStand
  <1>6. e = PartEnd(o, parts, g, inner, h)
    <2> DEFINE s == Spot(parts, g, h)
               w == ValueIn(g, m)
               l == Len(m.value.text)
    <2>1. e = (o + s) + w + l + 1 /\ s \in Nat /\ w \in Nat /\ l \in Nat
          /\ Len(inner[h]) = w + l
      BY <1>3, <1>4, <1>5 DEF ValueAt, KeyAt
    <2> HIDE DEF s, w, l
    <2>2. e = o + s + (w + l) + 1
      BY <1>3, <2>1
    <2> QED
      BY <2>1, <2>2 DEF s, PartEnd
  <1>8. h \in 1..Len(parts)
    BY <1>2
  <1> HIDE DEF parts, g, z, inner
  <1>9. Followed(data, o, parts, g, inner, z, h)
    BY <1>1, <1>8, PartFollowed
  <1>10. q \in Nat /\ q <= Len(data) + 1 /\ (q <= Len(data) => data[q] \in {",", z})
    BY <1>6, <1>9 DEF Followed
  <1> QED
    BY <1>10 DEF z

(* A member is found by its key.                                           *)
LEMMA KeyFound ==
  ASSUME NEW data, NEW o, NEW v, Setting(data, o, v), NEW h \in 1..Len(v.members),
         NEW key \in Texts, Bare(key),
         NEW a, a = KeyAt(o, v, h), NEW m, m = v.members[h], NEW g, g = v.gap
  PROVE  /\ a + 1 \in 1..Len(data) /\ data[a + 1] = Quote
         /\ Direct(Nesting(data)[a + 1], data)
         /\ Colon(data, a + 1, key) = IF m.key = key THEN a + ColonIn(g, m) ELSE 0
         /\ a + ColonIn(g, m) # 0
         /\ SkipWs(data, (a + ColonIn(g, m)) + 1) = a + ValueIn(g, m) + 1
         /\ a + ValueIn(g, m) + 1 <= Len(data)
  <1>1. /\ data \in Texts /\ o \in Nat /\ a \in Nat /\ g \in Blanks
        /\ m.key \in Texts /\ m.value \in Values /\ m.value.text \in Texts
        /\ Stands(data, a, Quoted(m.key))
        /\ Stands(data, a + Len(Quoted(m.key)), g)
        /\ data[a + ColonIn(g, m)] = ":"
        /\ Stands(data, a + ColonIn(g, m), g)
        /\ Stands(data, a + ValueIn(g, m), m.value.text)
        /\ Nesting(data)[a + 1] = Nesting(data)[o + 1]
    BY MemberAt
  <1> DEFINE K == Len(Quoted(m.key))
             G == Len(g)
             C == ColonIn(g, m)
             W == ValueIn(g, m)
             D == Len(data)
             T == Len(m.value.text)
  <1>2. K \in Nat /\ G \in Nat /\ C \in Nat /\ W \in Nat /\ C = K + G + 1 /\ W = C + G
    BY <1>1, MemberPlaces
  <1>3. D \in Nat /\ T \in Nat /\ T >= 1
    BY <1>1, LengthNat, StartsWith DEF Starts
  <1>4. a + K <= D /\ a + W + T <= D
    BY <1>1 DEF Stands
  <1>5. /\ K >= 2 /\ data[a + 1] = Quote
    <2>1. Len(Quoted(m.key)) >= 2 /\ Quoted(m.key)[1] = Quote
      BY <1>1, QuotedReading
    <2>2. 1 \in 1..Len(Quoted(m.key))
      BY <1>2, <2>1
    <2>3. data[a + 1] = Quoted(m.key)[1]
      BY <1>1, <2>2 DEF Stands
    <2> QED
      BY <2>1, <2>3
  <1> HIDE DEF K, G, C, W, D, T
  <1>6. a + 1 \in 1..D /\ a + W + 1 <= D /\ a + C <= D /\ a + C \in Nat /\ a + C # 0 /\ a + K \in Nat
    <2>1. a \in Nat
      BY <1>1
    <2>2. K >= 2
      BY <1>5
    <2>3. /\ K \in Nat /\ G \in Nat /\ C \in Nat /\ W \in Nat /\ C = K + G + 1 /\ W = C + G
          /\ D \in Nat /\ T \in Nat /\ T >= 1 /\ a + K <= D /\ a + W + T <= D
      BY <1>2, <1>3, <1>4
    <2>4. a + W + 1 <= D
      BY <2>1, <2>3
    <2>5. a + C <= D /\ a + C \in Nat /\ a + C # 0 /\ a + K \in Nat
      BY <2>1, <2>3
    <2>6. a + 1 \in Nat /\ a + 1 >= 1 /\ a + 1 <= D
      BY <2>1, <2>2, <2>3
    <2> QED
      BY <2>3, <2>4, <2>5, <2>6
  <1>7. Direct(Nesting(data)[a + 1], data)
    BY <1>1 DEF Setting
  <1>8. SkipWs(data, (a + K) + 1) = a + C
    <2>1. a + C = (a + K) + G + 1
      BY <1>1, <1>2
    <2>2. data[(a + K) + G + 1] # Blank
      BY <1>1, <2>1, BlankIs DEF C
    <2>3. Stands(data, a + K, g)
      BY <1>1 DEF K
    <2>4. SkipWs(data, (a + K) + 1) = (a + K) + Len(g) + 1
      BY <1>1, <1>6, <2>2, <2>3, SkipsGap DEF G
    <2> QED
      BY <2>1, <2>4 DEF G
  <1>9. Colon(data, a + 1, key) = IF m.key = key THEN a + C ELSE 0
    <2>1. Colon(data, a + 1, key) =
            IF m.key = key /\ a + C <= Len(data) /\ data[a + C] = ":" THEN a + C ELSE 0
      <3>1. a + C = SkipWs(data, a + Len(Quoted(m.key)) + 1)
        BY <1>8 DEF K
      <3> QED
        BY <1>1, <3>1, ColonIs
    <2>2. a + C <= Len(data) /\ data[a + C] = ":"
      BY <1>1, <1>6 DEF C, D
    <2> QED
      BY <2>1, <2>2
  <1>10. SkipWs(data, (a + C) + 1) = a + W + 1
    <2>1. a + W = (a + C) + G
      BY <1>1, <1>2
    <2>2. data[(a + W) + 1] # Blank
      <3>1. 1 \in 1..Len(m.value.text)
        BY <1>3 DEF T
      <3>2. data[(a + W) + 1] = m.value.text[1]
        BY <1>1, <3>1 DEF Stands, W
      <3>3. m.value.text[1] # Blank
        BY <1>1, StartsWith DEF Starts
      <3> QED
        BY <3>2, <3>3
    <2>3. data[(a + C) + G + 1] # Blank
      BY <2>1, <2>2
    <2>4. Stands(data, a + C, g)
      BY <1>1 DEF C
    <2>5. SkipWs(data, (a + C) + 1) = (a + C) + Len(g) + 1
      BY <1>1, <1>6, <2>3, <2>4, SkipsGap DEF G
    <2> QED
      BY <2>1, <2>5 DEF G
  <1> QED
    BY <1>5, <1>6, <1>7, <1>9, <1>10 DEF C, W, D

-----------------------------------------------------------------------------
(* json_find_value.                                                        *)

(* What begins a value is no key.                                          *)
LEMMA NoKeyInValue ==
  ASSUME NEW data, NEW o, NEW v, Setting(data, o, v), NEW h \in 1..Len(v.members),
         NEW key \in Texts, Bare(key),
         data[ValueAt(o, v, h) + 1] = Quote
  PROVE  Colon(data, ValueAt(o, v, h) + 1, key) = 0
  <1> DEFINE a == KeyAt(o, v, h)
             m == v.members[h]
             g == v.gap
             w == ValueAt(o, v, h)
             t == m.value.text
             q == SkipWs(data, w + Len(t) + 1)
  <1>1. /\ data \in Texts /\ a \in Nat /\ g \in Blanks /\ m.key \in Texts
        /\ m.value \in Values /\ t \in Texts /\ Stands(data, a + ValueIn(g, m), t)
    BY MemberAt
  <1>2. w = a + ValueIn(g, m) /\ w \in Nat
    <2>1. ValueIn(g, m) \in Nat
      BY <1>1, MemberPlaces
    <2> QED
      BY <1>1, <2>1 DEF ValueAt
  <1>3. q \in Nat /\ q <= Len(data) + 1 /\ (q <= Len(data) => data[q] \in {",", "}"})
    BY MemberFollowed
  <1> HIDE DEF q
  <1>4. Stands(data, w, t)
    BY <1>1, <1>2
  <1>q. q = SkipWs(data, w + Len(t) + 1)
    BY DEF q
  <1>5. Starts(m.value) /\ KindIs(m.value)
    BY <1>1, StartsWith, KindOf
  <1> HIDE DEF a, g, w
  <1>w. data[w + 1] = Quote
    BY DEF w
  <1>6. t[1] = Quote
    <2>0. Len(t) \in Nat /\ Len(t) >= 1
      BY <1>5 DEF Starts
    <2>1. 1 \in 1..Len(t)
      BY <2>0
    <2>2. data[w + 1] = t[1]
      BY <1>4, <2>1 DEF Stands
    <2> QED
      BY <1>w, <2>2
  <1>7. m.value.kind = "text"
    BY <1>5, <1>6 DEF Starts
  <1> DEFINE k == m.value.bytes
  <1>8. k \in Texts /\ t = Quoted(k)
    BY <1>5, <1>7 DEF KindIs, IsText
  <1> HIDE DEF k, t, m
  <1>9. Stands(data, w, Quoted(k)) /\ q = SkipWs(data, w + Len(Quoted(k)) + 1)
    BY <1>4, <1>8, <1>q
  <1>10. Colon(data, w + 1, key) = IF k = key /\ q <= Len(data) /\ data[q] = ":" THEN q ELSE 0
    BY <1>1, <1>2, <1>8, <1>9, ColonIs
  <1>11. ~(q <= Len(data) /\ data[q] = ":")
    <2>1. ":" \notin {",", "}"}
      OBVIOUS
    <2> QED
      BY <1>3, <2>1
  <1>12. Colon(data, w + 1, key) = 0
    BY <1>10, <1>11
  <1> QED
    BY <1>12 DEF w

(* Inside a key or a value the scan is deeper.                             *)
LEMMA KeyDeeper ==
  ASSUME NEW data, NEW o, NEW v, Setting(data, o, v), NEW h \in 1..Len(v.members),
         NEW m, m = v.members[h],
         NEW r \in 2..Len(Quoted(m.key))
  PROVE  ~Direct(Nesting(data)[KeyAt(o, v, h) + r], data)
  <1> DEFINE a == KeyAt(o, v, h)
             at == Nesting(data)[o + 1]
             k == Quoted(m.key)
             b == Reading(at, k)[r]
  <1>1. /\ data \in Texts /\ a \in Nat /\ m.key \in Texts /\ k \in Texts /\ Len(k) \in Nat
        /\ Stands(data, a, k) /\ Nesting(data)[a + 1] = at
    <2>1. /\ data \in Texts /\ a \in Nat /\ m.key \in Texts
          /\ Stands(data, a, k) /\ Nesting(data)[a + 1] = at
      BY MemberAt
    <2> QED
      BY <2>1, QuotedReading
  <1>2. Outside(at) /\ at \in Scan
    BY DEF Setting, Outside
  <1>3. b.string
    BY <1>1, <1>2, QuotedReading
  <1>4. Nesting(data)[a + r] = b
    <2>1. Reading(Outermost, data)[a + 1] = at /\ Outermost \in Scan
      BY <1>1, OutermostIs DEF Nesting
    <2> HIDE DEF at, a, k
    <2>2. \A n \in 1..(Len(k) + 1) : Reading(Outermost, data)[a + n] = Reading(at, k)[n]
      BY <1>1, <1>2, <2>1, ReadingStands
    <2>3. r \in 1..(Len(k) + 1)
      BY <1>1 DEF k
    <2> QED
      BY <2>2, <2>3 DEF Nesting
  <1> QED
    BY <1>3, <1>4 DEF Direct

(* No quote in a value but its first is direct: it is in a string, or below
   the object.                                                             *)
LEMMA ValueDeeper ==
  ASSUME NEW data, NEW o, NEW v, Setting(data, o, v), NEW h \in 1..Len(v.members),
         NEW t, t = v.members[h].value.text,
         NEW r \in 2..Len(t), data[ValueAt(o, v, h) + r] = Quote
  PROVE  ~Direct(Nesting(data)[ValueAt(o, v, h) + r], data)
  <1> DEFINE a == KeyAt(o, v, h)
             m == v.members[h]
             g == v.gap
             w == ValueAt(o, v, h)
             at == Nesting(data)[o + 1]
             b == Reading(at, t)[r]
             k == Quoted(m.key)
  <1>1. /\ data \in Texts /\ a \in Nat /\ g \in Blanks /\ m.key \in Texts
        /\ m.value \in Values /\ t \in Texts
        /\ Stands(data, a, k)
        /\ Stands(data, a + Len(k), g)
        /\ data[a + ColonIn(g, m)] = ":"
        /\ Stands(data, a + ColonIn(g, m), g)
        /\ Stands(data, a + ValueIn(g, m), t)
        /\ Nesting(data)[a + 1] = at
    <2>1. /\ data \in Texts /\ a \in Nat /\ g \in Blanks /\ m.key \in Texts
          /\ m.value \in Values /\ m.value.text \in Texts
          /\ Stands(data, a, k)
          /\ Stands(data, a + Len(k), g)
          /\ data[a + ColonIn(g, m)] = ":"
          /\ Stands(data, a + ColonIn(g, m), g)
          /\ Stands(data, a + ValueIn(g, m), m.value.text)
          /\ Nesting(data)[a + 1] = at
      BY MemberAt
    <2>2. t = m.value.text
      OBVIOUS
    <2> HIDE DEF a, g, k, at, m
    <2> QED
      BY <2>1, <2>2
  <1> DEFINE K == Len(k)
             G == Len(g)
             C == ColonIn(g, m)
  <1>2. K \in Nat /\ G \in Nat /\ C \in Nat /\ C = K + G + 1 /\ w = a + (C + G) /\ w \in Nat
        /\ w = a + ValueIn(g, m)
    <2>1. /\ Len(g) \in Nat /\ Len(Quoted(m.key)) \in Nat
          /\ ColonIn(g, m) \in Nat /\ ColonIn(g, m) = Len(Quoted(m.key)) + Len(g) + 1
          /\ ValueIn(g, m) \in Nat /\ ValueIn(g, m) = ColonIn(g, m) + Len(g)
      BY <1>1, MemberPlaces
    <2>2. w = a + ValueIn(g, m)
      BY DEF ValueAt
    <2>3. a \in Nat
      BY <1>1
    <2> DEFINE W == ValueIn(g, m)
    <2>4. K \in Nat /\ G \in Nat /\ C \in Nat /\ C = K + G + 1 /\ W \in Nat /\ W = C + G
      BY <2>1
    <2> HIDE DEF K, G, C, w, a, W
    <2> QED
      BY <2>2, <2>3, <2>4 DEF W
  <1>3. Outside(at) /\ at \in Scan
    BY DEF Setting, Outside
  <1>4. k \in Texts /\ Back(k) /\ g \in Texts /\ Back(g)
    BY <1>1, QuotedReading, QuotedTidy, GapIs DEF Tidy, Loose
  <1>5. Stands(data, w, t)
    BY <1>1, <1>2
  <1> HIDE DEF k, K, G, C, w, a, at, g
  <1>6. Nesting(data)[a + K + 1] = at
    BY <1>1, <1>3, <1>4, AfterLoose DEF K
  <1>7. Nesting(data)[(a + K) + G + 1] = at
    <2>1. a + K \in Nat /\ Stands(data, a + K, g)
      BY <1>1, <1>2 DEF K
    <2> QED
      BY <1>1, <1>3, <1>4, <1>6, <2>1, AfterLoose DEF G
  <1>8. Nesting(data)[(a + C) + 1] = at
    <2>1. (a + K) + G + 1 = a + C
      BY <1>1, <1>2
    <2>2. a + C \in 1..Len(data)
      <3>1. Stands(data, a + C, g)
        BY <1>1 DEF C
      <3>2. a + C + G <= Len(data) /\ Len(data) \in Nat
        BY <1>1, <3>1, LengthNat DEF Stands, G
      <3>3. a \in Nat
        BY <1>1
      <3> QED
        BY <1>2, <3>2, <3>3
    <2>3. data[a + C] \notin Marks
      BY <1>1 DEF C, Marks, Quote
    <2>4. Nesting(data)[a + C] = at
      BY <1>7, <2>1
    <2> QED
      BY <1>1, <1>3, <2>2, <2>3, <2>4, AfterByte
  <1>9. Nesting(data)[(a + C) + G + 1] = at
    <2>1. a + C \in Nat /\ Stands(data, a + C, g)
      BY <1>1, <1>2 DEF C
    <2> QED
      BY <1>1, <1>3, <1>4, <1>8, <2>1, AfterLoose DEF G
  <1>10. Nesting(data)[w + 1] = at
    <2>1. (a + C) + G + 1 = w + 1
      BY <1>1, <1>2
    <2> QED
      BY <1>9, <2>1
  <1>11. Nesting(data)[w + r] = b
    <2>1. Reading(Outermost, data)[w + 1] = at /\ Outermost \in Scan
      BY <1>10, OutermostIs DEF Nesting
    <2>2. \A n \in 1..(Len(t) + 1) : Reading(Outermost, data)[w + n] = Reading(at, t)[n]
      <3>1. data \in Texts /\ t \in Texts /\ w \in Nat
        BY <1>1, <1>2
      <3> HIDE DEF b
      <3> QED
        BY <1>3, <1>5, <2>1, <3>1, ReadingStands
    <2>3. r \in 1..(Len(t) + 1) /\ Len(t) \in Nat
      BY <1>1, LengthNat
    <2> QED
      BY <2>2, <2>3 DEF Nesting
  <1>12. t[r] = Quote
    <2>1. r \in 1..Len(t)
      OBVIOUS
    <2>2. data[w + r] = t[r]
      BY <1>5, <2>1 DEF Stands
    <2> QED
      BY <2>2 DEF w
  <1>13. Covered(t) /\ Below(t)
    BY <1>1, WrittenTidy DEF Tidy, Loose
  <1>14. b.string \/ b.object > at.object \/ b.list > at.list
    BY <1>3, <1>12, <1>13 DEF Covered
  <1>15. b \in Scan
    <2>1. r \in 1..Len(t)
      OBVIOUS
    <2> QED
      BY <1>3, <1>13, <2>1 DEF Below
  <1>16. at.object = DirectDepth(data) /\ at.list = 0
    BY DEF Setting, Direct, at
  <1>17. at.object \in Nat /\ b.object \in Nat /\ b.list \in Nat
    BY <1>3, <1>15 DEF Scan
  <1> HIDE DEF b
  <1>18. ~Direct(b, data)
    <2> SUFFICES ASSUME ~b.string, b.object = at.object, b.list = 0 PROVE FALSE
      BY <1>16 DEF Direct
    <2>1. b.object > at.object \/ b.list > at.list
      BY <1>14
    <2> QED
      BY <1>16, <1>17, <2>1
  <1> QED
    BY <1>11, <1>18 DEF w

(* A sum of numbers.                                                       *)
LEMMA PlusNat ==
  ASSUME NEW x \in Nat, NEW y \in Nat
  PROVE  x + y \in Nat
  OBVIOUS

(* The places of a member, as numbers.                                     *)
LEMMA MemberSizes ==
  ASSUME NEW data, NEW o, NEW v, Setting(data, o, v), NEW h \in 1..Len(v.members),
         NEW a, a = KeyAt(o, v, h), NEW m, m = v.members[h], NEW g, g = v.gap
  PROVE  /\ a \in Nat /\ Len(g) \in Nat /\ Len(Quoted(m.key)) \in Nat /\ Len(m.value.text) \in Nat
         /\ ColonIn(g, m) \in Nat /\ ColonIn(g, m) = Len(Quoted(m.key)) + Len(g) + 1
         /\ ValueIn(g, m) \in Nat /\ ValueIn(g, m) = ColonIn(g, m) + Len(g)
         /\ ValueAt(o, v, h) = a + ValueIn(g, m) /\ ValueAt(o, v, h) \in Nat
         /\ Len(MemberTexts(v)[h]) = ValueIn(g, m) + Len(m.value.text)
  <1>1. /\ a \in Nat /\ g \in Blanks /\ m.key \in Texts /\ m.value.text \in Texts
        /\ MemberTexts(v)[h] = Member(g, m) /\ Len(Member(g, m)) = ValueIn(g, m) + Len(m.value.text)
    BY MemberAt
  <1>2. /\ Len(g) \in Nat /\ Len(Quoted(m.key)) \in Nat
        /\ ColonIn(g, m) \in Nat /\ ColonIn(g, m) = Len(Quoted(m.key)) + Len(g) + 1
        /\ ValueIn(g, m) \in Nat /\ ValueIn(g, m) = ColonIn(g, m) + Len(g)
    BY <1>1, MemberPlaces
  <1>3. ValueAt(o, v, h) = a + ValueIn(g, m)
    BY DEF ValueAt
  <1>4. Len(m.value.text) \in Nat
    BY <1>1, LengthNat
  <1>5. ValueAt(o, v, h) \in Nat
    <2>1. a \in Nat /\ ValueIn(g, m) \in Nat
      BY <1>1, <1>2
    <2>2. a + ValueIn(g, m) \in Nat
      BY <2>1, PlusNat
    <2> QED
      BY <1>3, <2>2
  <1> QED
    BY <1>1, <1>2, <1>3, <1>4, <1>5

(* Nothing but a member's key is taken for a key.                          *)
LEMMA OnlyKeys ==
  ASSUME NEW data, NEW o, NEW v, Setting(data, o, v), NEW key \in Texts, Bare(key),
         NEW j \in 1..Len(data), data[j] = Quote,
         Direct(Nesting(data)[j], data), Colon(data, j, key) # 0
  PROVE  \E h \in 1..Len(v.members) : j = KeyAt(o, v, h) + 1 /\ v.members[h].key = key
  <1> DEFINE parts == MemberParts(v)
             inner == MemberTexts(v)
             g == v.gap
  <1>1. /\ IsObjectOf(v, Values) /\ PartsStand(data, o, parts, g, inner)
        /\ j > o /\ j <= o + Len(Joined(parts) \o g)
    BY DEF Setting, Span
  <1>2. Len(parts) = Len(v.members) /\ g \in Blanks
    BY <1>1, ObjectParts
  <1>3. data \in Texts /\ o \in Nat /\ Len(data) \in Nat
    BY <1>1, LengthNat DEF PartsStand
  <1>4. j \in (o + 1)..(o + Len(Joined(parts) \o g))
    <2>1. Len(Joined(parts) \o g) \in Nat
      BY <1>1, PartsLength, LengthNat DEF PartsStand
    <2> HIDE DEF parts, g
    <2> QED
      BY <1>1, <1>3, <2>1
  <1> HIDE DEF parts, g, inner
  <1>5. \E h \in 1..Len(parts) : \E r \in 1..Len(inner[h]) : j = o + Spot(parts, g, h) + r
    BY <1>1, <1>4, QuoteInside
  <1>6. PICK h \in 1..Len(parts) : \E r \in 1..Len(inner[h]) : j = o + Spot(parts, g, h) + r
    BY <1>5
  <1>7. PICK r \in 1..Len(inner[h]) : j = o + Spot(parts, g, h) + r
    BY <1>6
  <1>8. h \in 1..Len(v.members)
    BY <1>2
  <1> DEFINE m == v.members[h]
             a == KeyAt(o, v, h)
             k == Quoted(m.key)
             t == m.value.text
             K == Len(k)
             G == Len(g)
             C == ColonIn(g, m)
             W == ValueIn(g, m)
             w == ValueAt(o, v, h)
             T == Len(t)
  <1>9. /\ a \in Nat /\ G \in Nat /\ K \in Nat /\ T \in Nat /\ C \in Nat /\ C = K + G + 1
        /\ W \in Nat /\ W = C + G /\ w = a + W /\ w \in Nat /\ Len(inner[h]) = W + T
    <2> HIDE DEF m, a, g, inner
    <2>a. a = KeyAt(o, v, h) /\ m = v.members[h] /\ g = v.gap /\ inner = MemberTexts(v)
      BY DEF a, m, g, inner
    <2>b. /\ a \in Nat /\ Len(g) \in Nat /\ Len(Quoted(m.key)) \in Nat /\ Len(m.value.text) \in Nat
          /\ ColonIn(g, m) \in Nat /\ ColonIn(g, m) = Len(Quoted(m.key)) + Len(g) + 1
          /\ ValueIn(g, m) \in Nat /\ ValueIn(g, m) = ColonIn(g, m) + Len(g)
          /\ ValueAt(o, v, h) = a + ValueIn(g, m) /\ ValueAt(o, v, h) \in Nat
          /\ Len(MemberTexts(v)[h]) = ValueIn(g, m) + Len(m.value.text)
      <3> HIDE DEF K, G, C, W, w, T, k, t
      <3>1. a \in Nat /\ Len(g) \in Nat /\ Len(Quoted(m.key)) \in Nat /\ Len(m.value.text) \in Nat
        BY <1>8, <2>a, MemberSizes
      <3>2. ColonIn(g, m) \in Nat /\ ColonIn(g, m) = Len(Quoted(m.key)) + Len(g) + 1
        <4>1. g \in Blanks /\ m.key \in Texts
          BY <1>8, <2>a, MemberAt
        <4> QED
          BY <4>1, MemberPlaces
      <3>3. ValueIn(g, m) \in Nat /\ ValueIn(g, m) = ColonIn(g, m) + Len(g)
        <4>1. g \in Blanks /\ m.key \in Texts
          BY <1>8, <2>a, MemberAt
        <4> QED
          BY <4>1, MemberPlaces
      <3>4. ValueAt(o, v, h) = a + ValueIn(g, m) /\ ValueAt(o, v, h) \in Nat
        BY <1>8, <2>a, MemberSizes
      <3>5. Len(MemberTexts(v)[h]) = ValueIn(g, m) + Len(m.value.text)
        <4>1. /\ m.key \in Texts /\ m.value.text \in Texts /\ g \in Blanks
              /\ MemberTexts(v)[h] = Member(g, m)
          BY <1>1, <1>2, <1>8, <2>a, ObjectParts
        <4> QED
          BY <4>1, MemberIs
      <3> QED
        BY <3>1, <3>2, <3>3, <3>4, <3>5
    <2> QED
      BY <2>a, <2>b
  <1>10. /\ Stands(data, a + K, g) /\ data[a + C] = ":" /\ Stands(data, a + C, g)
    <2>1. a = KeyAt(o, v, h) /\ m = v.members[h] /\ g = v.gap
      BY DEF a, m, g
    <2>2. K = Len(Quoted(m.key)) /\ C = ColonIn(g, m)
      BY DEF K, C, k
    <2> HIDE DEF m, a, g, K, C, G, W, w, T, k, t
    <2>3. /\ Stands(data, a + Len(Quoted(m.key)), g)
          /\ data[a + ColonIn(g, m)] = ":" /\ Stands(data, a + ColonIn(g, m), g)
      BY <1>8, <2>1, MemberAt
    <2> QED
      BY <2>2, <2>3
  <1>11. j = a + r /\ r \in 1..(W + T)
    <2>1. a = o + Spot(parts, g, h)
      BY DEF KeyAt, parts, g
    <2> QED
      BY <1>7, <1>9, <2>1
  <1>r. r \in Nat /\ r >= 1 /\ r <= W + T
    <2> HIDE DEF W, T
    <2> QED
      BY <1>9, <1>11
  <1>k. ASSUME NEW y \in 2..K PROVE ~Direct(Nesting(data)[a + y], data)
    BY <1>8, <1>k, KeyDeeper
  <1>v. ASSUME NEW y \in 2..T, data[w + y] = Quote PROVE ~Direct(Nesting(data)[w + y], data)
    BY <1>8, <1>v, ValueDeeper
  <1>f. Colon(data, a + 1, key) # 0 => m.key = key
    <2>1. Colon(data, a + 1, key) = IF m.key = key THEN a + C ELSE 0
      BY <1>8, KeyFound DEF g
    <2> QED
      BY <2>1
  <1>n. data[w + 1] = Quote => Colon(data, w + 1, key) = 0
    BY <1>8, NoKeyInValue
  <1>b. ASSUME NEW x \in Nat, Stands(data, x, g), NEW y \in 1..G, j = x + y PROVE FALSE
    <2>1. data[j] = g[y] /\ g[y] = Blank
      BY <1>2, <1>b, GapBlank DEF Stands
    <2> QED
      BY <2>1, BlankIs
  <1> HIDE DEF K, G, C, W, w, T, a, m, k, t
  <1>12. CASE r = 1
    <2>1. j = a + 1
      BY <1>11, <1>12
    <2>2. m.key = key
      BY <1>f, <2>1
    <2> QED
      BY <1>8, <2>1, <2>2 DEF a, m
  <1>13. CASE r > 1 /\ r <= K
    <2>1. r \in 2..K
      BY <1>9, <1>r, <1>13
    <2> QED
      BY <1>11, <1>k, <2>1
  <1>14. CASE r > K /\ r <= K + G
    <2>1. r - K \in 1..G /\ j = (a + K) + (r - K) /\ a + K \in Nat
      BY <1>9, <1>11, <1>r, <1>14
    <2> QED
      BY <1>10, <1>b, <2>1
  <1>15. CASE r = C
    <2>1. ":" # Quote
      BY DEF Quote
    <2>2. data[j] = ":"
      BY <1>10, <1>11, <1>15
    <2> QED
      BY <2>1, <2>2
  <1>16. CASE r > C /\ r <= W
    <2>1. r - C \in 1..G /\ j = (a + C) + (r - C) /\ a + C \in Nat
      BY <1>9, <1>11, <1>r, <1>16
    <2> QED
      BY <1>10, <1>b, <2>1
  <1>17. CASE r = W + 1
    <2>1. j = w + 1
      BY <1>9, <1>11, <1>17
    <2> QED
      BY <1>n, <2>1
  <1>18. CASE r > W + 1
    <2>1. r - W \in 2..T /\ j = w + (r - W)
      BY <1>9, <1>11, <1>r, <1>18
    <2> QED
      BY <1>v, <2>1
  <1>19. r = 1 \/ (r > 1 /\ r <= K) \/ (r > K /\ r <= K + G) \/ r = C \/ (r > C /\ r <= W)
         \/ r = W + 1 \/ r > W + 1
    BY <1>9, <1>r
  <1> QED
    BY <1>12, <1>13, <1>14, <1>15, <1>16, <1>17, <1>18, <1>19

(* The keys stand in the order of the members.                             *)
LEMMA KeysGrow ==
  ASSUME NEW data, NEW o, NEW v, Setting(data, o, v),
         NEW i \in 1..Len(v.members), NEW h \in 1..Len(v.members), i <= h
  PROVE  KeyAt(o, v, i) <= KeyAt(o, v, h)
  <1> DEFINE parts == MemberParts(v)
             inner == MemberTexts(v)
             g == v.gap
  <1>1. IsObjectOf(v, Values) /\ PartsStand(data, o, parts, g, inner)
    BY DEF Setting
  <1>2. Len(parts) = Len(v.members)
    BY <1>1, ObjectParts
  <1>3. o \in Nat /\ PartsOf(parts, g, inner) /\ parts \in Seq(Texts)
    BY <1>1 DEF PartsStand, PartsOf
  <1> DEFINE si == Spot(parts, g, i)
             sh == Spot(parts, g, h)
             Fi == Front(parts, i)
             Fh == Front(parts, h - 1)
  <1>4. /\ si \in Nat /\ Fi = si + Len(inner[i]) + Len(g) /\ Len(inner[i]) \in Nat
        /\ Len(g) \in Nat /\ Fi \in Nat /\ i \in Nat
    <2>1. i \in 1..Len(parts)
      BY <1>2
    <2> HIDE DEF parts, g, inner
    <2> QED
      BY <2>1, <1>3, SpotIs
  <1>5. /\ sh \in Nat /\ sh = Fh + CommaLen(h) + Len(g) /\ CommaLen(h) \in 0..1 /\ Fh \in Nat
        /\ h \in Nat /\ Len(parts) \in Nat
    <2>1. h \in 1..Len(parts)
      BY <1>2
    <2> HIDE DEF parts, g, inner
    <2> QED
      BY <2>1, <1>3, SpotIs
  <1>6. KeyAt(o, v, i) = o + si /\ KeyAt(o, v, h) = o + sh
    BY DEF KeyAt
  <1>7. CASE i = h
    BY <1>3, <1>4, <1>6, <1>7
  <1>8. CASE i < h
    <2>1. i \in 0..Len(parts) /\ h - 1 \in 0..Len(parts) /\ i <= h - 1
      BY <1>2, <1>4, <1>5, <1>8
    <2>2. Fi <= Fh
      BY <1>3, <2>1, FrontsGrow
    <2> DEFINE l == Len(inner[i])
               G == Len(g)
               c == CommaLen(h)
    <2>3. /\ si \in Nat /\ Fi = si + l + G /\ l \in Nat /\ G \in Nat /\ Fi \in Nat
          /\ sh \in Nat /\ sh = Fh + c + G /\ c \in Nat /\ Fh \in Nat
      BY <1>4, <1>5
    <2>4. KeyAt(o, v, i) = o + si /\ KeyAt(o, v, h) = o + sh /\ o \in Nat
      BY <1>3, <1>6
    <2> HIDE DEF si, sh, Fi, Fh, l, G, c
    <2>5. si <= sh
      BY <2>2, <2>3
    <2>6. o + si <= o + sh
      BY <2>3, <2>4, <2>5
    <2> QED
      BY <2>4, <2>6
  <1> QED
    BY <1>4, <1>5, <1>7, <1>8

(* Where the value of the first member with this key begins.               *)
MembersNamed(v, key) == {h \in 1..Len(v.members) : v.members[h].key = key}

(* FindValue goes to the value of the first member with the key, and
   nowhere if there is none.                                               *)
LEMMA FindValueIs ==
  ASSUME NEW data, NEW o, NEW v, Setting(data, o, v), NEW key \in Texts, Bare(key)
  PROVE  /\ MembersNamed(v, key) = {} => FindValue(data, key) = 0
         /\ MembersNamed(v, key) # {} =>
              /\ Min(MembersNamed(v, key)) \in MembersNamed(v, key)
              /\ First(MembersNamed(v, key)) = Min(MembersNamed(v, key))
              /\ Min(MembersNamed(v, key)) # 0
              /\ FindValue(data, key) = ValueAt(o, v, Min(MembersNamed(v, key))) + 1
              /\ FindValue(data, key) <= Len(data)
  <1> DEFINE H == MembersNamed(v, key)
             S == {j \in 1..Len(data) :
                     data[j] = Quote /\ Direct(Nesting(data)[j], data) /\ Colon(data, j, key) # 0}
             i == First(S)
             p == IF i = 0 THEN 0 ELSE SkipWs(data, Colon(data, i, key) + 1)
  <1>1. FindValue(data, key) = IF p > Len(data) THEN 0 ELSE p
    BY DEF FindValue
  <1>2. data \in Texts /\ o \in Nat /\ Len(data) \in Nat
    BY LengthNat DEF Setting, PartsStand
  <1>s. \A j \in S : j \in 1..Len(data) /\ data[j] = Quote /\ Direct(Nesting(data)[j], data)
                     /\ Colon(data, j, key) # 0
    OBVIOUS
  <1>3. \A j \in S : \E h \in H : j = KeyAt(o, v, h) + 1
    <2> SUFFICES ASSUME NEW j \in S PROVE \E h \in H : j = KeyAt(o, v, h) + 1
      OBVIOUS
    <2>1. \E h \in 1..Len(v.members) : j = KeyAt(o, v, h) + 1 /\ v.members[h].key = key
      BY <1>s, OnlyKeys
    <2> QED
      BY <2>1 DEF MembersNamed
  <1>4. ASSUME H = {} PROVE FindValue(data, key) = 0
    <2>1. S = {}
      BY <1>3, <1>4
    <2> HIDE DEF S
    <2>2. i = 0
      BY <2>1 DEF First
    <2>3. p = 0
      BY <2>2
    <2> HIDE DEF p
    <2> QED
      BY <1>1, <1>2, <2>3
  <1>5. ASSUME H # {}
        PROVE  /\ Min(H) \in H /\ First(H) = Min(H) /\ Min(H) # 0
               /\ FindValue(data, key) = ValueAt(o, v, Min(H)) + 1
               /\ FindValue(data, key) <= Len(data)
    <2>1. H \in SUBSET Nat /\ \A h \in H : h \in 1..Len(v.members) /\ v.members[h].key = key
      BY DEF MembersNamed
    <2> HIDE DEF H
    <2>2. Min(H) \in H /\ First(H) = Min(H) /\ \A h \in H : Min(H) <= h
      BY <1>5, <2>1, MinIn
    <2> DEFINE h == Min(H)
               a == KeyAt(o, v, h)
               m == v.members[h]
               g == v.gap
    <2>3. h \in 1..Len(v.members) /\ m.key = key
      BY <2>1, <2>2
    <2>4. /\ a + 1 \in 1..Len(data) /\ data[a + 1] = Quote
          /\ Direct(Nesting(data)[a + 1], data)
          /\ Colon(data, a + 1, key) = IF m.key = key THEN a + ColonIn(g, m) ELSE 0
          /\ a + ColonIn(g, m) # 0
          /\ SkipWs(data, (a + ColonIn(g, m)) + 1) = a + ValueIn(g, m) + 1
          /\ a + ValueIn(g, m) + 1 <= Len(data)
      BY <2>3, KeyFound
    <2>5. Colon(data, a + 1, key) = a + ColonIn(g, m)
      BY <2>3, <2>4
    <2>6. a + 1 \in S
      BY <2>4, <2>5
    <2>7. \A j \in S : a + 1 <= j
      <3> SUFFICES ASSUME NEW j \in S PROVE a + 1 <= j
        OBVIOUS
      <3> HIDE DEF S, h
      <3>1. PICK x \in H : j = KeyAt(o, v, x) + 1
        BY <1>3
      <3>2. x \in 1..Len(v.members) /\ h <= x
        BY <2>1, <2>2, <3>1 DEF h
      <3>3. a <= KeyAt(o, v, x)
        BY <2>3, <3>2, KeysGrow
      <3>4. a \in Nat /\ KeyAt(o, v, x) \in Nat
        BY <2>3, <3>2, MemberSizes
      <3> HIDE DEF a
      <3> QED
        BY <3>1, <3>3, <3>4
    <2>8. S \in SUBSET Int
      BY <1>2
    <2> HIDE DEF S, h, a, m, g
    <2>9. i = a + 1
      BY <2>6, <2>7, <2>8, MinIs
    <2>10. ValueAt(o, v, h) = a + ValueIn(g, m) /\ a \in Nat
      BY <2>3, MemberSizes DEF a, g, m
    <2>11. p = ValueAt(o, v, h) + 1
      <3>1. a + 1 # 0
        BY <2>10
      <3>2. p = SkipWs(data, Colon(data, a + 1, key) + 1)
        BY <2>9, <3>1
      <3> QED
        BY <2>4, <2>5, <2>10, <3>2
    <2>12. p <= Len(data)
      BY <2>4, <2>10, <2>11
    <2>13. h # 0
      BY <2>3
    <2>14. ValueAt(o, v, h) \in Nat
      BY <2>3, MemberSizes
    <2> HIDE DEF p
    <2>15. ~(p > Len(data))
      BY <1>2, <2>11, <2>12, <2>14
    <2> QED
      BY <1>1, <2>2, <2>11, <2>12, <2>13, <2>15 DEF h
  <1> HIDE DEF H
  <1>6. /\ H = {} => FindValue(data, key) = 0
        /\ H # {} =>
              /\ Min(H) \in H /\ First(H) = Min(H) /\ Min(H) # 0
              /\ FindValue(data, key) = ValueAt(o, v, Min(H)) + 1
              /\ FindValue(data, key) <= Len(data)
    BY <1>4, <1>5
  <1> QED
    BY <1>6 DEF H

-----------------------------------------------------------------------------
(* The readers, once the value is found.                                   *)

Ended(data, e) ==
  LET q == SkipWs(data, e)
  IN q \in Nat /\ q <= Len(data) + 1 /\ (q <= Len(data) => data[q] \in {",", "}"})

ValueStands(data, w, u) ==
  /\ data \in Texts /\ w \in Nat /\ u \in Values
  /\ Stands(data, w, u.text) /\ w + 1 <= Len(data) /\ data[w + 1] = u.text[1]
  /\ Ended(data, w + Len(u.text) + 1)

Located(data, key, u) ==
  \/ u = Missing /\ FindValue(data, key) = 0
  \/ \E w \in Nat : FindValue(data, key) = w + 1 /\ ValueStands(data, w, u)

(* What a reader finds at the value of a member.                           *)
LEMMA ValueStandsAt ==
  ASSUME NEW data, NEW o, NEW v, Setting(data, o, v), NEW h \in 1..Len(v.members)
  PROVE  /\ ValueAt(o, v, h) \in Nat
         /\ ValueStands(data, ValueAt(o, v, h), v.members[h].value)
  <1> DEFINE m == v.members[h]
             u == m.value
             g == v.gap
             a == KeyAt(o, v, h)
             w == ValueAt(o, v, h)
  <1>1. /\ data \in Texts /\ a \in Nat /\ g \in Blanks /\ m.key \in Texts
        /\ u \in Values /\ u.text \in Texts /\ Stands(data, a + ValueIn(g, m), u.text)
    BY MemberAt
  <1>2. w = a + ValueIn(g, m) /\ w \in Nat
    <2>1. ValueIn(g, m) \in Nat
      BY <1>1, MemberPlaces
    <2>2. a + ValueIn(g, m) \in Nat
      BY <1>1, <2>1, PlusNat
    <2> QED
      BY <2>2 DEF ValueAt
  <1>3. Stands(data, w, u.text)
    BY <1>1, <1>2
  <1>4. Ended(data, w + Len(u.text) + 1)
    BY MemberFollowed DEF Ended
  <1> HIDE DEF w, a, g, u, m
  <1>5. 1 \in 1..Len(u.text) /\ Len(u.text) >= 1 /\ Len(u.text) \in Nat /\ Len(data) \in Nat
    <2>1. Len(u.text) >= 1 /\ Len(u.text) \in Nat
      BY <1>1, StartsWith DEF Starts
    <2>2. Len(data) \in Nat
      BY <1>1, LengthNat
    <2> QED
      BY <2>1, <2>2
  <1>6. data[w + 1] = u.text[1]
    BY <1>3, <1>5 DEF Stands
  <1>7. w + 1 <= Len(data)
    <2>1. w + Len(u.text) <= Len(data)
      BY <1>3 DEF Stands
    <2> QED
      BY <1>2, <1>5, <2>1
  <1>8. ValueStands(data, w, u)
    BY <1>1, <1>2, <1>3, <1>4, <1>6, <1>7 DEF ValueStands
  <1> QED
    BY <1>2, <1>8 DEF w, u, m

(* FindValue locates what MemberOf means.                                  *)
LEMMA ValueFound ==
  ASSUME NEW data, NEW o, NEW v, Setting(data, o, v), NEW key \in Texts, Bare(key)
  PROVE  Located(data, key, MemberOf(v, key))
  <1> DEFINE H == MembersNamed(v, key)
             h == Min(H)
  <1>1. MemberOf(v, key) = IF First(H) = 0 THEN Missing ELSE v.members[First(H)].value
    BY DEF MemberOf, MembersNamed
  <1>2. CASE H = {}
    <2>1. FindValue(data, key) = 0
      BY <1>2, FindValueIs
    <2>2. First(H) = 0
      BY <1>2 DEF First
    <2> HIDE DEF H
    <2> QED
      BY <1>1, <2>1, <2>2 DEF Located
  <1>3. CASE H # {}
    <2>1. h \in H /\ First(H) = h /\ h # 0 /\ FindValue(data, key) = ValueAt(o, v, h) + 1
      BY <1>3, FindValueIs
    <2>2. h \in 1..Len(v.members)
      BY <2>1 DEF MembersNamed
    <2> HIDE DEF H, h
    <2>3. MemberOf(v, key) = v.members[h].value
      BY <1>1, <2>1
    <2>4. ValueAt(o, v, h) \in Nat /\ ValueStands(data, ValueAt(o, v, h), v.members[h].value)
      BY <2>2, ValueStandsAt
    <2> QED
      BY <2>1, <2>3, <2>4 DEF Located
  <1> QED
    BY <1>2, <1>3

(* What is missing has a kind of its own.                                  *)
LEMMA MissingIs == Missing.kind = "missing"
  BY DEF Missing

(* Two numbers compare.                                                    *)
LEMMA Either ==
  ASSUME NEW x \in Nat, NEW y \in Nat
  PROVE  x > y \/ x <= y
  OBVIOUS

(* json_string_value.                                                      *)
LEMMA StringRead ==
  ASSUME NEW data, NEW key, NEW u, Located(data, key, u), NEW size \in Nat
  PROVE  StringValue(data, key, size) = IF Readable(u, size - 1) THEN Some(u.bytes) ELSE None
  <1> DEFINE p == FindValue(data, key)
             string == IF p # 0 /\ data[p] = Quote THEN Plain(data, p, size - 1) ELSE None
             ends == {",", "}", "]"}
             goes == string.found /\ EndsWith(data, SkipWs(data, string.value.end + 1), ends)
  <1>1. StringValue(data, key, size) = IF goes THEN Some(string.value.bytes) ELSE None
    BY DEF StringValue
  <1>2. ASSUME ~(p # 0 /\ data[p] = Quote) PROVE StringValue(data, key, size) = None
    <2>1. string = None
      BY <1>2
    <2> HIDE DEF string
    <2>2. ~string.found
      BY <2>1 DEF None
    <2> QED
      BY <1>1, <2>2
  <1>3. CASE u = Missing /\ p = 0
    <2>1. ~Readable(u, size - 1)
      BY <1>3, MissingIs DEF Readable
    <2> QED
      BY <1>2, <1>3, <2>1
  <1>4. ASSUME NEW w \in Nat, p = w + 1, ValueStands(data, w, u)
        PROVE  StringValue(data, key, size) = IF Readable(u, size - 1) THEN Some(u.bytes) ELSE None
    <2>1. data \in Texts /\ u \in Values /\ Stands(data, w, u.text) /\ data[w + 1] = u.text[1]
          /\ Ended(data, w + Len(u.text) + 1)
      BY <1>4 DEF ValueStands
    <2>2. Starts(u) /\ KindIs(u)
      BY <2>1, StartsWith, KindOf
    <2>3. CASE u.kind # "text"
      <3>1. data[p] # Quote
        BY <1>4, <2>1, <2>2, <2>3 DEF Starts
      <3>2. ~Readable(u, size - 1)
        BY <2>3 DEF Readable
      <3> QED
        BY <1>2, <3>1, <3>2
    <2>4. CASE u.kind = "text"
      <3> DEFINE k == u.bytes
                 n == Len(Quoted(k))
      <3>1. k \in Texts /\ u.text = Quoted(k)
        BY <2>2, <2>4 DEF KindIs, IsText
      <3>2. p # 0 /\ data[p] = Quote
        <4> HIDE DEF p
        <4>1. p # 0
          BY <1>4
        <4>2. data[p] = Quote
          BY <1>4, <2>1, <2>2, <2>4 DEF Starts
        <4> QED
          BY <4>1, <4>2
      <3>3. string = Plain(data, w + 1, size - 1)
        BY <1>4, <3>2
      <3> HIDE DEF k, n
      <3>4. Plain(data, w + 1, size - 1) =
              IF Bare(k) /\ Len(k) <= size - 1
                THEN Some([bytes |-> k, end |-> w + Len(Quoted(k))]) ELSE None
        <4>1. Stands(data, w, Quoted(k)) /\ size - 1 \in Int
          BY <2>1, <3>1
        <4> QED
          BY <2>1, <3>1, <4>1, PlainIs
      <3>5. Readable(u, size - 1) <=> Bare(k) /\ Len(k) <= size - 1
        BY <2>4 DEF Readable, Bare, k
      <3> HIDE DEF string
      <3>6. CASE Readable(u, size - 1)
        <4>1. string = Some([bytes |-> k, end |-> w + n])
          BY <3>3, <3>4, <3>5, <3>6 DEF n
        <4>2. string.found /\ string.value.bytes = k /\ string.value.end = w + n
          BY <4>1 DEF Some
        <4>3. Ended(data, w + n + 1)
          BY <2>1, <3>1 DEF n
        <4>4. EndsWith(data, SkipWs(data, w + n + 1), ends)
          <5> DEFINE q == SkipWs(data, w + n + 1)
          <5>1. q \in Nat /\ q <= Len(data) + 1 /\ (q <= Len(data) => data[q] \in {",", "}"})
            BY <4>3 DEF Ended
          <5>2. Len(data) \in Nat
            BY <2>1, LengthNat
          <5> HIDE DEF q
          <5>a. q \in Nat
            BY <5>1
          <5>3. q > Len(data) \/ q <= Len(data)
            BY <5>a, <5>2, Either
          <5>4. q > Len(data) \/ data[q] \in ends
            BY <5>1, <5>3
          <5> HIDE DEF ends
          <5>5. EndsWith(data, q, ends)
            BY <5>4 DEF EndsWith
          <5> QED
            BY <5>5 DEF q
        <4> HIDE DEF ends
        <4>5. goes
          BY <4>2, <4>4
        <4> HIDE DEF goes
        <4> QED
          BY <1>1, <3>6, <4>2, <4>5 DEF k
      <3>7. CASE ~Readable(u, size - 1)
        <4>1. string = None
          BY <3>3, <3>4, <3>5, <3>7
        <4>2. ~string.found
          BY <4>1 DEF None
        <4> QED
          BY <1>1, <3>7, <4>2
      <3> QED
        BY <3>6, <3>7
    <2> QED
      BY <2>3, <2>4
  <1> HIDE DEF p, string, goes
  <1>5. (u = Missing /\ p = 0) \/ \E w \in Nat : p = w + 1 /\ ValueStands(data, w, u)
    BY DEF Located, p
  <1> QED
    BY <1>3, <1>4, <1>5

(* json_true_value.                                                        *)
LEMMA TrueRead ==
  ASSUME NEW data, NEW key, NEW u, Located(data, key, u)
  PROVE  TrueValue(data, key) <=> u.kind = "true"
  <1> DEFINE p == FindValue(data, key)
             true == <<"t", "r", "u", "e">>
             next == SkipWs(data, p + 4)
  <1>1. TrueValue(data, key) <=>
          /\ p # 0 /\ p + 4 <= Len(data) + 1
          /\ SubSeq(data, p, p + 3) = true
          /\ EndsWith(data, next, {",", "}"})
    BY DEF TrueValue
  <1>2. CASE u = Missing /\ p = 0
    BY <1>1, <1>2, MissingIs
  <1>3. ASSUME NEW w \in Nat, p = w + 1, ValueStands(data, w, u)
        PROVE  TrueValue(data, key) <=> u.kind = "true"
    <2>1. data \in Texts /\ u \in Values /\ Stands(data, w, u.text) /\ data[w + 1] = u.text[1]
          /\ Ended(data, w + Len(u.text) + 1) /\ Len(data) \in Nat
      BY <1>3, LengthNat DEF ValueStands
    <2>2. Starts(u) /\ KindIs(u)
      BY <2>1, StartsWith, KindOf
    <2>3. p \in Nat /\ p >= 1 /\ p + 3 \in Nat /\ p <= (p + 3) + 1 /\ (p + 3) - p + 1 = 4
          /\ (p + 4 <= Len(data) + 1 => p + 3 <= Len(data)) /\ p # 0
      <3> DEFINE L == Len(data)
      <3>1. p = w + 1 /\ L \in Nat
        BY <1>3, <2>1
      <3> HIDE DEF p, L
      <3>2. p \in Nat /\ p >= 1 /\ p + 3 \in Nat /\ p <= (p + 3) + 1 /\ (p + 3) - p + 1 = 4
            /\ (p + 4 <= L + 1 => p + 3 <= L) /\ p # 0
        BY <3>1
      <3> QED
        BY <3>2 DEF L
    <2> HIDE DEF p
    <2>4. p + 4 <= Len(data) + 1 =>
            /\ SubSeq(data, p, p + 3) \in Texts /\ Len(SubSeq(data, p, p + 3)) = 4
            /\ \A i \in 1..4 : SubSeq(data, p, p + 3)[i] = data[p + i - 1]
      <3> SUFFICES ASSUME p + 4 <= Len(data) + 1
                   PROVE  /\ SubSeq(data, p, p + 3) \in Texts /\ Len(SubSeq(data, p, p + 3)) = 4
                          /\ \A i \in 1..4 : SubSeq(data, p, p + 3)[i] = data[p + i - 1]
        OBVIOUS
      <3> DEFINE b == p + 3
      <3>1. b \in Nat /\ p <= b + 1 /\ b <= Len(data) /\ b - p + 1 = 4
        BY <2>3
      <3> HIDE DEF b
      <3>2. /\ SubSeq(data, p, b) \in Texts /\ Len(SubSeq(data, p, b)) = b - p + 1
            /\ \A i \in 1..(b - p + 1) : SubSeq(data, p, b)[i] = data[p + i - 1]
        BY <2>1, <2>3, <3>1, PieceIs
      <3> QED
        BY <3>1, <3>2 DEF b
    <2>5. CASE u.kind # "true"
      <3>1. data[p] # "t"
        BY <1>3, <2>1, <2>2, <2>5 DEF Starts
      <3>2. ASSUME TrueValue(data, key) PROVE FALSE
        <4>1. p + 4 <= Len(data) + 1 /\ SubSeq(data, p, p + 3) = true
          BY <1>1, <3>2
        <4>a. 1 \in 1..4
          OBVIOUS
        <4>2. SubSeq(data, p, p + 3)[1] = data[p + 1 - 1]
          BY <2>4, <4>1, <4>a
        <4>3. p + 1 - 1 = p
          BY <2>3
        <4>4. true[1] = "t"
          OBVIOUS
        <4> HIDE DEF true
        <4> QED
          BY <3>1, <4>1, <4>2, <4>3, <4>4
      <3> QED
        BY <2>5, <3>2
    <2>6. CASE u.kind = "true"
      <3>1. u.text = true
        BY <2>2, <2>6 DEF KindIs, IsTrue
      <3>2. Len(true) = 4 /\ true \in Texts
        <4>1. Len(true) = 4
          OBVIOUS
        <4> QED
          BY <2>2, <3>1, <4>1 DEF Starts
      <3> HIDE DEF true, next
      <3>3. w + 4 <= Len(data) /\ \A i \in 1..4 : data[w + i] = true[i]
        BY <2>1, <3>1, <3>2 DEF Stands
      <3>4. p + 4 <= Len(data) + 1 /\ w + 4 + 1 = p + 4 /\ \A i \in 1..4 : p + i - 1 = w + i
        BY <1>3, <2>1, <3>3
      <3>5. SubSeq(data, p, p + 3) = true
        <4> DEFINE s == SubSeq(data, p, p + 3)
        <4>1. s \in Texts /\ Len(s) = 4 /\ \A i \in 1..4 : s[i] = data[p + i - 1]
          BY <2>4, <3>4
        <4> HIDE DEF s
        <4>2. s \in Seq(Characters) /\ true \in Seq(Characters) /\ Len(s) = Len(true)
          BY <3>2, <4>1 DEF Texts
        <4>3. \A i \in 1..Len(s) : s[i] = true[i]
          BY <3>3, <3>4, <4>1
        <4>4. s = true
          BY <4>2, <4>3, SeqEqual
        <4> QED
          BY <4>4 DEF s
      <3>6. EndsWith(data, next, {",", "}"})
        <4>1. next \in Nat /\ next <= Len(data) + 1 /\ (next <= Len(data) => data[next] \in {",", "}"})
          <5>1. Ended(data, w + 4 + 1)
            BY <2>1, <3>1, <3>2
          <5> QED
            BY <3>4, <5>1 DEF Ended, next
        <4>a. next \in Nat /\ Len(data) \in Nat
          BY <2>1, <4>1
        <4>2. next > Len(data) \/ next <= Len(data)
          BY <4>a, Either
        <4> QED
          BY <4>1, <4>2 DEF EndsWith
      <3> QED
        BY <1>1, <2>3, <2>6, <3>4, <3>5, <3>6
    <2> QED
      BY <2>5, <2>6
  <1> HIDE DEF p
  <1>5. (u = Missing /\ p = 0) \/ \E w \in Nat : p = w + 1 /\ ValueStands(data, w, u)
    BY DEF Located, p
  <1> QED
    BY <1>2, <1>3, <1>5

-----------------------------------------------------------------------------
(* Numbers.                                                                *)

Digits == Seq(DOMAIN Digit)

(* A digit is a number, and no comma or brace a digit.                     *)
LEMMA DigitIs ==
  /\ \A c \in DOMAIN Digit : Digit[c] \in Nat
  /\ "," \notin DOMAIN Digit /\ "}" \notin DOMAIN Digit
  <1>1. \A c \in DOMAIN Digit : Digit[c] \in Nat
    BY DEF Digit
  <1>2. "," \notin DOMAIN Digit /\ "}" \notin DOMAIN Digit
    BY DEF Digit
  <1> QED
    BY <1>1, <1>2

(* What the digits up to each one make.                                    *)
IsNumbers(f, d) ==
  /\ f \in [0..Len(d) -> Nat] /\ f[0] = 0
  /\ \A k \in 1..Len(d) : f[k] = f[k - 1] * 10 + Digit[d[k]]

(* Number is the sum its recursive definition says.                        *)
LEMMA NumberDef ==
  ASSUME NEW d \in Digits
  PROVE  \E f : IsNumbers(f, d) /\ Number(d) = f[Len(d)]
  <1> DEFINE n == Len(d)
             step == [q \in (1..n) \X Nat |-> q[2] * 10 + Digit[d[q[1]]]]
  <1>1. n \in Nat
    BY DEF Digits
  <1>2. \A k \in 1..n : Digit[d[k]] \in Nat
    <2>1. \A k \in 1..n : d[k] \in DOMAIN Digit
      BY DEF Digits
    <2> QED
      BY <2>1, DigitIs
  <1>3. step \in [(1..n) \X Nat -> Nat]
    <2> SUFFICES ASSUME NEW q \in (1..n) \X Nat PROVE q[2] * 10 + Digit[d[q[1]]] \in Nat
      OBVIOUS
    <2>1. q[2] \in Nat /\ Digit[d[q[1]]] \in Nat
      BY <1>2
    <2> QED
      BY <2>1
  <1>5. PICK f \in [0..n -> Nat] :
          f[0] = 0 /\ \A k \in 1..n : f[k] = step[<<k, f[k - 1]>>]
    <2> HIDE DEF n, step
    <2>1. step \in Steps(n, Nat)
      BY <1>3 DEF Steps
    <2>2. Recursed(n, Nat, 0, step)
      BY <1>1, <2>1, Recursion
    <2> QED
      BY <2>2 DEF Recursed
  <1>6. \A k \in 1..n : f[k] = f[k - 1] * 10 + Digit[d[k]]
    <2> SUFFICES ASSUME NEW k \in 1..n PROVE f[k] = f[k - 1] * 10 + Digit[d[k]]
      OBVIOUS
    <2>1. f[k - 1] \in Nat
      BY <1>1, <1>5
    <2>2. <<k, f[k - 1]>> \in (1..n) \X Nat
      BY <2>1
    <2>3. step[<<k, f[k - 1]>>] = f[k - 1] * 10 + Digit[d[k]]
      BY <2>2
    <2> QED
      BY <1>5, <2>3
  <1> DEFINE Right(g) == g = [k \in 0..n |-> IF k = 0 THEN 0 ELSE g[k - 1] * 10 + Digit[d[k]]]
             E == CHOOSE g : Right(g)
  <1>7. Right(f)
    <2>1. f = [k \in 0..n |-> f[k]]
      BY <1>5
    <2>2. \A k \in 0..n : f[k] = IF k = 0 THEN 0 ELSE f[k - 1] * 10 + Digit[d[k]]
      <3> SUFFICES ASSUME NEW k \in 0..n
                   PROVE  f[k] = IF k = 0 THEN 0 ELSE f[k - 1] * 10 + Digit[d[k]]
        OBVIOUS
      <3>1. k = 0 \/ k \in 1..n
        BY <1>1
      <3> QED
        BY <1>5, <1>6, <3>1
    <2> QED
      BY <2>1, <2>2
  <1>8. Number(d) = E[n]
    BY DEF Number
  <1>9. Right(E)
    <2> HIDE DEF Right
    <2> QED
      BY <1>7
  <1>10. E = [k \in 0..n |-> E[k]] /\ E[0] = 0
         /\ \A k \in 1..n : E[k] = E[k - 1] * 10 + Digit[d[k]]
    <2> HIDE DEF E
    <2>1. E = [k \in 0..n |-> IF k = 0 THEN 0 ELSE E[k - 1] * 10 + Digit[d[k]]]
      BY <1>9
    <2>2. 0 \in 0..n /\ \A k \in 1..n : k \in 0..n /\ k # 0
      BY <1>1
    <2> HIDE DEF n
    <2>3. E = [k \in 0..n |-> E[k]]
      BY <2>1
    <2> QED
      BY <2>1, <2>2, <2>3
  <1>11. E \in [0..n -> Nat]
    <2> HIDE DEF E, n
    <2>1. ASSUME NEW k \in 1..n, E[k - 1] \in Nat PROVE E[k] \in Nat
      <3> DEFINE x == E[k - 1]
                 z == Digit[d[k]]
      <3>1. z \in Nat /\ x \in Nat /\ E[k] = x * 10 + z
        BY <1>2, <1>10, <2>1
      <3> HIDE DEF x, z
      <3> QED
        BY <3>1
    <2>2. E[0] \in Nat
      BY <1>10
    <2>3. \A k \in 1..n : E[k - 1] \in Nat => E[k] \in Nat
      BY <2>1
    <2> QED
      BY <1>1, <1>10, <2>2, <2>3, StaysIn
  <1>12. IsNumbers(E, d)
    <2> HIDE DEF E
    <2> QED
      BY <1>10, <1>11 DEF IsNumbers
  <1> QED
    BY <1>8, <1>12

(* What the program has read up to each one.                               *)
AreRead(g, d) ==
  /\ g \in [0..Len(d) -> Int] /\ g[0] = 0
  /\ \A k \in 1..Len(d) : g[k] = Another(g[k - 1], d[k])

(* Another goes from numbers to numbers.                                   *)
LEMMA AnotherType ==
  ASSUME NEW x \in Int, NEW c \in DOMAIN Digit
  PROVE  Another(x, c) \in Int
  <1> DEFINE y == x * 10 + Digit[c]
             z == Digit[c]
  <1>a. z \in Nat
    BY DigitIs
  <1>1. y \in Int
    <2> HIDE DEF z
    <2>1. x * 10 + z \in Int
      BY <1>a
    <2> QED
      BY <2>1 DEF z
  <1> HIDE DEF y
  <1>2. y % Word \in Int
    BY <1>1, TextAssumption
  <1> QED
    BY <1>2 DEF Another, y

(* Accumulated is the sum its recursive definition says.                   *)
LEMMA AccumulatedDef ==
  ASSUME NEW d \in Digits
  PROVE  \E g : AreRead(g, d) /\ Accumulated(d) = g[Len(d)]
  <1> DEFINE n == Len(d)
             step == [q \in (1..n) \X Int |-> Another(q[2], d[q[1]])]
  <1>1. n \in Nat
    BY DEF Digits
  <1>2. \A k \in 1..n : d[k] \in DOMAIN Digit
    BY DEF Digits
  <1>3. step \in [(1..n) \X Int -> Int]
    <2> SUFFICES ASSUME NEW q \in (1..n) \X Int PROVE Another(q[2], d[q[1]]) \in Int
      OBVIOUS
    <2>1. q[2] \in Int /\ d[q[1]] \in DOMAIN Digit
      BY <1>2
    <2> QED
      BY <2>1, AnotherType
  <1>5. PICK f \in [0..n -> Int] :
          f[0] = 0 /\ \A k \in 1..n : f[k] = step[<<k, f[k - 1]>>]
    <2> HIDE DEF n, step
    <2>1. step \in Steps(n, Int)
      BY <1>3 DEF Steps
    <2>a. 0 \in Int
      OBVIOUS
    <2>2. Recursed(n, Int, 0, step)
      BY <1>1, <2>1, <2>a, Recursion
    <2> QED
      BY <2>2 DEF Recursed
  <1>6. \A k \in 1..n : f[k] = Another(f[k - 1], d[k])
    <2> SUFFICES ASSUME NEW k \in 1..n PROVE f[k] = Another(f[k - 1], d[k])
      OBVIOUS
    <2>1. f[k - 1] \in Int
      BY <1>1, <1>5
    <2>2. <<k, f[k - 1]>> \in (1..n) \X Int
      BY <2>1
    <2>3. step[<<k, f[k - 1]>>] = Another(f[k - 1], d[k])
      BY <2>2
    <2> QED
      BY <1>5, <2>3
  <1> DEFINE Right(g) == g = [k \in 0..n |-> IF k = 0 THEN 0 ELSE Another(g[k - 1], d[k])]
             E == CHOOSE g : Right(g)
  <1>7. Right(f)
    <2>1. f = [k \in 0..n |-> f[k]]
      BY <1>5
    <2>2. \A k \in 0..n : f[k] = IF k = 0 THEN 0 ELSE Another(f[k - 1], d[k])
      <3> SUFFICES ASSUME NEW k \in 0..n
                   PROVE  f[k] = IF k = 0 THEN 0 ELSE Another(f[k - 1], d[k])
        OBVIOUS
      <3>1. k = 0 \/ k \in 1..n
        BY <1>1
      <3> QED
        BY <1>5, <1>6, <3>1
    <2> QED
      BY <2>1, <2>2
  <1>8. Accumulated(d) = E[n]
    BY DEF Accumulated
  <1>9. Right(E)
    <2> HIDE DEF Right
    <2> QED
      BY <1>7
  <1>10. E = [k \in 0..n |-> E[k]] /\ E[0] = 0
         /\ \A k \in 1..n : E[k] = Another(E[k - 1], d[k])
    <2> HIDE DEF E
    <2>1. E = [k \in 0..n |-> IF k = 0 THEN 0 ELSE Another(E[k - 1], d[k])]
      BY <1>9
    <2>2. 0 \in 0..n /\ \A k \in 1..n : k \in 0..n /\ k # 0
      BY <1>1
    <2> HIDE DEF n
    <2>3. E = [k \in 0..n |-> E[k]]
      BY <2>1
    <2> QED
      BY <2>1, <2>2, <2>3
  <1>11. E \in [0..n -> Int]
    <2> HIDE DEF E, n
    <2>1. \A k \in 1..n : E[k - 1] \in Int => E[k] \in Int
      BY <1>2, <1>10, AnotherType
    <2>2. E[0] \in Int
      BY <1>10
    <2> QED
      BY <1>1, <1>10, <2>1, <2>2, StaysIn
  <1>12. AreRead(E, d)
    <2> HIDE DEF E
    <2> QED
      BY <1>10, <1>11 DEF AreRead
  <1> QED
    BY <1>8, <1>12

(* A digit more is right, as long as the number stays below the word.      *)
LEMMA AnotherIs ==
  ASSUME NEW x \in Nat, NEW c \in DOMAIN Digit, NEW y \in Nat, y = x * 10 + Digit[c], y < Word
  PROVE  Another(x, c) = y /\ x < Word
  <1>1. y % Word = y
    BY TextAssumption
  <1>2. Digit[c] \in Nat
    BY DigitIs
  <1>3. x <= y
    BY <1>2
  <1>4. x # -1 /\ ~(y < x)
    BY <1>3
  <1> QED
    BY <1>1, <1>3, <1>4, TextAssumption DEF Another

(* So a number below the word is accumulated without loss, and never
   refused.                                                                *)
LEMMA NumberRead ==
  ASSUME NEW d \in Digits, Number(d) < Word
  PROVE  Accumulated(d) = Number(d) /\ Number(d) \in Nat
  <1> DEFINE n == Len(d)
  <1>1. PICK f : IsNumbers(f, d) /\ Number(d) = f[n]
    BY NumberDef
  <1>2. PICK g : AreRead(g, d) /\ Accumulated(d) = g[n]
    BY AccumulatedDef
  <1>3. n \in Nat /\ \A k \in 1..n : d[k] \in DOMAIN Digit
    BY DEF Digits
  <1>4. /\ f[0] = 0 /\ \A k \in 0..n : f[k] \in Nat
        /\ \A k \in 1..n : f[k] = f[k - 1] * 10 + Digit[d[k]]
    BY <1>1 DEF IsNumbers
  <1>5. /\ g[0] = 0
        /\ \A k \in 1..n : g[k] = Another(g[k - 1], d[k])
    BY <1>2 DEF AreRead
  <1> DEFINE Same(k) == f[k] < Word => g[k] = f[k]
             P == {k \in Nat : k <= n => Same(k)}
  <1> HIDE DEF n
  <1>6. Same(0)
    BY <1>4, <1>5
  <1>7. ASSUME NEW k \in Nat, k + 1 <= n, Same(k) PROVE Same(k + 1)
    <2> SUFFICES ASSUME f[k + 1] < Word PROVE g[k + 1] = f[k + 1]
      OBVIOUS
    <2> DEFINE h == k + 1
    <2>1. h \in 1..n /\ h \in 0..n /\ k \in 0..n /\ h - 1 = k
      BY <1>3, <1>7
    <2> HIDE DEF h
    <2>2. f[h] = f[k] * 10 + Digit[d[h]] /\ f[k] \in Nat /\ f[h] \in Nat /\ d[h] \in DOMAIN Digit
      BY <1>3, <1>4, <2>1
    <2>a. f[h] < Word
      BY DEF h
    <2>3. Another(f[k], d[h]) = f[h] /\ f[k] < Word
      BY <2>2, <2>a, AnotherIs
    <2>4. g[h] = Another(g[k], d[h])
      BY <1>5, <2>1
    <2>5. g[k] = f[k]
      BY <1>7, <2>3
    <2>6. g[h] = f[h]
      BY <2>3, <2>4, <2>5
    <2> QED
      BY <2>6 DEF h
  <1> HIDE DEF Same
  <1>8. 0 \in P /\ P \in SUBSET Nat
    BY <1>6
  <1>9. \A k \in P : k + 1 \in P
    <2> SUFFICES ASSUME NEW k \in P, k + 1 <= n PROVE k + 1 \in Nat /\ Same(k + 1)
      OBVIOUS
    <2>1. k \in Nat /\ k <= n
      BY <1>3
    <2> QED
      BY <1>7, <2>1
  <1> HIDE DEF P
  <1>10. P = Nat
    BY <1>8, <1>9, Induct
  <1>11. Same(n)
    BY <1>3, <1>10 DEF P
  <1> QED
    BY <1>1, <1>2, <1>3, <1>4, <1>11 DEF Same

(* Where the digits that begin at p end.                                   *)
DigitsTo(data, p) ==
  Min({x \in p..(Len(data) + 1) : x > Len(data) \/ data[x] \notin DOMAIN Digit})

(* The first byte that is no digit.                                        *)
LEMMA DigitsEnd ==
  ASSUME NEW data \in Texts, NEW p \in Nat, NEW q \in Nat, p <= q, q <= Len(data) + 1,
         \A i \in p..(q - 1) : data[i] \in DOMAIN Digit,
         q > Len(data) \/ data[q] \notin DOMAIN Digit
  PROVE  DigitsTo(data, p) = q
  <1> DEFINE S == {x \in p..(Len(data) + 1) : x > Len(data) \/ data[x] \notin DOMAIN Digit}
  <1>1. Len(data) \in Nat
    BY LengthNat
  <1>2. q \in S
    BY <1>1
  <1>3. S \in SUBSET Int
    OBVIOUS
  <1>4. ASSUME NEW x \in S PROVE q <= x
    <2>1. x \in p..(Len(data) + 1) /\ (x > Len(data) \/ data[x] \notin DOMAIN Digit)
      OBVIOUS
    <2>2. ASSUME x < q PROVE FALSE
      <3>1. x \in p..(q - 1) /\ x <= Len(data)
        BY <1>1, <2>1, <2>2
      <3>2. data[x] \in DOMAIN Digit
        BY <3>1
      <3>3. ~(x > Len(data))
        BY <1>1, <3>1
      <3> QED
        BY <2>1, <3>2, <3>3
    <2>3. x \in Int
      BY <1>1, <2>1
    <2> HIDE DEF S
    <2> QED
      BY <2>2, <2>3
  <1>5. DigitsTo(data, p) = Min(S)
    BY DEF DigitsTo
  <1> HIDE DEF S
  <1> QED
    BY <1>2, <1>3, <1>4, <1>5, MinIs

(* A value is followed by no digit.                                        *)
LEMMA NoDigit ==
  ASSUME NEW data \in Texts, NEW p \in Nat, Ended(data, p), p <= Len(data)
  PROVE  data[p] \notin DOMAIN Digit
  <1> SUFFICES ASSUME data[p] \in DOMAIN Digit PROVE FALSE
    OBVIOUS
  <1>1. data[p] # Blank /\ Len(data) \in Nat
    BY BlankIs, LengthNat
  <1>2. p <= Len(data) + 1 /\ p <= p
    BY <1>1
  <1>3. \A i \in p..(p - 1) : data[i] = Blank
    OBVIOUS
  <1>4. SkipWs(data, p) = p
    BY <1>1, <1>2, <1>3, SkipsTo
  <1>5. data[p] \in {",", "}"}
    BY <1>4 DEF Ended
  <1> QED
    BY <1>5, DigitIs

(* What is read at a number is its digits.                                 *)
UpTo(data, p, q) == SubSeq(data, p, q - 1)

(* The digits read are those of the number, all of them.                   *)
LEMMA DigitsRead ==
  ASSUME NEW data \in Texts, NEW w \in Nat, NEW d \in Texts, d \in Digits, Stands(data, w, d),
         NEW p, p = w + 1, NEW q, q = w + Len(d) + 1, Ended(data, q)
  PROVE  DigitsTo(data, p) = q /\ UpTo(data, p, q) = d
  <1> DEFINE n == Len(d)
  <1>1. n \in Nat /\ Len(data) \in Nat
    BY LengthNat
  <1>2. w + n <= Len(data) /\ \A i \in 1..n : data[w + i] = d[i]
    BY DEF Stands
  <1>3. \A i \in 1..n : d[i] \in DOMAIN Digit
    BY DEF Digits
  <1> HIDE DEF n
  <1>a. q = w + n + 1
    BY DEF n
  <1>4. p \in Nat /\ q \in Nat /\ p <= q /\ q <= Len(data) + 1
    BY <1>a, <1>1, <1>2
  <1>5. \A i \in p..(q - 1) : data[i] \in DOMAIN Digit
    <2> SUFFICES ASSUME NEW i \in p..(q - 1) PROVE data[i] \in DOMAIN Digit
      OBVIOUS
    <2> DEFINE j == i - w
    <2>1. j \in 1..n /\ w + j = i
      BY <1>a, <1>1
    <2> HIDE DEF j
    <2>2. data[w + j] = d[j] /\ d[j] \in DOMAIN Digit
      BY <1>2, <1>3, <2>1
    <2> QED
      BY <2>1, <2>2
  <1>6. q > Len(data) \/ data[q] \notin DOMAIN Digit
    <2>1. q > Len(data) \/ q <= Len(data)
      BY <1>1, <1>4, Either
    <2> QED
      BY <1>4, <2>1, NoDigit
  <1>7. DigitsTo(data, p) = q
    BY <1>4, <1>5, <1>6, DigitsEnd
  <1> DEFINE b == q - 1
             s == SubSeq(data, p, b)
  <1>8. b \in Nat /\ p <= b + 1 /\ b <= Len(data) /\ b - p + 1 = n /\ 1 <= p
    BY <1>a, <1>1, <1>2
  <1> HIDE DEF b
  <1>9. s \in Texts /\ Len(s) = b - p + 1
        /\ \A i \in 1..(b - p + 1) : s[i] = data[p + i - 1]
    BY <1>4, <1>8, PieceIs
  <1> HIDE DEF s
  <1>10. Len(s) = n /\ \A i \in 1..n : s[i] = data[p + i - 1]
    BY <1>8, <1>9
  <1>11. \A i \in 1..n : p + i - 1 = w + i
    BY <1>1
  <1>12. \A i \in 1..Len(s) : s[i] = d[i]
    BY <1>2, <1>10, <1>11
  <1>13. s \in Seq(Characters) /\ d \in Seq(Characters) /\ Len(s) = Len(d)
    BY <1>9, <1>10 DEF Texts, n
  <1>14. s = d
    BY <1>12, <1>13, SeqEqual
  <1> QED
    BY <1>7, <1>14 DEF s, b, UpTo

(* json_u32_value.                                                         *)
LEMMA U32Read ==
  ASSUME NEW data, NEW key, NEW u, Located(data, key, u)
  PROVE  IF u.kind = "number"
           THEN Number(u.digits) < Word => U32Value(data, key) = Some(Number(u.digits))
           ELSE U32Value(data, key) = None
  <1> DEFINE p == FindValue(data, key)
             end == IF p = 0 THEN 0 ELSE DigitsTo(data, p)
             value == Accumulated(UpTo(data, p, end))
             goes == end > p /\ value # -1 /\ EndsWith(data, SkipWs(data, end), {",", "}"})
  <1>1. U32Value(data, key) = IF goes THEN Some(value) ELSE None
    BY DEF U32Value, DigitsTo, UpTo
  <1>2. CASE u = Missing /\ p = 0
    <2>1. end = 0
      BY <1>2
    <2> HIDE DEF p, value, end
    <2>2. ~(end > p)
      BY <1>2, <2>1
    <2>3. u.kind # "number"
      BY <1>2, MissingIs
    <2> QED
      BY <1>1, <2>2, <2>3
  <1>3. ASSUME NEW w \in Nat, p = w + 1, ValueStands(data, w, u)
        PROVE  IF u.kind = "number"
                 THEN Number(u.digits) < Word => U32Value(data, key) = Some(Number(u.digits))
                 ELSE U32Value(data, key) = None
    <2>1. data \in Texts /\ u \in Values /\ Stands(data, w, u.text) /\ data[w + 1] = u.text[1]
          /\ w + 1 <= Len(data) /\ Ended(data, w + Len(u.text) + 1) /\ Len(data) \in Nat
      BY <1>3, LengthNat DEF ValueStands
    <2>2. Starts(u) /\ KindIs(u)
      BY <2>1, StartsWith, KindOf
    <2> HIDE DEF p
    <2>3. p \in Nat /\ p # 0
      BY <1>3
    <2>4. end = DigitsTo(data, p)
      BY <2>3
    <2> HIDE DEF end, value
    <2>5. CASE u.kind # "number"
      <3>1. data[p] \notin DOMAIN Digit
        BY <1>3, <2>1, <2>2, <2>5 DEF Starts
      <3>2. p <= p /\ p <= Len(data) + 1 /\ \A i \in p..(p - 1) : data[i] \in DOMAIN Digit
        BY <1>3, <2>1
      <3>3. DigitsTo(data, p) = p
        BY <2>1, <2>3, <3>1, <3>2, DigitsEnd
      <3>4. ~(end > p)
        BY <2>3, <2>4, <3>3
      <3> QED
        BY <1>1, <2>5, <3>4
    <2>6. ASSUME u.kind = "number", Number(u.digits) < Word
          PROVE  U32Value(data, key) = Some(Number(u.digits))
      <3> DEFINE d == u.digits
      <3>1. d \in Digits /\ u.text = d
        BY <2>2, <2>6 DEF KindIs, IsNumber, Digits
      <3>2. d \in Texts /\ Len(d) \in Nat /\ Len(d) >= 1
        BY <2>2, <3>1 DEF Starts
      <3> DEFINE q == w + Len(d) + 1
      <3>3. q \in Nat /\ q > p
        <4> DEFINE n == Len(d)
        <4>1. n \in Nat /\ n >= 1
          BY <3>2
        <4> HIDE DEF n
        <4>2. w + n + 1 \in Nat /\ w + n + 1 > p
          BY <1>3, <4>1
        <4> QED
          BY <4>2 DEF n
      <3>4. Stands(data, w, d) /\ Ended(data, w + Len(d) + 1)
        BY <2>1, <3>1
      <3>b. q = w + Len(d) + 1
        OBVIOUS
      <3>c. data \in Texts /\ w \in Nat
        BY <2>1
      <3> HIDE DEF q, d
      <3>d. Ended(data, q)
        BY <3>4, <3>b
      <3>5. DigitsTo(data, p) = q /\ UpTo(data, p, q) = d
        BY <1>3, <3>1, <3>2, <3>4, <3>b, <3>c, <3>d, DigitsRead
      <3>a. Number(d) < Word
        BY <2>6 DEF d
      <3>6. Accumulated(d) = Number(d) /\ Number(d) \in Nat
        BY <3>1, <3>a, NumberRead
      <3>7. Ended(data, q)
        BY <3>4, <3>b
      <3>8. end = q
        BY <2>4, <3>5
      <3>9. value = Number(d)
        BY <3>5, <3>6, <3>8 DEF value
      <3>10. value # -1
        BY <3>6, <3>9
      <3>11. EndsWith(data, SkipWs(data, end), {",", "}"})
        <4> DEFINE x == SkipWs(data, q)
        <4>1. x \in Nat /\ x <= Len(data) + 1 /\ (x <= Len(data) => data[x] \in {",", "}"})
          BY <3>7 DEF Ended
        <4> HIDE DEF x
        <4>a. x \in Nat
          BY <4>1
        <4>2. x > Len(data) \/ x <= Len(data)
          BY <2>1, <4>a, Either
        <4>3. EndsWith(data, x, {",", "}"})
          BY <4>1, <4>2 DEF EndsWith
        <4> QED
          BY <3>8, <4>3 DEF x
      <3> QED
        BY <1>1, <3>3, <3>8, <3>9, <3>10, <3>11 DEF d
    <2> QED
      BY <2>5, <2>6
  <1> HIDE DEF p, end, value
  <1>5. (u = Missing /\ p = 0) \/ \E w \in Nat : p = w + 1 /\ ValueStands(data, w, u)
    BY DEF Located, p
  <1> QED
    BY <1>2, <1>3, <1>5

-----------------------------------------------------------------------------
(* The text of an object, and where it ends.                               *)

EndHere(rest, i) ==
  ~Nesting(rest)[i].string /\ rest[i] = "}" /\ Nesting(rest)[i].object = 1
ObjectEnd(rest) == First({i \in 1..Len(rest) : EndHere(rest, i)})

(* The braces are bytes, and what the opening one does to a scan.          *)
LEMMA Braces ==
  /\ "{" \in Characters /\ "}" \in Characters /\ "{" # "}" /\ <<"{", "}">> \in Wrappers
  /\ \A at : Outside(at) => Past(at, "{") = [at EXCEPT !.object = @ + 1]
  <1>1. "{" \in Characters /\ "}" \in Characters /\ "{" # "}"
    BY CharactersAssumption
  <1>2. <<"{", "}">> \in Wrappers
    BY DEF Wrappers
  <1> QED
    BY <1>1, <1>2, PastOutside

(* An object's text, and a text that begins with it.                       *)
Braced(m) == Between("{", m, "}")
Begins(rest, m) == Stands(rest, 0, Braced(m))

(* The text of an object, byte by byte.                                    *)
LEMMA BracedIs ==
  ASSUME NEW m \in Texts
  PROVE  /\ Braced(m) \in Texts /\ Len(m) \in Nat /\ Len(Braced(m)) = Len(m) + 2
         /\ Braced(m)[1] = "{" /\ Braced(m)[Len(m) + 2] = "}"
         /\ \A i \in 1..Len(m) : Braced(m)[i + 1] = m[i]
  <1>1. "{" \in Characters /\ "}" \in Characters
    BY Braces
  <1> DEFINE a == "{"
             z == "}"
  <1>3. Len(m) \in Nat
    BY LengthNat
  <1>b. Braced(m) = Between(a, m, z)
    BY DEF Braced
  <1>c. a \in Characters /\ z \in Characters
    BY <1>1
  <1>d. a = "{" /\ z = "}"
    OBVIOUS
  <1> HIDE DEF a, z
  <1>2. /\ Between(a, m, z) \in Texts /\ Len(Between(a, m, z)) = Len(m) + 2
        /\ Between(a, m, z)[1] = a /\ Between(a, m, z)[Len(m) + 2] = z
        /\ \A i \in 1..Len(m) : Between(a, m, z)[i + 1] = m[i]
    BY <1>c, BetweenIs
  <1> QED
    BY <1>2, <1>3, <1>b, <1>d

(* A text that begins with an object, byte by byte.                        *)
LEMMA BeginsIs ==
  ASSUME NEW rest \in Texts, NEW m \in Texts, Begins(rest, m)
  PROVE  /\ Len(m) \in Nat /\ Len(rest) \in Nat /\ Len(m) + 2 <= Len(rest)
         /\ \A i \in 1..(Len(m) + 2) : rest[i] = Braced(m)[i]
  <1> DEFINE t == Braced(m)
             n == Len(m)
  <1>1. Stands(rest, 0, t)
    BY DEF Begins
  <1>2. n \in Nat /\ Len(t) = n + 2 /\ Len(rest) \in Nat
    BY LengthNat, BracedIs
  <1> HIDE DEF t, n
  <1>3. 0 + Len(t) <= Len(rest) /\ \A i \in 1..Len(t) : rest[0 + i] = t[i]
    BY <1>1 DEF Stands
  <1>4. n + 2 <= Len(rest)
    BY <1>2, <1>3
  <1>5. \A i \in 1..(n + 2) : i \in 1..Len(t) /\ 0 + i = i
    BY <1>2
  <1>6. \A i \in 1..(n + 2) : rest[i] = t[i]
    BY <1>3, <1>5
  <1> QED
    BY <1>2, <1>4, <1>6 DEF t, n

(* The scan, once it has passed the opening brace.                         *)
Opened == [Outermost EXCEPT !.object = @ + 1]

(* Past the opening brace a scan is outside of strings, in one object.     *)
LEMMA OpenedIs ==
  /\ Outside(Opened) /\ Opened \in Scan /\ Opened.object = 1 /\ ~Opened.string
  /\ Past(Outermost, "{") = Opened /\ Outermost.object = 0
  <1>1. Outside(Outermost) /\ Outermost.object = 0 /\ ~Outermost.string /\ ~Outermost.escaped
        /\ Outermost \in Scan
    BY OutermostIs DEF Outermost
  <1>2. Past(Outermost, "{") = Opened
    BY <1>1, PastOutside DEF Opened
  <1>3. Opened.object = Outermost.object + 1 /\ Opened.string = Outermost.string
        /\ Opened.escaped = Outermost.escaped
    BY DEF Opened, Outermost
  <1>4. Opened.object = 1 /\ ~Opened.string /\ ~Opened.escaped
    BY <1>1, <1>3
  <1>5. Opened \in Scan
    BY <1>1, <1>2, PastType
  <1>6. Outside(Opened)
    BY <1>4, <1>5 DEF Outside
  <1> QED
    BY <1>1, <1>2, <1>4, <1>5, <1>6

(* What the scan finds in an object.                                       *)
InObject(rest, n, m) ==
  /\ rest[1] = "{" /\ Nesting(rest)[1] = Outermost
  /\ \A i \in 2..(n + 1) : rest[i] = m[i - 1] /\ Nesting(rest)[i] = Reading(Opened, m)[i - 1]
  /\ rest[n + 2] = "}" /\ Nesting(rest)[n + 2] = Opened

(* What the scan of a text that begins with an object is, up to the closing
   brace.                                                                  *)
LEMMA ObjectScan ==
  ASSUME NEW rest \in Texts, NEW m \in Texts, Loose(m), Begins(rest, m)
  PROVE  InObject(rest, Len(m), m)
  <1> DEFINE t == Braced(m)
             n == Len(m)
  <1>1. /\ t \in Texts /\ Len(t) = n + 2 /\ t[1] = "{" /\ t[n + 2] = "}"
        /\ \A i \in 1..n : t[i + 1] = m[i]
    BY BracedIs
  <1>2. n \in Nat
    BY LengthNat
  <1>3. Reading(Opened, m)[n + 1] = Opened
    BY OpenedIs DEF Loose, Back
  <1>4. /\ Reading(Outermost, t)[1] = Outermost
        /\ \A i \in 1..(n + 1) : Reading(Outermost, t)[i + 1] = Reading(Opened, m)[i]
    <2>1. /\ "{" \in Characters /\ "}" \in Characters /\ Outermost \in Scan /\ Opened \in Scan
          /\ Past(Outermost, "{") = Opened
      BY OpenedIs, OutermostIs, Braces
    <2> DEFINE a == "{"
               z == "}"
    <2>a. t = Between(a, m, z)
      BY DEF Braced
    <2>b. Reading(Opened, m)[Len(m) + 1] = Opened
      BY <1>3
    <2> HIDE DEF t, n
    <2>c. /\ a \in Characters /\ z \in Characters /\ Outermost \in Scan /\ Opened \in Scan
          /\ Past(Outermost, a) = Opened
      BY <2>1
    <2> HIDE DEF a, z
    <2>2. /\ Reading(Outermost, Between(a, m, z))[1] = Outermost
          /\ \A i \in 1..(Len(m) + 1) :
               Reading(Outermost, Between(a, m, z))[i + 1] = Reading(Opened, m)[i]
      BY <2>b, <2>c, BetweenReading
    <2> QED
      BY <2>2, <2>a DEF n
  <1> HIDE DEF t
  <1>a. Stands(rest, 0, t)
    BY DEF Begins, t
  <1>5. \A i \in 1..Len(t) : rest[0 + i] = t[i]
    BY <1>a DEF Stands
  <1>6. \A i \in 1..(Len(t) + 1) : Nesting(rest)[0 + i] = Reading(Outermost, t)[i]
    <2>1. /\ Stands(rest, 0, t) /\ 0 \in Nat /\ Outermost \in Scan
          /\ Reading(Outermost, rest)[0 + 1] = Outermost
      BY <1>a, OutermostIs, ReadingType
    <2> QED
      BY <1>1, <2>1, ReadingStands DEF Nesting
  <1> HIDE DEF n
  <1>7. \A i \in 1..(n + 2) : rest[i] = t[i] /\ Nesting(rest)[i] = Reading(Outermost, t)[i]
    <2> SUFFICES ASSUME NEW i \in 1..(n + 2)
                 PROVE  rest[i] = t[i] /\ Nesting(rest)[i] = Reading(Outermost, t)[i]
      OBVIOUS
    <2>a. Len(t) = n + 2
      BY <1>1
    <2>1. 0 + i = i /\ i \in 1..Len(t) /\ i \in 1..(Len(t) + 1)
      BY <1>2, <2>a
    <2>2. rest[0 + i] = t[i]
      BY <1>5, <2>1
    <2>3. Nesting(rest)[0 + i] = Reading(Outermost, t)[i]
      BY <1>6, <2>1
    <2> QED
      BY <2>1, <2>2, <2>3
  <1>8. rest[1] = "{" /\ Nesting(rest)[1] = Outermost
    <2>1. 1 \in 1..(n + 2)
      BY <1>2
    <2> QED
      BY <1>1, <1>4, <1>7, <2>1
  <1>9. ASSUME NEW i \in 2..(n + 1)
        PROVE  rest[i] = m[i - 1] /\ Nesting(rest)[i] = Reading(Opened, m)[i - 1]
    <2> DEFINE h == i - 1
    <2>1. h \in 1..n /\ h \in 1..(n + 1) /\ h + 1 = i /\ i \in 1..(n + 2)
      BY <1>2
    <2> HIDE DEF h
    <2>2. rest[i] = t[i] /\ Nesting(rest)[i] = Reading(Outermost, t)[i]
      BY <1>7, <2>1
    <2>3. t[h + 1] = m[h] /\ Reading(Outermost, t)[h + 1] = Reading(Opened, m)[h]
      BY <1>1, <1>4, <2>1
    <2>4. rest[i] = m[h] /\ Nesting(rest)[i] = Reading(Opened, m)[h]
      BY <2>1, <2>2, <2>3
    <2> QED
      BY <2>4 DEF h
  <1>10. rest[n + 2] = "}" /\ Nesting(rest)[n + 2] = Opened
    <2> DEFINE e == n + 2
    <2>1. e \in 1..(n + 2) /\ e = (n + 1) + 1 /\ n + 1 \in 1..(n + 1)
      BY <1>2
    <2>2. t[e] = "}"
      BY <1>1
    <2>3. Reading(Outermost, t)[(n + 1) + 1] = Reading(Opened, m)[n + 1]
      BY <1>4, <2>1
    <2>4. Reading(Opened, m)[n + 1] = Opened
      BY <1>3
    <2> HIDE DEF e
    <2>5. rest[e] = t[e] /\ Nesting(rest)[e] = Reading(Outermost, t)[e]
      BY <1>7, <2>1
    <2>6. rest[e] = "}" /\ Nesting(rest)[e] = Opened
      BY <2>1, <2>2, <2>3, <2>4, <2>5
    <2> QED
      BY <2>6 DEF e
  <1>11. InObject(rest, n, m)
    BY <1>8, <1>9, <1>10 DEF InObject
  <1> QED
    BY <1>11 DEF n

(* The brace found is the one that closes the object: none before it is
   outside of strings in just one object.                                  *)
LEMMA ObjectEndIs ==
  ASSUME NEW rest \in Texts, NEW m \in Texts, Loose(m), Begins(rest, m),
         NEW e, e = Len(m) + 2
  PROVE  ObjectEnd(rest) = e /\ e # 0
  <1> DEFINE n == Len(m)
             S == {i \in 1..Len(rest) : EndHere(rest, i)}
  <1>1. n \in Nat /\ Len(rest) \in Nat
    BY LengthNat
  <1>2. InObject(rest, n, m)
    BY ObjectScan
  <1>3. e \in 1..Len(rest)
    <2>1. n + 2 <= Len(rest)
      BY BeginsIs
    <2> HIDE DEF n
    <2>3. n + 2 \in 1..Len(rest)
      BY <1>1, <2>1
    <2> QED
      BY <2>3 DEF n
  <1>a. e = n + 2
    OBVIOUS
  <1>b. \A i \in 1..n : m[i] = "}" =>
          Reading(Opened, m)[i].string \/ Reading(Opened, m)[i].object > Opened.object
    BY OpenedIs DEF Loose, Closed
  <1> HIDE DEF n
  <1>4. EndHere(rest, e)
    BY <1>2, <1>a, OpenedIs DEF InObject, EndHere
  <1>5. ASSUME NEW i \in S PROVE e <= i
    <2>1. i \in 1..Len(rest) /\ EndHere(rest, i)
      OBVIOUS
    <2> HIDE DEF S
    <2>2. CASE i = 1
      <3>1. Nesting(rest)[i].object = 1 /\ Nesting(rest)[i] = Outermost
        BY <1>2, <2>1, <2>2 DEF EndHere, InObject
      <3>2. Outermost.object = 0
        BY OpenedIs
      <3>3. FALSE
        BY <3>1, <3>2
      <3> QED
        BY <3>3
    <2>3. CASE i \in 2..(n + 1)
      <3> DEFINE h == i - 1
                 b == Reading(Opened, m)[h]
      <3>1. h \in 1..n
        BY <1>1, <2>3
      <3>2. rest[i] = m[h] /\ Nesting(rest)[i] = b
        BY <1>2, <2>3 DEF InObject
      <3> HIDE DEF h
      <3>3. m[h] = "}" /\ ~b.string /\ b.object = 1
        <4> HIDE DEF b
        <4> QED
          BY <2>1, <3>2 DEF EndHere
      <3>4. b.object > Opened.object
        BY <1>b, <3>1, <3>3
      <3> HIDE DEF b
      <3>5. b.object = 1 /\ b.object > 1
        <4>1. Opened.object = 1
          BY OpenedIs
        <4> QED
          BY <3>3, <3>4, <4>1
      <3>6. FALSE
        BY <3>5
      <3> QED
        BY <3>6
    <2>4. i = 1 \/ i \in 2..(n + 1) \/ e <= i
      BY <1>1, <1>a, <2>1
    <2> QED
      BY <2>2, <2>3, <2>4
  <1>6. S \in SUBSET Int /\ e \in S
    BY <1>3, <1>4
  <1>7. ObjectEnd(rest) = First(S)
    BY DEF ObjectEnd
  <1>8. e # 0
    BY <1>3
  <1> HIDE DEF S
  <1> QED
    BY <1>5, <1>6, <1>7, <1>8, MinIs

(* What is between the braces.                                             *)
LEMMA ObjectInside ==
  ASSUME NEW rest \in Texts, NEW m \in Texts, Begins(rest, m),
         NEW e, e = Len(m) + 2
  PROVE  UpTo(rest, 2, e) = m
  <1> DEFINE n == Len(m)
             t == Braced(m)
             b == e - 1
             s == SubSeq(rest, 2, b)
  <1>1. n \in Nat /\ Len(rest) \in Nat
    BY LengthNat
  <1>2. \A i \in 1..n : t[i + 1] = m[i]
    BY BracedIs
  <1>3. n + 2 <= Len(rest) /\ \A i \in 1..(n + 2) : rest[i] = t[i]
    BY BeginsIs
  <1> HIDE DEF t
  <1>a. e = n + 2
    OBVIOUS
  <1> HIDE DEF n
  <1>4. b \in Nat /\ 2 <= b + 1 /\ b <= Len(rest) /\ b - 2 + 1 = n /\ 1 <= 2 /\ 2 \in Nat
    BY <1>1, <1>3, <1>a
  <1> HIDE DEF b
  <1>5. s \in Texts /\ Len(s) = b - 2 + 1
        /\ \A i \in 1..(b - 2 + 1) : s[i] = rest[2 + i - 1]
    BY <1>4, PieceIs
  <1> HIDE DEF s
  <1>6. Len(s) = n /\ \A i \in 1..n : s[i] = rest[2 + i - 1]
    BY <1>4, <1>5
  <1>7. ASSUME NEW i \in 1..n PROVE s[i] = m[i]
    <2> DEFINE h == i + 1
    <2>1. h \in 1..(n + 2) /\ 2 + i - 1 = h
      BY <1>1
    <2>2. t[h] = m[i]
      BY <1>2
    <2> HIDE DEF h
    <2>3. rest[h] = t[h]
      BY <1>3, <2>1
    <2>4. s[i] = rest[h]
      BY <1>6, <2>1
    <2> QED
      BY <2>2, <2>3, <2>4
  <1>8. s \in Seq(Characters) /\ m \in Seq(Characters) /\ Len(s) = Len(m)
    BY <1>5, <1>6 DEF Texts, n
  <1>9. s = m
    BY <1>6, <1>7, <1>8, SeqEqual
  <1> QED
    BY <1>9 DEF s, b, UpTo

(* The rest of a text, from where another stands.                          *)
LEMMA RestOf ==
  ASSUME NEW data \in Texts, NEW w \in Nat, NEW p, p = w + 1, p <= Len(data),
         NEW t \in Texts, Stands(data, w, t), NEW rest, rest = SubSeq(data, p, Len(data))
  PROVE  rest \in Texts /\ Stands(rest, 0, t)
  <1> DEFINE l == Len(data)
             n == Len(t)
  <1>1. l \in Nat /\ n \in Nat
    BY LengthNat
  <1>2. w + n <= l /\ \A i \in 1..n : data[w + i] = t[i]
    BY DEF Stands
  <1>3. p \in Nat /\ 1 <= p /\ p <= l + 1 /\ l <= l
    BY <1>1
  <1>4. /\ rest \in Texts /\ Len(rest) = l - p + 1
        /\ \A i \in 1..(l - p + 1) : rest[i] = data[p + i - 1]
    BY <1>1, <1>3, PieceIs
  <1> HIDE DEF l, n
  <1>a. p = w + 1
    OBVIOUS
  <1>5. 0 + n <= Len(rest)
    BY <1>1, <1>2, <1>4, <1>a
  <1>6. ASSUME NEW i \in 1..n PROVE rest[0 + i] = t[i]
    <2>1. 0 + i = i /\ i \in 1..(l - p + 1) /\ p + i - 1 = w + i
      BY <1>1, <1>2, <1>a
    <2>2. rest[i] = data[p + i - 1]
      BY <1>4, <2>1
    <2>3. data[w + i] = t[i]
      BY <1>2
    <2> QED
      BY <2>1, <2>2, <2>3
  <1> QED
    BY <1>4, <1>5, <1>6 DEF Stands, n

(* json_object_value.                                                      *)
LEMMA ObjectRead ==
  ASSUME NEW data, NEW key, NEW u, Located(data, key, u)
  PROVE  ObjectValue(data, key) = IF u.kind = "object" THEN Some(Members(u)) ELSE None
  <1> DEFINE p == FindValue(data, key)
             rest == SubSeq(data, p, Len(data))
             end == ObjectEnd(rest)
             goes == p # 0 /\ data[p] = "{" /\ end # 0
  <1>1. ObjectValue(data, key) = IF goes THEN Some(UpTo(rest, 2, end)) ELSE None
    BY DEF ObjectValue, UpTo, ObjectEnd, EndHere
  <1>2. CASE u = Missing /\ p = 0
    <2>1. u.kind # "object"
      BY <1>2, MissingIs
    <2> HIDE DEF p, end, rest
    <2> QED
      BY <1>1, <1>2, <2>1
  <1>3. ASSUME NEW w \in Nat, p = w + 1, ValueStands(data, w, u)
        PROVE  ObjectValue(data, key) = IF u.kind = "object" THEN Some(Members(u)) ELSE None
    <2>1. data \in Texts /\ u \in Values /\ Stands(data, w, u.text) /\ data[w + 1] = u.text[1]
          /\ w + 1 <= Len(data)
      BY <1>3 DEF ValueStands
    <2>2. Starts(u) /\ KindIs(u)
      BY <2>1, StartsWith, KindOf
    <2> HIDE DEF p
    <2>3. p # 0 /\ data[p] = u.text[1] /\ p <= Len(data)
      BY <1>3, <2>1
    <2> HIDE DEF end
    <2>4. CASE u.kind # "object"
      <3>1. data[p] # "{"
        BY <2>2, <2>3, <2>4 DEF Starts
      <3> HIDE DEF rest
      <3> QED
        BY <1>1, <2>4, <3>1
    <2>5. CASE u.kind = "object"
      <3> DEFINE m == Members(u)
      <3>1. IsObjectOf(u, Values)
        BY <2>2, <2>5 DEF KindIs
      <3>2. u.text = Braced(m)
        BY <3>1, ObjectParts DEF Braced
      <3>3. m \in Texts /\ Loose(m)
        <4>1. \A i \in 1..Len(u.members) : u.members[i].value \in Values
          BY <3>1, ObjectParts
        <4>2. \A i \in 1..Len(u.members) : Loose(u.members[i].value.text)
          BY <4>1, WrittenTidy DEF Tidy
        <4> QED
          BY <3>1, <4>2, ObjectInner
      <3>4. u.text \in Texts
        BY <2>2 DEF Starts
      <3> HIDE DEF m
      <3>5. rest \in Texts /\ Stands(rest, 0, u.text)
        <4>1. rest = SubSeq(data, p, Len(data))
          OBVIOUS
        <4> HIDE DEF rest
        <4> QED
          BY <1>3, <2>1, <2>3, <3>4, <4>1, RestOf
      <3> HIDE DEF rest
      <3>6. Begins(rest, m)
        BY <3>2, <3>5 DEF Begins
      <3> DEFINE e == Len(m) + 2
      <3>a. e = Len(m) + 2
        OBVIOUS
      <3> HIDE DEF e
      <3>7. ObjectEnd(rest) = e /\ e # 0
        BY <3>3, <3>5, <3>6, <3>a, ObjectEndIs
      <3>8. UpTo(rest, 2, e) = m
        BY <3>3, <3>5, <3>6, <3>a, ObjectInside
      <3>9. end = e
        BY <3>7 DEF end
      <3>10. data[p] = "{"
        BY <2>2, <2>3, <2>5 DEF Starts
      <3> QED
        BY <1>1, <2>3, <2>5, <3>7, <3>8, <3>9, <3>10 DEF m
    <2> QED
      BY <2>4, <2>5
  <1> HIDE DEF p, end, rest
  <1>5. (u = Missing /\ p = 0) \/ \E w \in Nat : p = w + 1 /\ ValueStands(data, w, u)
    BY DEF Located, p
  <1> QED
    BY <1>2, <1>3, <1>5

-----------------------------------------------------------------------------
(* A list, item by item.                                                   *)

(* Where a turn of the loop begins, and the byte before an item.           *)
SepAt(p, u, i) == p + Front(ItemParts(u), i - 1) + CommaLen(i)
ItemAt(p, u, i) == p + Spot(ItemParts(u), u.gap, i)
ListEnd(p, u) == PartsEnd(p, ItemParts(u), u.gap)

ListSetting(data, p, u) ==
  /\ IsListOf(u, Values) /\ p # 0
  /\ PartsStand(data, p, ItemParts(u), u.gap, ItemTexts(u))
  /\ Closing(data, ListEnd(p, u), "]")
  /\ ListEnd(p, u) \in Nat /\ ListEnd(p, u) <= Len(data)

(* The brackets are bytes, and none of the other marks.                    *)
LEMMA Brackets ==
  /\ "[" \in Characters /\ "]" \in Characters /\ "]" # "," /\ "]" # Quote /\ "]" # Blank
  <1>1. "[" \in Characters /\ "]" \in Characters
    BY CharactersAssumption
  <1>2. "]" # "," /\ "]" # Quote
    BY DEF Quote
  <1> QED
    BY <1>1, <1>2, BlankIs

Bracketed(m) == Between("[", m, "]")

(* The text of a list, byte by byte.                                       *)
LEMMA BracketedIs ==
  ASSUME NEW m \in Texts
  PROVE  /\ Bracketed(m) \in Texts /\ Len(m) \in Nat /\ Len(Bracketed(m)) = Len(m) + 2
         /\ Bracketed(m)[1] = "[" /\ Bracketed(m)[Len(m) + 2] = "]"
         /\ \A i \in 1..Len(m) : Bracketed(m)[i + 1] = m[i]
  <1>1. "[" \in Characters /\ "]" \in Characters
    BY Brackets
  <1> DEFINE a == "["
             z == "]"
  <1>3. Len(m) \in Nat
    BY LengthNat
  <1>b. Bracketed(m) = Between(a, m, z)
    BY DEF Bracketed
  <1>c. a \in Characters /\ z \in Characters
    BY <1>1
  <1>d. a = "[" /\ z = "]"
    OBVIOUS
  <1> HIDE DEF a, z
  <1>2. /\ Between(a, m, z) \in Texts /\ Len(Between(a, m, z)) = Len(m) + 2
        /\ Between(a, m, z)[1] = a /\ Between(a, m, z)[Len(m) + 2] = z
        /\ \A i \in 1..Len(m) : Between(a, m, z)[i + 1] = m[i]
    BY <1>c, BetweenIs
  <1> QED
    BY <1>2, <1>3, <1>b, <1>d

(* What stands between the brackets of a list.                             *)
LEMMA InBrackets ==
  ASSUME NEW data \in Texts, NEW w \in Nat, NEW m \in Texts, NEW t, t = Bracketed(m),
         Stands(data, w, t), NEW p, p = w + 1, NEW e, e = p + Len(m) + 1
  PROVE  Stands(data, p, m) /\ e <= Len(data) /\ data[e] = "]" /\ e \in Nat
  <1> DEFINE n == Len(m)
  <1>1. /\ n \in Nat /\ Len(t) = n + 2 /\ t[n + 2] = "]" /\ Len(data) \in Nat
        /\ \A i \in 1..n : t[i + 1] = m[i]
    BY BracketedIs, LengthNat
  <1>2. w + Len(t) <= Len(data) /\ \A i \in 1..Len(t) : data[w + i] = t[i]
    BY DEF Stands
  <1> HIDE DEF n
  <1>a. e = p + n + 1 /\ p = w + 1
    BY DEF n
  <1>3. p \in Nat /\ p + n <= Len(data)
    BY <1>1, <1>2, <1>a
  <1>4. ASSUME NEW i \in 1..n PROVE data[p + i] = m[i]
    <2> DEFINE h == i + 1
    <2>1. h \in 1..Len(t) /\ w + h = p + i
      BY <1>1, <1>a
    <2>2. t[h] = m[i]
      BY <1>1
    <2> HIDE DEF h
    <2> QED
      BY <1>2, <2>1, <2>2
  <1>5. e <= Len(data) /\ e \in Nat /\ w + (n + 2) = e
    BY <1>1, <1>2, <1>a
  <1>6. data[e] = "]"
    <2> DEFINE h == n + 2
    <2>1. h \in 1..Len(t) /\ w + h = e
      BY <1>1, <1>5
    <2>2. t[h] = "]"
      BY <1>1
    <2> HIDE DEF h
    <2> QED
      BY <1>2, <2>1, <2>2
  <1> QED
    BY <1>3, <1>4, <1>5, <1>6 DEF Stands, n

(* Where a list stands, its items stand after the bracket.                 *)
LEMMA ListSettingAt ==
  ASSUME NEW data \in Texts, NEW w \in Nat, NEW u, IsListOf(u, Values), Stands(data, w, u.text),
         NEW p, p = w + 1
  PROVE  ListSetting(data, p, u)
  <1> DEFINE m == Items(u)
             t == u.text
  <1>1. /\ PartsOf(ItemParts(u), u.gap, ItemTexts(u))
        /\ m = Joined(ItemParts(u)) \o u.gap /\ t = Bracketed(m)
    BY ListParts DEF Bracketed
  <1>2. m \in Texts
    BY <1>1, PartsLength
  <1>3. Stands(data, w, t)
    OBVIOUS
  <1> HIDE DEF m, t
  <1>4. p \in Nat /\ p # 0
    OBVIOUS
  <1> DEFINE e == p + Len(m) + 1
  <1>5. e = ListEnd(p, u)
    BY <1>1 DEF ListEnd, PartsEnd
  <1>6. e = p + Len(m) + 1
    OBVIOUS
  <1> HIDE DEF e
  <1>7. Stands(data, p, m) /\ e <= Len(data) /\ data[e] = "]" /\ e \in Nat
    BY <1>1, <1>2, <1>3, <1>6, InBrackets
  <1>8. PartsStand(data, p, ItemParts(u), u.gap, ItemTexts(u))
    BY <1>1, <1>4, <1>7 DEF PartsStand
  <1>9. Closing(data, e, "]")
    BY <1>7 DEF Closing
  <1> QED
    BY <1>4, <1>5, <1>7, <1>8, <1>9 DEF ListSetting

(* Where an item stands.                                                   *)
LEMMA ItemStands ==
  ASSUME NEW data, NEW p, NEW u, ListSetting(data, p, u), NEW i \in 1..Len(u.items),
         NEW s, s = SepAt(p, u, i), NEW a, a = ItemAt(p, u, i)
  PROVE  /\ data \in Texts /\ p \in Nat /\ s \in Nat /\ s # 0 /\ a \in Nat
         /\ a = s + Len(u.gap) /\ u.gap \in Blanks
         /\ Stands(data, s, u.gap) /\ Stands(data, a, u.items[i].text)
         /\ u.items[i] \in Values /\ u.items[i].text \in Texts
         /\ ItemTexts(u)[i] = u.items[i].text
         /\ Followed(data, p, ItemParts(u), u.gap, ItemTexts(u), "]", i)
         /\ Len(ItemParts(u)) = Len(u.items)
  <1> DEFINE parts == ItemParts(u)
             gap == u.gap
             inner == ItemTexts(u)
  <1>1. /\ IsListOf(u, Values) /\ p # 0 /\ PartsStand(data, p, parts, gap, inner)
        /\ Closing(data, PartsEnd(p, parts, gap), "]")
    BY DEF ListSetting, ListEnd
  <1>2. /\ Len(parts) = Len(u.items) /\ u.items[i] \in Values
        /\ inner[i] = u.items[i].text /\ gap \in Blanks
    BY <1>1, ListParts
  <1>3. data \in Texts /\ p \in Nat /\ PartsOf(parts, gap, inner)
    BY <1>1 DEF PartsStand
  <1>4. u.items[i].text \in Texts
    BY <1>2, ValueIs
  <1> HIDE DEF parts, gap, inner
  <1>5. i \in 1..Len(parts)
    BY <1>2
  <1>6. /\ Stands(data, p + Front(parts, i - 1) + CommaLen(i), gap)
        /\ Stands(data, p + Spot(parts, gap, i), inner[i])
    BY <1>1, <1>5, PartStands
  <1>7. /\ Len(gap) \in Nat /\ Front(parts, i - 1) \in Nat /\ CommaLen(i) \in 0..1
        /\ Spot(parts, gap, i) \in Nat
        /\ Spot(parts, gap, i) = Front(parts, i - 1) + CommaLen(i) + Len(gap)
    BY <1>3, <1>5, SpotIs
  <1>8. Followed(data, p, parts, gap, inner, "]", i)
    BY <1>1, <1>5, PartFollowed
  <1>9. s = p + Front(parts, i - 1) + CommaLen(i) /\ a = p + Spot(parts, gap, i)
    BY DEF SepAt, ItemAt, parts, gap
  <1>10. s \in Nat /\ s # 0 /\ a \in Nat /\ a = s + Len(gap)
    <2> DEFINE f == Front(parts, i - 1)
               c == CommaLen(i)
               g == Len(gap)
               d == Spot(parts, gap, i)
    <2>1. p \in Nat /\ p # 0 /\ f \in Nat /\ c \in 0..1 /\ g \in Nat /\ d = f + c + g
          /\ s = p + f + c /\ a = p + d
      BY <1>1, <1>3, <1>7, <1>9
    <2> HIDE DEF f, c, g, d
    <2>2. s \in Nat /\ s # 0 /\ a \in Nat /\ a = s + g
      BY <2>1
    <2> QED
      BY <2>2 DEF g
  <1>11. Stands(data, s, gap) /\ Stands(data, a, inner[i])
    BY <1>6, <1>9
  <1> QED
    BY <1>2, <1>3, <1>4, <1>8, <1>10, <1>11 DEF parts, gap, inner

NextAt(data, p) == SkipWs(data, p + 1)

(* White space skipped, a turn of the loop is at its item.                 *)
LEMMA ItemNext ==
  ASSUME NEW data, NEW p, NEW u, ListSetting(data, p, u), NEW i \in 1..Len(u.items),
         NEW s, s = SepAt(p, u, i), NEW a, a = ItemAt(p, u, i), NEW q, q = a + 1
  PROVE  /\ NextAt(data, s) = q /\ q \in Nat /\ q <= Len(data)
         /\ data[q] = Quote <=> u.items[i].kind = "text"
  <1> DEFINE t == u.items[i].text
             gap == u.gap
             x == s + Len(gap) + 1
  <1>1. /\ data \in Texts /\ s \in Nat /\ a \in Nat /\ gap \in Blanks
        /\ Stands(data, s, gap) /\ Stands(data, a, t) /\ u.items[i] \in Values
        /\ a = s + Len(gap)
    BY ItemStands
  <1>2. /\ Len(t) \in Nat /\ Len(t) >= 1 /\ t[1] # Blank
        /\ t[1] = Quote <=> u.items[i].kind = "text"
    BY <1>1, StartsWith DEF Starts
  <1>3. Len(data) \in Nat
    BY <1>1, LengthNat
  <1>4. a + Len(t) <= Len(data) /\ \A h \in 1..Len(t) : data[a + h] = t[h]
    BY <1>1 DEF Stands
  <1> HIDE DEF t, gap
  <1>5. q \in Nat /\ q <= Len(data)
    <2> DEFINE l == Len(data)
               n == Len(t)
    <2>1. a \in Nat /\ n \in Nat /\ n >= 1 /\ l \in Nat /\ a + n <= l /\ q = a + 1
      BY <1>1, <1>2, <1>3, <1>4
    <2> HIDE DEF l, n
    <2>2. q \in Nat /\ q <= l
      BY <2>1
    <2> QED
      BY <2>2 DEF l
  <1>6. 1 \in 1..Len(t)
    BY <1>2
  <1>7. data[a + 1] = t[1]
    BY <1>4, <1>6
  <1>8. x = q
    BY <1>1
  <1> HIDE DEF x
  <1>9. data[x] # Blank
    BY <1>2, <1>7, <1>8
  <1>10. SkipWs(data, s + 1) = x
    BY <1>1, <1>9, SkipsGap DEF x
  <1> QED
    BY <1>2, <1>5, <1>7, <1>8, <1>10 DEF NextAt, t

(* What Element does there.                                                *)
LEMMA ElementIs ==
  ASSUME NEW data, NEW s, NEW q, NextAt(data, s) = q
  PROVE  Element(data, s) =
           IF q <= Len(data) /\ data[q] = Quote THEN Plain(data, q, LongText) ELSE None
  BY DEF Element, NextAt

(* The element read is the item, exactly if the item is readable.          *)
LEMMA ItemElement ==
  ASSUME NEW data, NEW p, NEW u, ListSetting(data, p, u), NEW i \in 1..Len(u.items),
         NEW s, s = SepAt(p, u, i), NEW v, v = u.items[i],
         NEW e, e = ItemAt(p, u, i) + Len(v.text)
  PROVE  Element(data, s) =
           IF Readable(v, LongText) THEN Some([bytes |-> v.bytes, end |-> e]) ELSE None
  <1> DEFINE a == ItemAt(p, u, i)
             q == a + 1
  <1>a. a = ItemAt(p, u, i) /\ q = a + 1
    OBVIOUS
  <1> HIDE DEF a, q
  <1>1. /\ NextAt(data, s) = q /\ q \in Nat /\ q <= Len(data)
        /\ data[q] = Quote <=> v.kind = "text"
    BY <1>a, ItemNext
  <1>2. /\ data \in Texts /\ a \in Nat /\ Stands(data, a, v.text) /\ v \in Values
    BY <1>a, ItemStands
  <1>3. Element(data, s) = IF v.kind = "text" THEN Plain(data, q, LongText) ELSE None
    BY <1>1, ElementIs
  <1>4. CASE v.kind # "text"
    BY <1>3, <1>4 DEF Readable
  <1>5. CASE v.kind = "text"
    <2> DEFINE k == v.bytes
    <2>1. k \in Texts /\ v.text = Quoted(k)
      BY <1>2, <1>5, KindOf DEF KindIs, IsText
    <2>2. LongText \in Int
      BY TextAssumption
    <2> HIDE DEF k
    <2>3. Plain(data, a + 1, LongText) =
            IF Bare(k) /\ Len(k) <= LongText
              THEN Some([bytes |-> k, end |-> a + Len(Quoted(k))]) ELSE None
      BY <1>2, <2>1, <2>2, PlainIs
    <2>4. Readable(v, LongText) <=> Bare(k) /\ Len(k) <= LongText
      BY <1>5 DEF Readable, Bare, k
    <2>5. e = a + Len(Quoted(k))
      BY <1>a, <2>1
    <2>6. Plain(data, q, LongText) =
            IF Bare(k) /\ Len(k) <= LongText THEN Some([bytes |-> k, end |-> e]) ELSE None
      BY <1>a, <2>3, <2>5
    <2> QED
      BY <1>3, <1>5, <2>4, <2>6 DEF k
  <1> QED
    BY <1>4, <1>5

AfterEnd(data, element) == SkipWs(data, element.value.end + 1)
CommaAt(data, q) == q \in DOMAIN data /\ data[q] = ","

(* What Comma does after that.                                             *)
LEMMA CommaIs ==
  ASSUME NEW data, NEW s, NEW element, Element(data, s) = element
  PROVE  Comma(data, s) =
           IF s # 0 /\ element.found /\ CommaAt(data, AfterEnd(data, element))
             THEN AfterEnd(data, element) ELSE 0
  BY DEF Comma, AfterEnd, CommaAt

(* Where the turn after that of an item begins, and what ends the item.    *)
NextSep(p, u, i) == SepAt(p, u, i + 1)
ItemEnd(p, u, i) == ItemAt(p, u, i) + Len(u.items[i].text)
(* After an item comes the comma before the next one, or the bracket.      *)
LEMMA ItemFollowed ==
  ASSUME NEW data, NEW p, NEW u, ListSetting(data, p, u), NEW i \in 1..Len(u.items),
         NEW q, q = NextAt(data, ItemEnd(p, u, i)), NEW z, z = NextSep(p, u, i)
  PROVE  /\ i < Len(u.items) => q = z /\ CommaAt(data, q)
         /\ i = Len(u.items) => ~CommaAt(data, q)
  <1> DEFINE parts == ItemParts(u)
             gap == u.gap
             inner == ItemTexts(u)
             x == PartEnd(p, parts, gap, inner, i)
             n == Len(u.items)
             e == ItemEnd(p, u, i)
  <1>1. /\ Followed(data, p, parts, gap, inner, "]", i) /\ Len(parts) = n
        /\ inner[i] = u.items[i].text /\ data \in Texts /\ p \in Nat
    BY ItemStands
  <1>2. e + 1 = x
    <2>1. x = p + Spot(parts, gap, i) + Len(inner[i]) + 1
      BY DEF PartEnd
    <2>2. e = p + Spot(parts, gap, i) + Len(inner[i])
      BY <1>1 DEF ItemAt, ItemEnd
    <2> HIDE DEF x, e
    <2> QED
      BY <2>1, <2>2
  <1>3. q = SkipWs(data, x)
    BY <1>2 DEF NextAt
  <1>4. /\ i < n => q = p + Front(parts, i) + 1 /\ q <= Len(data) /\ data[q] = ","
        /\ i = n => q = PartsEnd(p, parts, gap)
        /\ q \in Nat /\ q <= Len(data) + 1
    BY <1>1, <1>3 DEF Followed
  <1>5. i < n => q = z /\ q \in DOMAIN data
    <2> SUFFICES ASSUME i < n PROVE q = z /\ q \in DOMAIN data
      OBVIOUS
    <2> DEFINE f == Front(parts, i)
    <2>1. f \in Nat
      <3>1. i \in 1..Len(parts) /\ PartsOf(parts, gap, inner)
        BY <1>1 DEF ListSetting, PartsStand
      <3> HIDE DEF parts, gap, inner
      <3> QED
        BY <3>1, SpotIs
    <2>2. z = p + f + 1
      <3>1. (i + 1) - 1 = i /\ i + 1 # 1
        OBVIOUS
      <3>2. CommaLen(i + 1) = 1
        BY <3>1 DEF CommaLen
      <3>3. z = p + Front(parts, (i + 1) - 1) + CommaLen(i + 1)
        BY DEF SepAt, NextSep
      <3> HIDE DEF parts
      <3> QED
        BY <3>1, <3>2, <3>3
    <2>3. DOMAIN data = 1..Len(data)
      BY <1>1 DEF Texts
    <2>4. q = p + f + 1 /\ q <= Len(data)
      BY <1>4
    <2> DEFINE l == Len(data)
    <2>a. p \in Nat /\ l \in Nat
      BY <1>1, LengthNat
    <2> HIDE DEF f, l
    <2>b. q <= l
      BY <2>4 DEF l
    <2>c. q \in 1..l
      BY <2>1, <2>4, <2>a, <2>b
    <2>5. q \in 1..Len(data)
      BY <2>c DEF l
    <2> QED
      BY <2>2, <2>3, <2>4, <2>5
  <1>6. i = n => data[q] = "]"
    <2> SUFFICES ASSUME i = n PROVE data[q] = "]"
      OBVIOUS
    <2>1. q = ListEnd(p, u)
      BY <1>4 DEF ListEnd
    <2>2. Closing(data, ListEnd(p, u), "]") /\ ListEnd(p, u) <= Len(data)
      BY DEF ListSetting
    <2> QED
      BY <2>1, <2>2 DEF Closing
  <1> HIDE DEF n
  <1>7. i < n => q = z /\ CommaAt(data, q)
    BY <1>4, <1>5 DEF CommaAt
  <1>8. i = n => ~CommaAt(data, q)
    BY <1>6, Brackets DEF CommaAt
  <1> QED
    BY <1>7, <1>8 DEF n

(* So a turn leads to the next item, and after the last or an unreadable
   one nowhere.                                                            *)
LEMMA ItemComma ==
  ASSUME NEW data, NEW p, NEW u, ListSetting(data, p, u), NEW i \in 1..Len(u.items),
         NEW s, s = SepAt(p, u, i), NEW z, z = NextSep(p, u, i)
  PROVE  Comma(data, s) =
           IF Readable(u.items[i], LongText) /\ i < Len(u.items) THEN z ELSE 0
  <1> DEFINE v == u.items[i]
             e == ItemEnd(p, u, i)
             some == [bytes |-> v.bytes, end |-> e]
             element == Element(data, s)
             q == NextAt(data, e)
             n == Len(u.items)
  <1>1. element = IF Readable(v, LongText) THEN Some(some) ELSE None
    <2>1. v = u.items[i] /\ e = ItemAt(p, u, i) + Len(v.text)
      BY DEF ItemEnd
    <2> HIDE DEF v, e
    <2> QED
      BY <2>1, ItemElement
  <1>2. s # 0
    BY ItemStands
  <1>3. /\ i < n => q = z /\ CommaAt(data, q)
        /\ i = n => ~CommaAt(data, q)
    <2>1. q = NextAt(data, ItemEnd(p, u, i))
      OBVIOUS
    <2>2. n = Len(u.items)
      OBVIOUS
    <2> HIDE DEF e, q, v, some, element, n
    <2>3. /\ i < Len(u.items) => q = z /\ CommaAt(data, q)
          /\ i = Len(u.items) => ~CommaAt(data, q)
      BY <2>1, ItemFollowed
    <2> QED
      BY <2>2, <2>3
  <1>4. some.end = e
    OBVIOUS
  <1>5. i < n \/ i = n
    <2>1. n \in Nat
      BY ListParts DEF ListSetting
    <2> QED
      BY <2>1
  <1>6. Comma(data, s) =
          IF s # 0 /\ element.found /\ CommaAt(data, AfterEnd(data, element))
            THEN AfterEnd(data, element) ELSE 0
    <2>1. Element(data, s) = element
      OBVIOUS
    <2> HIDE DEF element, v, e, q, n, some
    <2> QED
      BY <2>1, CommaIs
  <1> HIDE DEF element, some, v, q, n
  <1>7. CASE ~Readable(v, LongText)
    <2>1. ~element.found
      BY <1>1, <1>7 DEF None
    <2> QED
      BY <1>6, <1>7, <2>1 DEF v
  <1>8. CASE Readable(v, LongText)
    <2>1. element.found /\ element.value = some
      BY <1>1, <1>8 DEF Some
    <2>2. AfterEnd(data, element) = q
      BY <1>4, <2>1 DEF AfterEnd, NextAt, q
    <2>3. CASE i < n
      BY <1>2, <1>3, <1>6, <1>8, <2>1, <2>2, <2>3 DEF v, n
    <2>4. CASE i = n
      <3>1. ~CommaAt(data, q)
        BY <1>3, <2>4
      <3>2. ~(i < n)
        BY <2>4
      <3> QED
        BY <1>6, <2>2, <3>1, <3>2 DEF n
    <2> QED
      BY <1>5, <2>3, <2>4
  <1> QED
    BY <1>7, <1>8

(* The turns of the loop.                                                  *)
AreTurns(t, data, p) ==
  /\ t \in [0..Len(data) -> Nat] /\ t[0] = p
  /\ \A k \in 1..Len(data) : t[k] = Comma(data, t[k - 1])

(* A turn leads to a place in the text, or nowhere.                        *)
LEMMA CommaType ==
  ASSUME NEW data \in Texts, NEW s
  PROVE  Comma(data, s) \in Nat
  <1> DEFINE q == AfterEnd(data, Element(data, s))
  <1>1. (Comma(data, s) = q /\ CommaAt(data, q)) \/ Comma(data, s) = 0
    BY CommaIs
  <1>2. ASSUME CommaAt(data, q) PROVE q \in Nat
    <2>1. q \in DOMAIN data
      BY <1>2 DEF CommaAt
    <2>2. DOMAIN data = 1..Len(data) /\ Len(data) \in Nat
      BY DEF Texts
    <2> HIDE DEF q
    <2>3. q \in 1..Len(data)
      BY <2>1, <2>2
    <2> QED
      BY <2>2, <2>3
  <1> HIDE DEF q
  <1> QED
    BY <1>1, <1>2

(* Turns is the function its recursive definition says.                    *)
LEMMA TurnsDef ==
  ASSUME NEW data \in Texts, NEW p \in Nat
  PROVE  AreTurns(Turns(data, p), data, p)
  <1> DEFINE n == Len(data)
             step == [q \in (1..n) \X Nat |-> Comma(data, q[2])]
  <1>1. n \in Nat
    BY LengthNat
  <1>3. step \in [(1..n) \X Nat -> Nat]
    BY CommaType
  <1>5. PICK f \in [0..n -> Nat] :
          f[0] = p /\ \A k \in 1..n : f[k] = step[<<k, f[k - 1]>>]
    <2> HIDE DEF n, step
    <2>1. step \in Steps(n, Nat)
      BY <1>3 DEF Steps
    <2>2. Recursed(n, Nat, p, step)
      BY <1>1, <2>1, Recursion
    <2> QED
      BY <2>2 DEF Recursed
  <1>6. \A k \in 1..n : f[k] = Comma(data, f[k - 1])
    <2> SUFFICES ASSUME NEW k \in 1..n PROVE f[k] = Comma(data, f[k - 1])
      OBVIOUS
    <2>1. f[k - 1] \in Nat
      BY <1>1, <1>5
    <2>2. <<k, f[k - 1]>> \in (1..n) \X Nat
      BY <2>1
    <2>3. step[<<k, f[k - 1]>>] = Comma(data, f[k - 1])
      BY <2>2
    <2> QED
      BY <1>5, <2>3
  <1> DEFINE Right(g) == g = [k \in 0..n |-> IF k = 0 THEN p ELSE Comma(data, g[k - 1])]
             E == CHOOSE g : Right(g)
  <1>7. Right(f)
    <2>1. f = [k \in 0..n |-> f[k]]
      BY <1>5
    <2>2. \A k \in 0..n : f[k] = IF k = 0 THEN p ELSE Comma(data, f[k - 1])
      <3> SUFFICES ASSUME NEW k \in 0..n
                   PROVE  f[k] = IF k = 0 THEN p ELSE Comma(data, f[k - 1])
        OBVIOUS
      <3>1. k = 0 \/ k \in 1..n
        BY <1>1
      <3> QED
        BY <1>5, <1>6, <3>1
    <2> QED
      BY <2>1, <2>2
  <1>8. Turns(data, p) = E
    BY DEF Turns
  <1>9. Right(E)
    <2> HIDE DEF Right
    <2> QED
      BY <1>7
  <1>10. E = [k \in 0..n |-> E[k]] /\ E[0] = p
         /\ \A k \in 1..n : E[k] = Comma(data, E[k - 1])
    <2> HIDE DEF E
    <2>1. E = [k \in 0..n |-> IF k = 0 THEN p ELSE Comma(data, E[k - 1])]
      BY <1>9
    <2>2. 0 \in 0..n /\ \A k \in 1..n : k \in 0..n /\ k # 0
      BY <1>1
    <2> HIDE DEF n
    <2>3. E = [k \in 0..n |-> E[k]]
      BY <2>1
    <2> QED
      BY <2>1, <2>2, <2>3
  <1>11. E \in [0..n -> Nat]
    <2> HIDE DEF E, n
    <2>1. \A k \in 1..n : E[k - 1] \in Nat => E[k] \in Nat
      BY <1>10, CommaType
    <2>2. E[0] \in Nat
      BY <1>10
    <2> QED
      BY <1>1, <1>10, <2>1, <2>2, StaysIn
  <1> HIDE DEF E
  <1> QED
    BY <1>8, <1>10, <1>11 DEF AreTurns

(* An empty list has no element.                                           *)
LEMMA NoElement ==
  ASSUME NEW data, NEW p, NEW u, ListSetting(data, p, u), Len(u.items) = 0
  PROVE  Element(data, p) = None
  <1> DEFINE parts == ItemParts(u)
             gap == u.gap
             e == ListEnd(p, u)
  <1>1. /\ data \in Texts /\ p \in Nat /\ PartsOf(parts, gap, ItemTexts(u))
        /\ Stands(data, p, Joined(parts) \o gap)
        /\ Closing(data, e, "]") /\ e \in Nat /\ e <= Len(data) /\ IsListOf(u, Values)
    BY DEF ListSetting, PartsStand
  <1>2. Len(parts) = 0 /\ gap \in Blanks /\ parts \in Seq(Texts)
    BY <1>1, ListParts DEF PartsOf
  <1>3. gap \in Texts /\ Joined(parts) \in Texts /\ Len(gap) \in Nat /\ Len(Joined(parts)) = 0
    <2> HIDE DEF parts, gap
    <2>1. gap \in Texts /\ Len(gap) \in Nat /\ Joined(parts) \in Texts
      BY <1>2, GapIs, FrontsDef
    <2>2. Len(Joined(parts)) = Front(parts, Len(parts)) /\ Front(parts, 0) = 0
      BY <1>2, FrontIs
    <2> QED
      BY <1>2, <2>1, <2>2
  <1>4. Stands(data, p + Len(Joined(parts)), gap)
    <2> HIDE DEF parts, gap
    <2> QED
      BY <1>1, <1>3, StandsConcat
  <1>5. Stands(data, p, gap)
    <2> HIDE DEF parts, gap
    <2>1. p + Len(Joined(parts)) = p
      BY <1>1, <1>3
    <2> QED
      BY <1>4, <2>1
  <1>6. e = p + Len(gap) + 1
    <2>1. e = p + Len(Joined(parts) \o gap) + 1
      BY DEF ListEnd, PartsEnd
    <2> HIDE DEF parts, gap, e
    <2>2. Len(Joined(parts) \o gap) = Len(Joined(parts)) + Len(gap)
      BY <1>3, Pieces
    <2>3. Len(Joined(parts) \o gap) = Len(gap)
      BY <1>3, <2>2
    <2> QED
      BY <2>1, <2>3
  <1>7. data[e] = "]"
    BY <1>1 DEF Closing
  <1>8. data[e] # Blank /\ data[e] # Quote
    BY <1>7, Brackets
  <1> HIDE DEF e, parts, gap
  <1> DEFINE x == p + Len(gap) + 1
  <1>9. x = e
    BY <1>6
  <1> HIDE DEF x
  <1>10. data[x] # Blank
    BY <1>8, <1>9
  <1>11. SkipWs(data, p + 1) = x
    BY <1>1, <1>2, <1>5, <1>10, SkipsGap DEF x
  <1>12. NextAt(data, p) = e
    BY <1>9, <1>11 DEF NextAt
  <1> QED
    BY <1>8, <1>12, ElementIs

(* Where the loop is after so many turns.                                  *)
ReadTo(u, k) == \A i \in 1..k : Readable(u.items[i], LongText)
TurnAt(p, u, k) ==
  IF k < Len(u.items) /\ ReadTo(u, k) THEN NextSep(p, u, k) ELSE IF k = 0 THEN p ELSE 0

(* The first turn begins at the bracket.                                   *)
LEMMA NextSepIs ==
  ASSUME NEW p \in Nat, NEW u, IsListOf(u, Values), NEW k \in Nat, NEW i, i = k + 1
  PROVE  NextSep(p, u, k) = SepAt(p, u, i) /\ (k = 0 => NextSep(p, u, k) = p)
  <1>1. NextSep(p, u, k) = SepAt(p, u, i)
    BY DEF NextSep
  <1>2. ASSUME k = 0 PROVE SepAt(p, u, i) = p
    <2> DEFINE parts == ItemParts(u)
    <2>1. i = 1 /\ i - 1 = 0
      BY <1>2
    <2>2. parts \in Seq(Texts)
      BY ListParts DEF PartsOf
    <2> HIDE DEF parts
    <2>3. Front(parts, 0) = 0
      BY <2>2, FrontIs
    <2>4. CommaLen(i) = 0
      BY <2>1 DEF CommaLen
    <2>5. SepAt(p, u, i) = p + Front(parts, i - 1) + CommaLen(i)
      BY DEF SepAt, parts
    <2>6. SepAt(p, u, i) = p + 0 + 0
      BY <2>1, <2>3, <2>4, <2>5
    <2> QED
      BY <2>6
  <1> QED
    BY <1>1, <1>2

(* One turn after the other.                                               *)
LEMMA TurnStep ==
  ASSUME NEW data, NEW p, NEW u, ListSetting(data, p, u), NEW k \in Nat, NEW i, i = k + 1
  PROVE  TurnAt(p, u, i) = Comma(data, TurnAt(p, u, k))
  <1> DEFINE n == Len(u.items)
  <1>1. p \in Nat /\ p # 0 /\ IsListOf(u, Values)
    BY DEF ListSetting, PartsStand
  <1>2. n \in Nat
    BY <1>1, ListParts
  <1>3. i \in Nat /\ i # 0 /\ i >= 1
    OBVIOUS
  <1>4. Comma(data, 0) = 0
    BY CommaIs
  <1>5. TurnAt(p, u, i) = IF i < n /\ ReadTo(u, i) THEN NextSep(p, u, i) ELSE 0
    BY <1>3 DEF TurnAt
  <1>6. TurnAt(p, u, k) =
          IF k < n /\ ReadTo(u, k) THEN NextSep(p, u, k) ELSE IF k = 0 THEN p ELSE 0
    BY DEF TurnAt
  <1>7. ReadTo(u, i) <=> ReadTo(u, k) /\ Readable(u.items[i], LongText)
    <2> DEFINE R(x) == Readable(u.items[x], LongText)
    <2> HIDE DEF R
    <2>1. (\A x \in 1..i : R(x)) <=> (\A x \in 1..k : R(x)) /\ R(i)
      <3>1. i \in 1..i /\ \A x \in 1..k : x \in 1..i
        OBVIOUS
      <3>2. \A x \in 1..i : x = i \/ x \in 1..k
        OBVIOUS
      <3> QED
        BY <3>1, <3>2
    <2> QED
      BY <2>1 DEF ReadTo, R
  <1> HIDE DEF n
  <1>8. CASE k < n /\ ReadTo(u, k)
    <2> DEFINE s == NextSep(p, u, k)
               z == NextSep(p, u, i)
    <2>1. s = SepAt(p, u, i)
      BY <1>1, NextSepIs
    <2>2. i \in 1..n
      BY <1>2, <1>3, <1>8
    <2>a. i \in 1..Len(u.items) /\ z = NextSep(p, u, i)
      BY <2>2 DEF n
    <2> HIDE DEF s, z
    <2>3. Comma(data, s) = IF Readable(u.items[i], LongText) /\ i < n THEN z ELSE 0
      BY <2>1, <2>a, ItemComma DEF n
    <2>4. TurnAt(p, u, k) = s
      BY <1>6, <1>8 DEF s
    <2> QED
      BY <1>5, <1>7, <1>8, <2>3, <2>4 DEF z
  <1>9. CASE ~(k < n /\ ReadTo(u, k)) /\ k = 0
    <2>1. ReadTo(u, k)
      BY <1>9 DEF ReadTo
    <2>2. n = 0
      BY <1>2, <1>9, <2>1
    <2>3. Element(data, p) = None
      BY <2>2, NoElement DEF n
    <2>4. ~Element(data, p).found
      BY <2>3 DEF None
    <2>5. Comma(data, p) = 0
      BY <2>4, CommaIs
    <2>6. ~(i < n)
      BY <1>3, <2>2
    <2> QED
      BY <1>5, <1>6, <1>9, <2>5, <2>6
  <1>10. CASE ~(k < n /\ ReadTo(u, k)) /\ k # 0
    <2>1. ~(i < n /\ ReadTo(u, i))
      <3>1. i < n => k < n
        BY <1>2, <1>3
      <3> QED
        BY <1>7, <1>10, <3>1
    <2> QED
      BY <1>4, <1>5, <1>6, <1>10, <2>1
  <1> QED
    BY <1>8, <1>9, <1>10

(* After k turns the loop is at item k + 1, if there is one and those
   before it were readable.                                                *)
LEMMA TurnIs ==
  ASSUME NEW data, NEW p, NEW u, ListSetting(data, p, u), NEW k \in 0..Len(data)
  PROVE  Turns(data, p)[k] = TurnAt(p, u, k)
  <1> DEFINE t == Turns(data, p)
             n == Len(data)
             Same(h) == t[h] = TurnAt(p, u, h)
             P == {h \in Nat : h <= n => Same(h)}
  <1>1. data \in Texts /\ p \in Nat /\ IsListOf(u, Values)
    BY DEF ListSetting, PartsStand
  <1>2. n \in Nat
    BY <1>1, LengthNat
  <1>3. t[0] = p /\ \A h \in 1..n : t[h] = Comma(data, t[h - 1])
    BY <1>1, TurnsDef DEF AreTurns
  <1>a. k \in 0..n
    OBVIOUS
  <1> HIDE DEF t, n
  <1>4. Same(0)
    <2>1. 0 \in Nat /\ 1 = 0 + 1 /\ 0 = 0
      OBVIOUS
    <2>2. NextSep(p, u, 0) = p
      BY <1>1, <2>1, NextSepIs
    <2>3. TurnAt(p, u, 0) = p
      BY <2>2 DEF TurnAt
    <2> QED
      BY <1>3, <2>3
  <1>5. ASSUME NEW h \in Nat, h + 1 <= n, Same(h) PROVE Same(h + 1)
    <2> DEFINE i == h + 1
    <2>1. i \in 1..n /\ i - 1 = h /\ i = h + 1
      BY <1>2, <1>5
    <2> HIDE DEF i
    <2>2. t[i] = Comma(data, t[h])
      BY <1>3, <2>1
    <2>3. TurnAt(p, u, i) = Comma(data, TurnAt(p, u, h))
      BY <2>1, TurnStep
    <2>4. t[i] = TurnAt(p, u, i)
      BY <1>5, <2>2, <2>3
    <2> QED
      BY <2>4 DEF i
  <1> HIDE DEF Same
  <1>8. 0 \in P /\ P \in SUBSET Nat
    BY <1>4
  <1>9. \A h \in P : h + 1 \in P
    <2> SUFFICES ASSUME NEW h \in P, h + 1 <= n PROVE h + 1 \in Nat /\ Same(h + 1)
      OBVIOUS
    <2>1. h \in Nat /\ h <= n
      BY <1>2
    <2> QED
      BY <1>5, <2>1
  <1> HIDE DEF P
  <1>10. P = Nat
    BY <1>8, <1>9, Induct
  <1>11. Same(k)
    BY <1>2, <1>a, <1>10 DEF P
  <1> QED
    BY <1>11 DEF Same, t

(* A list has no more items than bytes.                                    *)
LEMMA ItemsFit ==
  ASSUME NEW data, NEW p, NEW u, ListSetting(data, p, u)
  PROVE  Len(u.items) \in Nat /\ Len(u.items) <= Len(data)
  <1> DEFINE parts == ItemParts(u)
             gap == u.gap
             inner == ItemTexts(u)
             n == Len(parts)
             Same(k) == Front(parts, k) >= k
             P == {k \in Nat : k <= n => Same(k)}
  <1>1. /\ data \in Texts /\ p \in Nat /\ PartsOf(parts, gap, inner) /\ IsListOf(u, Values)
        /\ PartsStand(data, p, parts, gap, inner) /\ ListEnd(p, u) <= Len(data)
    BY DEF ListSetting, PartsStand
  <1>2. /\ n = Len(u.items) /\ n \in Nat
        /\ \A i \in 1..n : u.items[i] \in Values /\ inner[i] = u.items[i].text
    BY <1>1, ListParts
  <1>3. \A i \in 1..n : Len(inner[i]) \in Nat /\ Len(inner[i]) >= 1
    BY <1>2, StartsWith DEF Starts
  <1>4. parts \in Seq(Texts)
    BY <1>1 DEF PartsOf
  <1>5. Front(parts, 0) = 0 /\ \A k \in 0..n : Front(parts, k) \in Nat
    <2> HIDE DEF parts
    <2> QED
      BY <1>4, FrontIs
  <1>6. /\ ListEnd(p, u) = p + Len(Joined(parts) \o gap) + 1
        /\ Len(Joined(parts) \o gap) = Front(parts, n) + Len(gap) /\ Len(gap) \in Nat
    <2>1. ListEnd(p, u) = p + Len(Joined(parts) \o gap) + 1
      BY DEF ListEnd, PartsEnd
    <2> HIDE DEF parts, gap, inner
    <2>2. Len(Joined(parts) \o gap) = Front(parts, n) + Len(gap) /\ Len(gap) \in Nat
      BY <1>1, PartsLength
    <2> QED
      BY <2>1, <2>2
  <1> HIDE DEF parts, gap, inner, n
  <1>7. Same(0)
    BY <1>5
  <1>8. ASSUME NEW k \in Nat, k + 1 <= n, Same(k) PROVE Same(k + 1)
    <2> DEFINE i == k + 1
    <2>1. i \in 1..n /\ i - 1 = k /\ k \in 0..n /\ i \in 0..n
      BY <1>2, <1>8
    <2> HIDE DEF i
    <2>a. i \in 1..Len(parts)
      BY <2>1 DEF n
    <2>2. /\ CommaLen(i) \in 0..1 /\ Len(gap) \in Nat /\ Len(inner[i]) \in Nat
          /\ Spot(parts, gap, i) = Front(parts, i - 1) + CommaLen(i) + Len(gap)
          /\ Front(parts, i) = Spot(parts, gap, i) + Len(inner[i]) + Len(gap)
      BY <1>1, <2>a, SpotIs
    <2> DEFINE f == Front(parts, k)
               g == Front(parts, i)
               c == CommaLen(i)
               l == Len(gap)
               d == Len(inner[i])
    <2>3. /\ f \in Nat /\ c \in 0..1 /\ l \in Nat /\ d \in Nat /\ d >= 1 /\ f >= k
          /\ g = f + c + l + d + l
      <3>1. d \in Nat /\ d >= 1
        BY <1>3, <2>1
      <3>2. f \in Nat /\ f >= k
        BY <1>5, <1>8, <2>1
      <3>3. Front(parts, i - 1) = f
        BY <2>1
      <3>4. g = f + c + l + d + l
        BY <2>2, <3>3
      <3> HIDE DEF f, g, d
      <3> QED
        BY <2>2, <3>1, <3>2, <3>4
    <2> HIDE DEF f, g, c, l, d
    <2>4. g >= i
      BY <2>3 DEF i
    <2> QED
      BY <2>4 DEF g, i
  <1> HIDE DEF Same
  <1>9. 0 \in P /\ P \in SUBSET Nat
    BY <1>7
  <1>10. \A k \in P : k + 1 \in P
    <2> SUFFICES ASSUME NEW k \in P, k + 1 <= n PROVE k + 1 \in Nat /\ Same(k + 1)
      OBVIOUS
    <2>1. k \in Nat /\ k <= n
      BY <1>2
    <2> QED
      BY <1>8, <2>1
  <1> HIDE DEF P
  <1>11. P = Nat
    BY <1>9, <1>10, Induct
  <1>12. Front(parts, n) >= n /\ Front(parts, n) \in Nat
    <2>1. Same(n)
      BY <1>2, <1>11 DEF P
    <2>2. n \in 0..n
      BY <1>2
    <2> QED
      BY <1>5, <2>1, <2>2 DEF Same
  <1>13. n <= Len(data)
    <2> DEFINE f == Front(parts, n)
               g == Len(gap)
               l == Len(data)
               e == ListEnd(p, u)
    <2>1. e = p + (f + g) + 1
      BY <1>6
    <2>2. f \in Nat /\ f >= n /\ g \in Nat /\ l \in Nat /\ e <= l /\ p \in Nat
      BY <1>1, <1>6, <1>12, LengthNat
    <2> HIDE DEF f, g, l, e
    <2>3. n <= l
      BY <1>2, <2>1, <2>2
    <2> QED
      BY <2>3 DEF l
  <1> QED
    BY <1>2, <1>13

(* json_array_contains_string, from the bracket on.                        *)
LEMMA ListHasIs ==
  ASSUME NEW data, NEW p, NEW u, ListSetting(data, p, u), u.kind = "list", NEW expected
  PROVE  ListHas(data, p, expected) <=> HasText(u, expected)
  <1> DEFINE n == Len(u.items)
             turn == Turns(data, p)
             There(k) == /\ turn[k] # 0 /\ Element(data, turn[k]).found
                         /\ Element(data, turn[k]).value.bytes = expected
  <1>1. n \in Nat /\ n <= Len(data) /\ Len(data) \in Nat
    BY ItemsFit, LengthNat DEF ListSetting, PartsStand
  <1>2. ListHas(data, p, expected) <=> \E k \in 0..Len(data) : There(k)
    BY DEF ListHas
  <1>3. HasText(u, expected) <=>
          \E i \in 1..n : u.items[i].kind = "text" /\ u.items[i].bytes = expected /\ ReadTo(u, i)
    BY DEF HasText, ReadTo
  <1>4. \A k \in 0..Len(data) : turn[k] = TurnAt(p, u, k)
    BY TurnIs
  <1>5. p \in Nat /\ p # 0 /\ IsListOf(u, Values)
    BY DEF ListSetting, PartsStand
  <1> HIDE DEF turn
  <1>6. ASSUME NEW i \in 1..n
        PROVE  /\ SepAt(p, u, i) # 0
               /\ Element(data, SepAt(p, u, i)).found <=> Readable(u.items[i], LongText)
               /\ Readable(u.items[i], LongText) =>
                    Element(data, SepAt(p, u, i)).value.bytes = u.items[i].bytes
    <2> DEFINE s == SepAt(p, u, i)
               v == u.items[i]
               e == ItemAt(p, u, i) + Len(v.text)
               some == [bytes |-> v.bytes, end |-> e]
    <2>1. s # 0
      BY ItemStands
    <2>2. Element(data, s) = IF Readable(v, LongText) THEN Some(some) ELSE None
      <3>1. s = SepAt(p, u, i) /\ v = u.items[i] /\ e = ItemAt(p, u, i) + Len(v.text)
            /\ i \in 1..Len(u.items)
        OBVIOUS
      <3> HIDE DEF s, v, e, n
      <3> QED
        BY <3>1, ItemElement
    <2>3. some.bytes = v.bytes
      OBVIOUS
    <2>4. Some(some).found /\ Some(some).value = some /\ ~None.found
      BY DEF Some, None
    <2> HIDE DEF some, s, v
    <2>5. s # 0 /\ (Element(data, s).found <=> Readable(v, LongText))
          /\ (Readable(v, LongText) => Element(data, s).value.bytes = v.bytes)
      BY <2>1, <2>2, <2>3, <2>4
    <2> QED
      BY <2>5 DEF s, v
  <1>7. ASSUME NEW i \in 1..n, u.items[i].bytes = expected, ReadTo(u, i)
        PROVE  \E k \in 0..Len(data) : There(k)
    <2> DEFINE k == i - 1
    <2>1. k \in 0..Len(data) /\ k \in Nat /\ k < n /\ i = k + 1
      BY <1>1
    <2>2. ReadTo(u, k) /\ Readable(u.items[i], LongText)
      <3>1. i \in 1..i /\ \A x \in 1..k : x \in 1..i
        BY <1>1
      <3> HIDE DEF k
      <3> QED
        BY <1>7, <3>1 DEF ReadTo
    <2> HIDE DEF k
    <2>3. NextSep(p, u, k) = SepAt(p, u, i)
      BY <1>5, <2>1, NextSepIs
    <2>4. TurnAt(p, u, k) = SepAt(p, u, i)
      BY <2>1, <2>2, <2>3 DEF TurnAt
    <2>5. turn[k] = SepAt(p, u, i)
      BY <1>4, <2>1, <2>4
    <2>6. There(k)
      BY <1>6, <1>7, <2>2, <2>5
    <2> QED
      BY <2>1, <2>6
  <1>8. ASSUME NEW k \in 0..Len(data), There(k)
        PROVE  \E i \in 1..n :
                 u.items[i].kind = "text" /\ u.items[i].bytes = expected /\ ReadTo(u, i)
    <2> DEFINE i == k + 1
    <2>1. k \in Nat /\ i = k + 1 /\ i \in Nat
      OBVIOUS
    <2>2. turn[k] = TurnAt(p, u, k)
      BY <1>4
    <2> HIDE DEF i
    <2>3. CASE k < n /\ ReadTo(u, k)
      <3>1. i \in 1..n
        BY <1>1, <2>1, <2>3
      <3>2. NextSep(p, u, k) = SepAt(p, u, i)
        BY <1>5, <2>1, NextSepIs
      <3>3. turn[k] = SepAt(p, u, i)
        BY <2>2, <2>3, <3>2 DEF TurnAt
      <3>4. Readable(u.items[i], LongText) /\ u.items[i].bytes = expected
        BY <1>6, <1>8, <3>1, <3>3
      <3>5. u.items[i].kind = "text"
        BY <3>4 DEF Readable
      <3>6. ReadTo(u, i)
        <4>1. \A x \in 1..i : x = i \/ x \in 1..k
          BY <2>1
        <4> QED
          BY <2>3, <3>4, <4>1 DEF ReadTo
      <3> QED
        BY <3>1, <3>4, <3>5, <3>6
    <2>4. CASE ~(k < n /\ ReadTo(u, k))
      <3>1. turn[k] = IF k = 0 THEN p ELSE 0
        BY <2>2, <2>4 DEF TurnAt
      <3>2. k = 0 /\ turn[k] = p
        BY <1>8, <3>1
      <3>3. ReadTo(u, k)
        BY <3>2 DEF ReadTo
      <3>4. n = 0
        BY <1>1, <2>4, <3>2, <3>3
      <3>5. Element(data, p) = None
        BY <3>4, NoElement
      <3>6. ~Element(data, turn[k]).found
        BY <3>2, <3>5 DEF None
      <3> QED
        BY <1>8, <3>6
    <2> QED
      BY <2>3, <2>4
  <1> HIDE DEF n, There
  <1> QED
    BY <1>2, <1>3, <1>7, <1>8

(* json_array_contains_string.                                             *)
LEMMA ListRead ==
  ASSUME NEW data, NEW key, NEW u, Located(data, key, u), NEW expected
  PROVE  ArrayContainsString(data, key, expected) <=> HasText(u, expected)
  <1> DEFINE p == FindValue(data, key)
  <1>1. ArrayContainsString(data, key, expected) <=>
          p # 0 /\ data[p] = "[" /\ ListHas(data, p, expected)
    BY DEF ArrayContainsString
  <1>2. CASE u = Missing /\ p = 0
    BY <1>1, <1>2, MissingIs DEF HasText
  <1>3. ASSUME NEW w \in Nat, p = w + 1, ValueStands(data, w, u)
        PROVE  ArrayContainsString(data, key, expected) <=> HasText(u, expected)
    <2>1. data \in Texts /\ u \in Values /\ Stands(data, w, u.text) /\ data[w + 1] = u.text[1]
      BY <1>3 DEF ValueStands
    <2>2. Starts(u) /\ KindIs(u)
      BY <2>1, StartsWith, KindOf
    <2> HIDE DEF p
    <2>3. p # 0 /\ data[p] = u.text[1]
      BY <1>3, <2>1
    <2>4. data[p] = "[" <=> u.kind = "list"
      BY <2>2, <2>3 DEF Starts
    <2>5. CASE u.kind # "list"
      BY <1>1, <2>4, <2>5 DEF HasText
    <2>6. CASE u.kind = "list"
      <3>1. IsListOf(u, Values)
        BY <2>2, <2>6 DEF KindIs
      <3>2. ListSetting(data, p, u)
        BY <1>3, <2>1, <3>1, ListSettingAt
      <3>3. ListHas(data, p, expected) <=> HasText(u, expected)
        BY <2>6, <3>2, ListHasIs
      <3> QED
        BY <1>1, <2>3, <2>4, <2>6, <3>3
    <2> QED
      BY <2>5, <2>6
  <1> HIDE DEF p
  <1>5. (u = Missing /\ p = 0) \/ \E w \in Nat : p = w + 1 /\ ValueStands(data, w, u)
    BY DEF Located, p
  <1> QED
    BY <1>2, <1>3, <1>5

-----------------------------------------------------------------------------
(* The texts an object is read from.                                       *)

OpensAt(data, p) == data[p] = "{"
ClosesAt(data, e) == data[e] = "}"

(* What stands between the braces of an object.                            *)
LEMMA InBraces ==
  ASSUME NEW data \in Texts, NEW w \in Nat, NEW m \in Texts, NEW t, t = Braced(m),
         Stands(data, w, t), NEW p, p = w + 1, NEW e, e = p + Len(m) + 1
  PROVE  /\ Stands(data, p, m) /\ e <= Len(data) /\ e \in Nat
         /\ ClosesAt(data, e) /\ OpensAt(data, p)
  <1> DEFINE n == Len(m)
  <1>1. n \in Nat /\ Len(t) = n + 2 /\ Len(data) \in Nat
    BY BracedIs, LengthNat
  <1>c. t[n + 2] = "}"
    BY BracedIs
  <1>d. \A i \in 1..n : t[i + 1] = m[i]
    BY BracedIs
  <1>b. t[1] = "{"
    BY BracedIs
  <1>2. w + Len(t) <= Len(data) /\ \A i \in 1..Len(t) : data[w + i] = t[i]
    BY DEF Stands
  <1> HIDE DEF n
  <1>a. e = p + n + 1 /\ p = w + 1
    BY DEF n
  <1>3. p \in Nat /\ p + n <= Len(data)
    BY <1>1, <1>2, <1>a
  <1>4. ASSUME NEW i \in 1..n PROVE data[p + i] = m[i]
    <2> DEFINE h == i + 1
    <2>1. h \in 1..Len(t) /\ w + h = p + i
      BY <1>1, <1>a
    <2>2. t[h] = m[i]
      BY <1>d
    <2> HIDE DEF h
    <2> QED
      BY <1>2, <2>1, <2>2
  <1>5. e <= Len(data) /\ e \in Nat /\ w + (n + 2) = e
    BY <1>1, <1>2, <1>a
  <1>6. data[e] = "}"
    <2> DEFINE h == n + 2
    <2>1. h \in 1..Len(t) /\ w + h = e
      BY <1>1, <1>5
    <2>2. t[h] = "}"
      BY <1>c
    <2> HIDE DEF h
    <2> QED
      BY <1>2, <2>1, <2>2
  <1>7. data[p] = "{"
    <2>1. 1 \in 1..Len(t)
      BY <1>1
    <2> QED
      BY <1>b, <1>2, <1>a, <2>1
  <1>8. ClosesAt(data, e) /\ OpensAt(data, p)
    BY <1>6, <1>7 DEF ClosesAt, OpensAt
  <1>9. Stands(data, p, m)
    BY <1>3, <1>4 DEF Stands, n
  <1> QED
    BY <1>5, <1>8, <1>9

(* White space around an object.                                           *)
Around(data, before, t, after) ==
  /\ data \in Texts /\ before \in Blanks /\ after \in Blanks /\ t \in Texts
  /\ data = before \o t \o after

(* Where an object in white space stands, and that all the rest is blank.  *)
LEMMA AroundIs ==
  ASSUME NEW data, NEW before, NEW t, NEW after, Around(data, before, t, after),
         NEW b, b = Len(before), NEW n, n = Len(t)
  PROVE  /\ b \in Nat /\ n \in Nat /\ Stands(data, 0, before) /\ Stands(data, b, t)
         /\ \A i \in 1..Len(data) : i <= b \/ i > b + n => data[i] = Blank
  <1>1. data \in Texts /\ before \in Texts /\ after \in Texts /\ t \in Texts
    BY GapIs DEF Around
  <1> DEFINE x == before \o t
             a == Len(after)
  <1>2. b \in Nat /\ n \in Nat /\ a \in Nat /\ Len(data) \in Nat
    BY <1>1, LengthNat
  <1>3. x \in Texts /\ Len(x) = b + n
    BY <1>1, Pieces
  <1>4. data = x \o after /\ Len(data) = Len(x) + a
    BY <1>1, <1>3, Pieces DEF Around
  <1>5. Stands(data, 0, x \o after)
    BY <1>1, <1>4, StandsSelf
  <1> HIDE DEF x
  <1>6. Stands(data, 0, x) /\ Stands(data, 0 + Len(x), after)
    <2>1. 0 \in Nat
      OBVIOUS
    <2> QED
      BY <1>1, <1>3, <1>5, <2>1, StandsConcat
  <1>7. Stands(data, 0, before) /\ Stands(data, 0 + Len(before), t)
    <2>1. 0 \in Nat
      OBVIOUS
    <2> QED
      BY <1>1, <1>6, <2>1, StandsConcat DEF x
  <1>8. Stands(data, b, t)
    <2>1. 0 + Len(before) = b
      BY <1>2
    <2> QED
      BY <1>7, <2>1
  <1>9. Len(data) = b + n + a /\ 0 + Len(x) = b + n
    BY <1>2, <1>3, <1>4
  <1>10. \A i \in 1..a : data[(b + n) + i] = Blank
    <2>1. \A i \in 1..a : data[0 + Len(x) + i] = after[i]
      BY <1>6 DEF Stands
    <2>2. \A i \in 1..a : after[i] = Blank
      BY GapBlank DEF Around
    <2> QED
      BY <1>9, <2>1, <2>2
  <1>11. \A i \in 1..b : data[i] = Blank
    <2>1. \A i \in 1..b : data[0 + i] = before[i] /\ 0 + i = i
      BY <1>7 DEF Stands
    <2>2. \A i \in 1..b : before[i] = Blank
      BY GapBlank DEF Around
    <2> QED
      BY <2>1, <2>2
  <1> HIDE DEF a
  <1>12. ASSUME NEW i \in 1..Len(data), i <= b \/ i > b + n PROVE data[i] = Blank
    <2>1. CASE i <= b
      <3>1. i \in 1..b
        BY <1>2, <2>1
      <3> QED
        BY <1>11, <3>1
    <2>2. CASE i > b + n
      <3> DEFINE h == i - (b + n)
      <3>1. h \in 1..a /\ (b + n) + h = i
        BY <1>2, <1>9, <2>2
      <3> HIDE DEF h
      <3> QED
        BY <1>10, <3>1
    <2> QED
      BY <1>12, <2>1, <2>2
  <1> QED
    BY <1>2, <1>7, <1>8, <1>12

(* The members of an object, where its text stands.                        *)
ObjectAt(data, p, v) ==
  /\ IsObjectOf(v, Values)
  /\ PartsStand(data, p, MemberParts(v), v.gap, MemberTexts(v))
  /\ Closing(data, p + Span(v) + 1, "}")

MembersEnd(p, v) == p + Span(v) + 1

(* Where an object stands, its members stand after the brace.              *)
LEMMA ObjectAtIs ==
  ASSUME NEW data \in Texts, NEW w \in Nat, NEW v, IsObjectOf(v, Values), Stands(data, w, v.text),
         NEW p, p = w + 1
  PROVE  /\ ObjectAt(data, p, v) /\ data[p] = "{" /\ p <= Len(data) /\ Span(v) \in Nat
         /\ MembersEnd(p, v) <= Len(data) /\ data[MembersEnd(p, v)] = "}"
         /\ Len(v.text) = Span(v) + 2 /\ v.text \in Texts
  <1> DEFINE m == Members(v)
             t == v.text
  <1>1. /\ PartsOf(MemberParts(v), v.gap, MemberTexts(v))
        /\ m = Joined(MemberParts(v)) \o v.gap /\ t = Braced(m)
    BY ObjectParts DEF Braced
  <1>2. m \in Texts
    BY <1>1, PartsLength
  <1>3. Stands(data, w, t)
    OBVIOUS
  <1>4. Span(v) = Len(m)
    BY <1>1 DEF Span
  <1> HIDE DEF m, t
  <1>5. p \in Nat
    OBVIOUS
  <1> DEFINE e == p + Len(m) + 1
  <1>6. e = MembersEnd(p, v)
    BY <1>4 DEF MembersEnd
  <1>7. e = p + Len(m) + 1
    OBVIOUS
  <1> HIDE DEF e
  <1>a. /\ Stands(data, p, m) /\ e <= Len(data) /\ e \in Nat
        /\ ClosesAt(data, e) /\ OpensAt(data, p)
    BY <1>1, <1>2, <1>3, <1>7, InBraces
  <1>8. data[e] = "}" /\ data[p] = "{"
    BY <1>a DEF ClosesAt, OpensAt
  <1>9. PartsStand(data, p, MemberParts(v), v.gap, MemberTexts(v))
    BY <1>1, <1>5, <1>a DEF PartsStand
  <1>10. Closing(data, e, "}")
    BY <1>8 DEF Closing
  <1>11. ObjectAt(data, p, v)
    BY <1>6, <1>9, <1>10 DEF ObjectAt, MembersEnd
  <1>12. Len(t) = Span(v) + 2 /\ t \in Texts /\ Span(v) \in Nat
    BY <1>1, <1>2, <1>4, BracedIs, LengthNat
  <1>13. p <= Len(data)
    <2> DEFINE l == Len(data)
               s == Len(m)
    <2>1. e <= l /\ e = p + s + 1 /\ s \in Nat /\ l \in Nat
      BY <1>2, <1>7, <1>a, LengthNat
    <2> HIDE DEF l, s
    <2>2. p <= l
      BY <1>5, <2>1
    <2> QED
      BY <2>2 DEF l
  <1> QED
    BY <1>6, <1>8, <1>a, <1>11, <1>12, <1>13 DEF t

(* How deep the direct members are.                                        *)
LEMMA DirectDepthIs ==
  ASSUME NEW data, NEW p, SkipWs(data, 1) = p
  PROVE  DirectDepth(data) = IF p <= Len(data) /\ data[p] = "{" THEN 1 ELSE 0
  BY DEF DirectDepth

(* A whole manifest.                                                       *)
LEMMA WholeSetting ==
  ASSUME NEW data, NEW before, NEW after, NEW v, IsObjectOf(v, Values),
         Around(data, before, v.text, after)
  PROVE  \E o \in Nat : Setting(data, o, v)
  <1> DEFINE b == Len(before)
             n == Len(v.text)
             p == b + 1
             s == Span(v)
  <1>1. data \in Texts /\ before \in Texts /\ before \in Blanks
    BY GapIs DEF Around
  <1>2. /\ b \in Nat /\ n \in Nat /\ Stands(data, 0, before) /\ Stands(data, b, v.text)
        /\ \A i \in 1..Len(data) : i <= b \/ i > b + n => data[i] = Blank
    BY AroundIs
  <1>3. p = b + 1
    OBVIOUS
  <1> HIDE DEF b, n, p, s
  <1>4. /\ ObjectAt(data, p, v) /\ data[p] = "{" /\ p <= Len(data) /\ s \in Nat
        /\ MembersEnd(p, v) <= Len(data) /\ data[MembersEnd(p, v)] = "}"
        /\ n = s + 2
    BY <1>1, <1>2, <1>3, ObjectAtIs DEF n, s
  <1>5. MembersEnd(p, v) = p + s + 1 /\ p \in Nat
    BY <1>2, <1>3 DEF MembersEnd, s
  <1>6. ASSUME NEW i \in 1..Len(data), data[i] = Quote PROVE i > p /\ i <= p + s
    <2>1. data[i] # Blank /\ i # p /\ i # p + s + 1
      <3>1. data[i] # Blank
        BY <1>6, BlankIs
      <3>2. i # p
        BY <1>4, <1>6 DEF Quote
      <3>3. i # MembersEnd(p, v)
        BY <1>4, <1>6 DEF Quote
      <3> QED
        BY <1>5, <3>1, <3>2, <3>3
    <2>2. ~(i <= b) /\ ~(i > b + n)
      BY <1>2, <2>1
    <2>3. n = s + 2 /\ s \in Nat
      BY <1>4
    <2>a. Len(data) \in Nat
      BY <1>1, LengthNat
    <2> QED
      BY <1>2, <1>3, <2>1, <2>2, <2>3, <2>a
  <1>7. Nesting(data)[p] = Outermost
    <2>1. Nesting(data)[0 + 1] = Outermost
      BY <1>1, OutermostIs, ReadingType DEF Nesting
    <2>2. Back(before)
      BY <1>1, GapIs DEF Tidy, Loose
    <2>3. 0 \in Nat
      OBVIOUS
    <2>4. Nesting(data)[0 + Len(before) + 1] = Outermost
      BY <1>1, <1>2, <2>1, <2>2, <2>3, OutermostIs, AfterLoose
    <2>5. 0 + Len(before) + 1 = p
      BY <1>2, <1>3 DEF b
    <2> QED
      BY <2>4, <2>5
  <1>8. Nesting(data)[p + 1] = Opened
    <2>1. p \in 1..Len(data)
      <3>1. p <= Len(data) /\ Len(data) \in Nat
        BY <1>1, <1>4, LengthNat
      <3> QED
        BY <1>2, <1>3, <3>1
    <2>2. Nesting(data)[p + 1] = Past(Nesting(data)[p], data[p])
      BY <1>1, <2>1, OutermostIs, ReadingType DEF Nesting
    <2> QED
      BY <1>4, <1>7, <2>2, OpenedIs
  <1>9. DirectDepth(data) = 1
    <2>1. SkipWs(data, 1) = p
      <3> DEFINE x == 0 + Len(before) + 1
      <3>1. x = p
        BY <1>2, <1>3 DEF b
      <3>2. data[p] # Blank
        BY <1>4, BlankIs
      <3> HIDE DEF x
      <3>3. data[x] # Blank /\ 0 \in Nat
        BY <3>1, <3>2
      <3>4. SkipWs(data, 0 + 1) = x
        BY <1>1, <1>2, <3>3, SkipsGap DEF x
      <3>5. 0 + 1 = 1
        OBVIOUS
      <3> QED
        BY <3>1, <3>4, <3>5
    <2> QED
      BY <1>4, <2>1, DirectDepthIs
  <1>10. Outside(Opened) /\ Direct(Opened, data)
    <2>1. Opened.list = 0
      BY DEF Opened, Outermost
    <2> QED
      BY <1>9, <2>1, OpenedIs DEF Direct
  <1>11. Setting(data, p, v)
    BY <1>4, <1>6, <1>8, <1>10 DEF Setting, ObjectAt, s
  <1> QED
    BY <1>5, <1>11

(* The text between the braces of an object.                               *)
LEMMA InnerStart ==
  ASSUME NEW v, IsObjectOf(v, Values), NEW data, data = Members(v)
  PROVE  DirectDepth(data) = 0
  <1> DEFINE parts == MemberParts(v)
             gap == v.gap
             inner == MemberTexts(v)
             q == SkipWs(data, 1)
  <1>1. /\ PartsOf(parts, gap, inner) /\ Len(parts) = Len(v.members)
        /\ \A i \in 1..Len(v.members) :
             v.members[i].key \in Texts /\ v.members[i].value.text \in Texts
             /\ inner[i] = Member(gap, v.members[i])
        /\ data = Joined(parts) \o gap /\ gap \in Blanks /\ Len(v.members) \in Nat
    BY ObjectParts
  <1>2. data \in Texts /\ gap \in Texts /\ Len(gap) \in Nat
    BY <1>1, PartsLength, GapIs
  <1>3. PartsStand(data, 0, parts, gap, inner)
    BY <1>1, <1>2, StandsSelf DEF PartsStand
  <1> HIDE DEF q
  <1>4. SUFFICES ASSUME q <= Len(data), data[q] = "{" PROVE FALSE
    BY DirectDepthIs DEF q
  <1>5. CASE Len(parts) = 0
    <2>1. Len(data) = Len(gap)
      <3>1. Len(data) = Front(parts, Len(parts)) + Len(gap)
        BY <1>1, PartsLength
      <3>2. Front(parts, 0) = 0
        BY <1>1, FrontIs DEF PartsOf
      <3> HIDE DEF parts, gap
      <3> QED
        BY <1>2, <1>5, <3>1, <3>2
    <2>2. Stands(data, 0, gap)
      <3> HIDE DEF parts, gap, inner
      <3>1. Stands(data, 0 + Front(parts, Len(parts)), gap)
        <4>1. Stands(data, 0, Joined(parts) \o gap) /\ Joined(parts) \in Texts
          BY <1>1, <1>3, FrontsDef DEF PartsStand, PartsOf
        <4>2. Stands(data, 0 + Len(Joined(parts)), gap)
          <5>1. 0 \in Nat
            OBVIOUS
          <5> QED
            BY <1>2, <4>1, <5>1, StandsConcat
        <4>3. Len(Joined(parts)) = Front(parts, Len(parts))
          BY <1>1, FrontIs DEF PartsOf
        <4> QED
          BY <4>2, <4>3
      <3>2. 0 + Front(parts, Len(parts)) = 0
        <4>1. Front(parts, 0) = 0
          BY <1>1, FrontIs DEF PartsOf
        <4> QED
          BY <1>5, <4>1
      <3> QED
        BY <3>1, <3>2
    <2> DEFINE x == 0 + Len(gap) + 1
    <2>3. x > Len(data) \/ data[x] # Blank
      <3> HIDE DEF gap
      <3> QED
        BY <1>2, <2>1
    <2>4. SkipWs(data, 0 + 1) = x
      <3> HIDE DEF gap
      <3>1. 0 \in Nat
        OBVIOUS
      <3> QED
        BY <1>1, <1>2, <2>2, <2>3, <3>1, SkipsGap
    <2>5. q = x
      <3>1. 0 + 1 = 1
        OBVIOUS
      <3> HIDE DEF x
      <3> QED
        BY <2>4, <3>1 DEF q
    <2>6. ~(x <= Len(data))
      <3> HIDE DEF gap
      <3> QED
        BY <1>2, <2>1
    <2> HIDE DEF x
    <2> QED
      BY <1>4, <2>5, <2>6
  <1>6. CASE Len(parts) # 0
    <2> DEFINE m == v.members[1]
    <2>1. 1 \in 1..Len(parts)
      <3>1. Len(parts) \in Nat
        BY <1>1
      <3> HIDE DEF parts
      <3> QED
        BY <1>6, <3>1
    <2>2. m.key \in Texts /\ m.value.text \in Texts /\ inner[1] = Member(gap, m)
      BY <1>1, <2>1
    <2> HIDE DEF parts, gap, inner, m
    <2>3. /\ Stands(data, 0 + Front(parts, 1 - 1) + CommaLen(1), gap)
          /\ Stands(data, 0 + Spot(parts, gap, 1), inner[1])
      BY <1>3, <2>1, PartStands
    <2>4. Front(parts, 1 - 1) = 0 /\ CommaLen(1) = 0 /\ Spot(parts, gap, 1) = Len(gap)
      <3>1. Front(parts, 0) = 0 /\ 1 - 1 = 0
        BY <1>1, FrontIs DEF PartsOf
      <3>2. CommaLen(1) = 0
        BY DEF CommaLen
      <3>3. Spot(parts, gap, 1) = Front(parts, 1 - 1) + CommaLen(1) + Len(gap)
        BY DEF Spot
      <3>4. Front(parts, 1 - 1) = 0
        BY <3>1
      <3>5. Spot(parts, gap, 1) = 0 + 0 + Len(gap)
        BY <3>2, <3>3, <3>4
      <3> QED
        BY <1>2, <3>2, <3>4, <3>5
    <2>5. Stands(data, 0, gap)
      <3>1. 0 + Front(parts, 1 - 1) + CommaLen(1) = 0
        BY <2>4
      <3> QED
        BY <2>3, <3>1
    <2>6. Stands(data, Len(gap), Member(gap, m))
      <3>1. 0 + Spot(parts, gap, 1) = Len(gap)
        BY <1>2, <2>4
      <3> QED
        BY <2>2, <2>3, <3>1
    <2>7. Stands(data, Len(gap), Quoted(m.key))
      BY <1>1, <1>2, <2>2, <2>6, MemberIs
    <2>8. data[Len(gap) + 1] = Quote
      BY <1>2, <2>2, <2>7, QuotedStands
    <2> DEFINE x == 0 + Len(gap) + 1
    <2>9. data[x] = Quote
      <3>1. x = Len(gap) + 1
        BY <1>2
      <3> HIDE DEF x
      <3> QED
        BY <2>8, <3>1
    <2> HIDE DEF x
    <2>10. data[x] # Blank
      BY <2>9, BlankIs
    <2>11. SkipWs(data, 0 + 1) = x
      <3>1. 0 \in Nat
        OBVIOUS
      <3> QED
        BY <1>1, <1>2, <2>5, <2>10, <3>1, SkipsGap DEF x
    <2>12. q = x
      <3>1. 0 + 1 = 1
        OBVIOUS
      <3> QED
        BY <2>11, <3>1 DEF q
    <2>13. Quote # "{"
      BY DEF Quote
    <2> QED
      BY <1>4, <2>9, <2>12, <2>13
  <1> QED
    BY <1>5, <1>6

(* The text between the braces of an object is a setting of its members.   *)
LEMMA InnerSetting ==
  ASSUME NEW v, IsObjectOf(v, Values), NEW data, data = Members(v)
  PROVE  Setting(data, 0, v)
  <1> DEFINE s == Span(v)
  <1>1. /\ PartsOf(MemberParts(v), v.gap, MemberTexts(v))
        /\ data = Joined(MemberParts(v)) \o v.gap
    BY ObjectParts
  <1>2. data \in Texts /\ s = Len(data)
    BY <1>1, PartsLength DEF Span
  <1>3. s \in Nat
    BY <1>2, LengthNat
  <1>4. PartsStand(data, 0, MemberParts(v), v.gap, MemberTexts(v))
    BY <1>1, <1>2, StandsSelf DEF PartsStand
  <1> HIDE DEF s
  <1>5. Closing(data, 0 + s + 1, "}")
    <2>1. ~(0 + s + 1 <= Len(data))
      BY <1>2, <1>3
    <2> QED
      BY <2>1 DEF Closing
  <1>6. \A n \in 1..Len(data) : data[n] = Quote => n > 0 /\ n <= 0 + s
    BY <1>2, <1>3
  <1>7. Nesting(data)[0 + 1] = Outermost
    BY <1>2, OutermostIs, ReadingType DEF Nesting
  <1>8. Outside(Outermost) /\ Direct(Outermost, data)
    <2>1. DirectDepth(data) = 0
      BY InnerStart
    <2>2. Outermost.list = 0 /\ Outermost.object = 0 /\ ~Outermost.string
      BY DEF Outermost
    <2> QED
      BY <2>1, <2>2, OutermostIs DEF Direct
  <1> QED
    BY <1>4, <1>5, <1>6, <1>7, <1>8 DEF Setting, s

(* What every text is: an object, in white space or without its braces.    *)
Read(data, v) ==
  /\ v \in Values /\ IsObjectOf(v, Values)
  /\ \/ \E before, after \in Blanks : Around(data, before, v.text, after)
     \/ data = Members(v)

(* Both texts are settings of the members of the object.                   *)
LEMMA ReadSetting ==
  ASSUME NEW data, NEW v, Read(data, v)
  PROVE  \E o : Setting(data, o, v)
  <1>1. CASE \E before, after \in Blanks : Around(data, before, v.text, after)
    BY <1>1, WholeSetting DEF Read
  <1>2. CASE data = Members(v)
    BY <1>2, InnerSetting DEF Read
  <1> QED
    BY <1>1, <1>2 DEF Read

(* The keys that are looked for need no escapes.                           *)
LEMMA KeyIs ==
  ASSUME NEW key \in Keys
  PROVE  key \in Texts /\ Bare(key)
  BY ReadersAssumption DEF Bare

(* In each of them the program locates what each key means.                *)
LEMMA ReadLocated ==
  ASSUME NEW data, NEW v, Read(data, v), NEW key \in Keys
  PROVE  Located(data, key, MemberOf(v, key))
  <1>1. PICK o : Setting(data, o, v)
    BY ReadSetting
  <1>2. key \in Texts /\ Bare(key)
    BY KeyIs
  <1> QED
    BY <1>1, <1>2, ValueFound

(* The inductive invariant: the text at hand is that of the object it stands
   for.  MembersRead says nothing of what the texts inside the object are,
   so it does not say what the readers do after the next Descend.          *)
TextIs == Read(text, node)

(* In such a text each reader gives what MembersRead says.                 *)
LEMMA TextRead ==
  ASSUME TextIs
  PROVE  MembersRead
  <1> SUFFICES ASSUME NEW key \in Keys
               PROVE  LET v == MemberOf(node, key) IN
                      /\ \A size \in Sizes :
                           StringValue(text, key, size) =
                             IF Readable(v, size - 1) THEN Some(v.bytes) ELSE None
                      /\ IF v.kind = "number"
                           THEN Number(v.digits) < Word =>
                                  U32Value(text, key) = Some(Number(v.digits))
                           ELSE U32Value(text, key) = None
                      /\ TrueValue(text, key) <=> v.kind = "true"
                      /\ \A expected \in Keys :
                           ArrayContainsString(text, key, expected) <=> HasText(v, expected)
                      /\ ObjectValue(text, key) =
                           IF v.kind = "object" THEN Some(Members(v)) ELSE None
    BY DEF MembersRead
  <1> DEFINE v == MemberOf(node, key)
  <1>1. Located(text, key, v)
    BY ReadLocated DEF TextIs
  <1> HIDE DEF v
  <1>2. ASSUME NEW size \in Sizes
        PROVE  StringValue(text, key, size) =
                 IF Readable(v, size - 1) THEN Some(v.bytes) ELSE None
    <2>1. size \in Nat
      BY ReadersAssumption
    <2> QED
      BY <1>1, <2>1, StringRead
  <1>3. IF v.kind = "number"
          THEN Number(v.digits) < Word => U32Value(text, key) = Some(Number(v.digits))
          ELSE U32Value(text, key) = None
    BY <1>1, U32Read
  <1>4. TrueValue(text, key) <=> v.kind = "true"
    BY <1>1, TrueRead
  <1>5. \A expected \in Keys : ArrayContainsString(text, key, expected) <=> HasText(v, expected)
    BY <1>1, ListRead
  <1>6. ObjectValue(text, key) = IF v.kind = "object" THEN Some(Members(v)) ELSE None
    BY <1>1, ObjectRead
  <1> QED
    BY <1>2, <1>3, <1>4, <1>5, <1>6 DEF v

(* A manifest is the text of an object, in white space.                    *)
LEMMA TextInit ==
  ASSUME ManifestInit
  PROVE  TextIs
  <1>1. node \in Values /\ node.kind = "object"
    BY DEF ManifestInit
  <1>2. IsObjectOf(node, Values) /\ node.text \in Texts
    BY <1>1, KindOf, ValueIs DEF KindIs
  <1>3. PICK before \in Gaps, after \in Gaps : text = before \o node.text \o after
    BY DEF ManifestInit
  <1>4. before \in Blanks /\ after \in Blanks
    BY ReadersAssumption
  <1>5. before \in Texts /\ after \in Texts
    BY <1>4, GapIs
  <1>6. before \o node.text \in Texts
    BY <1>2, <1>5, Pieces
  <1>7. text \in Texts
    BY <1>3, <1>5, <1>6, Pieces
  <1>8. Around(text, before, node.text, after)
    BY <1>2, <1>3, <1>4, <1>7 DEF Around
  <1> QED
    BY <1>1, <1>2, <1>4, <1>8 DEF TextIs, Read

(* An object of an object is again the text of one, between its braces.    *)
LEMMA TextStep ==
  ASSUME TextIs, [ManifestNext]_manifestVars
  PROVE  TextIs'
  <1>1. CASE ManifestNext
    <2>1. PICK key \in Keys : Descend(key) /\ node' = MemberOf(node, key)
      BY <1>1 DEF ManifestNext
    <2> DEFINE u == MemberOf(node, key)
               value == ObjectValue(text, key)
    <2>2. Located(text, key, u)
      BY ReadLocated DEF TextIs
    <2>3. value.found /\ text' = value.value /\ node' = u
      BY <2>1 DEF Descend
    <2> HIDE DEF u
    <2>4. value = IF u.kind = "object" THEN Some(Members(u)) ELSE None
      BY <2>2, ObjectRead
    <2> HIDE DEF value
    <2>5. u.kind = "object" /\ text' = Members(u)
      <3>1. ~None.found /\ Some(Members(u)).value = Members(u)
        BY DEF None, Some
      <3> QED
        BY <2>3, <2>4, <3>1
    <2>6. u \in Values
      <3>1. u # Missing
        BY <2>5, MissingIs
      <3> QED
        BY <2>2, <3>1 DEF Located, ValueStands
    <2>7. IsObjectOf(u, Values)
      BY <2>5, <2>6, KindOf DEF KindIs
    <2> QED
      BY <2>3, <2>5, <2>6, <2>7 DEF TextIs, Read
  <1>2. CASE UNCHANGED manifestVars
    BY <1>2 DEF TextIs, Read, manifestVars
  <1> QED
    BY <1>1, <1>2

(* Every reader of the manifest gives, for every document, whatever stands
   in it before or around the member that is looked for, however deep, and
   whatever texts in it look like keys, colons or braces: the direct member
   of that name, if it is of the kind it reads, and nothing otherwise.     *)
THEOREM ManifestRead == ManifestSpec => []MembersRead
  <1>1. ManifestInit => TextIs
    BY TextInit
  <1>2. TextIs /\ [ManifestNext]_manifestVars => TextIs'
    BY TextStep
  <1>3. TextIs => MembersRead
    BY TextRead
  <1> QED
    BY <1>1, <1>2, <1>3, PTL DEF ManifestSpec
=============================================================================
