--------------------------- MODULE LiveBootProofs ----------------------------
(***************************************************************************)
(* The live boot payload and its baud trial: both ends come back to one    *)
(* rate, and Linux starts only with what was checked, for any set of       *)
(* rates, packages and models, and any number of trials and lost lines.    *)
(***************************************************************************)
EXTENDS LiveBoot, SequenceTheorems, TLAPS

-----------------------------------------------------------------------------
(* Types.                                                                  *)

TrialPhases == {"switch", "sync", "h2t", "t2hack", "commit", "fallback"}
PackagePhases ==
  {"manifest", "image", "spim", "rootfs", "confirm", "launch", "linux"}

Trials == [nonce : Nat, rate : Rates, passes : Nat, old : Rates, pass : Nat, count : Nat]

(* States in which the host is in a trial; in those of AtTrialRate it has
   switched to the new rate.                                               *)
AtTrialRate == {"sync", "start", "data", "next", "pass", "commit"}
HostTrial == AtTrialRate \union {"prepare"}
Hosts ==
  [state : HostTrial \union {"idle", "discover", "live", "answer"},
   rate : Rates, old : Rates, trying : Rates, nonce : Nat, passes : Nat,
   pass : Nat, agreed : Nat]

(* Lines and data in either direction.                                     *)
PlainKinds ==
  {"noise", "liveboot", "typo", "prepared", "unknown", "fallback", "ready", "error",
   "live", "header-ack", "manifest-accepted", "image-verified", "dry-run",
   "confirmed", "rejected"}
NoncedKinds ==
  {"syncack", "h2t", "t2hack", "commit", "bootram", "sync", "start", "h2tok",
   "t2h", "pass", "committed", "challenge"}
Message ==
  [kind : PlainKinds]
    \union [kind : NoncedKinds, nonce : Nat, pass : Nat]
    \union [kind : {"prepare"}, nonce : Nat, rate : Rates, passes : Nat]
    \union [kind : {"header"}, package : Package]
    \union [kind : {"manifest", "image"}, package : Nat]

Ranges == [lo : Nat, hi : Nat, from : Int]

BaudTypes ==
  /\ hw \in Rates /\ current \in Rates
  /\ trial \in Trials /\ host \in Hosts
  /\ toTarget \in Seq(Message) /\ toHost \in Seq(Message)
  /\ orphaned \in BOOLEAN

LiveTypes ==
  /\ phase \in {"command", "header"} \union TrialPhases \union PackagePhases
  /\ leftover \in {"none", "bytes", "start"}
  /\ package \in Package \union {NoPackage}
  /\ ram \in [Names -> Ranges]
  /\ sent \in Nat

-----------------------------------------------------------------------------
(* The trial.                                                              *)

(* The divisor in the UART and the variables of run_baud_test.             *)
DivisorKnown ==
  /\ phase \in TrialPhases => trial.old = current
  /\ phase \in TrialPhases <=> trial.nonce # 0
  /\ phase \in {"sync", "h2t", "t2hack", "commit"} => hw = trial.rate
  /\ phase \notin {"sync", "h2t", "t2hack", "commit", "linux"} => hw = current
  /\ phase = "sync" => trial.count \in 1..SyncTries
  /\ phase = "fallback" => trial.count \in 1..Beacons

(* Trials are asked for in the order of their nonces, and a trial that is
   still to be asked for is later than everything that was said so far.    *)
InOrder(s) ==
  \A i, j \in 1..Len(s) :
    i < j /\ s[i].kind = "prepare" /\ s[j].kind = "prepare" => s[i].nonce < s[j].nonce

Prepares(m) ==
  m.kind = "prepare" =>
    /\ m.nonce <= host.nonce /\ host.agreed < m.nonce /\ trial.nonce < m.nonce
    /\ \A j \in 1..Len(toHost) :
         toHost[j].kind \in {"pass", "committed"} => toHost[j].nonce < m.nonce

Passed(m) ==
  m.kind = "pass" => m.nonce <= host.nonce /\ (trial.nonce = 0 \/ m.nonce <= trial.nonce)

Kept(m) ==
  m.kind = "committed" =>
    m.nonce <= host.agreed /\ (trial.nonce = 0 \/ m.nonce < trial.nonce)

NoncesGrow ==
  /\ InOrder(toTarget)
  /\ \A i \in 1..Len(toTarget) :
       Prepares(toTarget[i]) /\ (toTarget[i].kind = "commit" => toTarget[i].nonce <= host.agreed)
  /\ \A j \in 1..Len(toHost) : Passed(toHost[j]) /\ Kept(toHost[j])
  /\ host.agreed <= host.nonce /\ trial.nonce <= host.nonce
  /\ trial.nonce = 0 \/ host.agreed <= trial.nonce
  /\ host.state \in HostTrial => host.nonce # 0
  /\ host.state \in HostTrial \ {"commit"} => host.agreed < host.nonce

(* What the two ends know of the trial that the host is in.                *)
TrialShared ==
  /\ host.state \in HostTrial =>
       /\ trial.nonce = host.nonce => trial.rate = host.trying
       /\ \A i \in 1..Len(toTarget) :
            toTarget[i].kind = "prepare" /\ toTarget[i].nonce = host.nonce =>
              toTarget[i].rate = host.trying
  /\ host.rate = IF host.state \in AtTrialRate THEN host.trying ELSE host.old

(* The old rate of the host is the target's until the host has committed;
   then it waits for word that the target has, too.                        *)
CommitShared ==
  ~orphaned =>
    /\ host.state # "commit" => current = host.old
    /\ host.state = "commit" =>
         \A j \in 1..Len(toHost) :
           toHost[j].kind = "committed" /\ toHost[j].nonce = host.nonce => current = host.trying
    /\ \A i \in 1..Len(toTarget) :
         toTarget[i].kind = "commit" /\ toTarget[i].nonce = trial.nonce /\ trial.nonce # 0 =>
           host.state = "commit" /\ host.nonce = trial.nonce

-----------------------------------------------------------------------------
(* The package and the RAM.                                                *)

(* Every phase presupposes the checks of those before it.                  *)
PackageChecked ==
  /\ phase \in PackagePhases => package \in Package /\ ValidateLiveHeader(package)
  /\ phase \in PackagePhases \ {"manifest"} => ValidateLiveManifest(package)
  /\ phase \in {"rootfs", "confirm", "launch", "linux"} =>
       SpimAccepted(package) /\ SquashfsAccepted(package)
  /\ phase \in {"confirm", "launch", "linux"} => ~package.dry

(* Program and vectors are never written, and what was copied stays.       *)
Placed ==
  /\ ram["program"] = Extent(ProgramBase, ProgramBytes, Code)
  /\ ram["vectors"] = Extent(0, ParamsBase, Vectors)
  /\ phase \in {"spim", "rootfs"} =>
       ram["image"] = Extent(StagingBase, FullImageSize, package.id)
  /\ phase \in {"rootfs", "confirm", "launch", "linux"} =>
       ram["kernel"] = Extent(KernelDest, KernelCopy(package), package.id)
  /\ phase \in {"confirm", "launch", "linux"} =>
       ram["rootfs"] = Extent(RootfsDest, package.rootfs, package.id)
  /\ phase = "linux" =>
       hw = Baseline /\ ram["params"] = Extent(ParamsBase, ParamsBytes, package.id)

Shared == NoncesGrow /\ TrialShared /\ CommitShared
IInv ==
  /\ BaudTypes /\ LiveTypes /\ DivisorKnown /\ Shared /\ PackageChecked /\ Placed

-----------------------------------------------------------------------------
(* The line.                                                               *)

(* t has in it what s has, and what is in M.                               *)
Gains(s, t, M) ==
  /\ t \in Seq(Message)
  /\ \A j \in 1..Len(t) : t[j] \in M \/ \E k \in 1..Len(s) : t[j] = s[k]

(* t is s without some of it.                                              *)
Loses(s, t) == Gains(s, t, {}) /\ (InOrder(s) => InOrder(t))

LEMMA Appended ==
  ASSUME NEW s \in Seq(Message), NEW m \in Message
  PROVE  /\ Gains(s, Append(s, m), {m})
         /\ Len(Append(s, m)) = Len(s) + 1
         /\ \A i \in 1..Len(s) : Append(s, m)[i] = s[i]
         /\ Append(s, m)[Len(s) + 1] = m
BY DEF Gains

LEMMA Unchanged ==
  ASSUME NEW s \in Seq(Message)
  PROVE  Loses(s, s)
BY DEF Loses, Gains

LEMMA CutFront ==
  ASSUME NEW s \in Seq(Message), NEW n \in 1..2, Len(s) >= n
  PROVE  /\ Loses(s, SubSeq(s, n + 1, Len(s)))
         /\ Len(SubSeq(s, n + 1, Len(s))) = Len(s) - n
         /\ \A i \in 1..(Len(s) - n) : SubSeq(s, n + 1, Len(s))[i] = s[i + n]
<1>. DEFINE t == SubSeq(s, n + 1, Len(s))
<1>1. t \in Seq(Message) /\ Len(t) = Len(s) - n
  OBVIOUS
<1>2. \A i \in 1..(Len(s) - n) : t[i] = s[i + n]
  OBVIOUS
<1>. HIDE DEF t
<1>3. Gains(s, t, {})
  <2>. SUFFICES ASSUME NEW j \in 1..Len(t)
                PROVE  \E k \in 1..Len(s) : t[j] = s[k]
    BY <1>1 DEF Gains
  <2>. QED
    BY <1>1, <1>2
<1>4. InOrder(s) => InOrder(t)
  <2>. SUFFICES ASSUME InOrder(s), NEW i \in 1..Len(t), NEW j \in 1..Len(t), i < j,
                       t[i].kind = "prepare", t[j].kind = "prepare"
                PROVE  t[i].nonce < t[j].nonce
    BY DEF InOrder
  <2>1. /\ i + n \in 1..Len(s) /\ j + n \in 1..Len(s) /\ i + n < j + n
        /\ t[i] = s[i + n] /\ t[j] = s[j + n]
    BY <1>1, <1>2
  <2>. QED
    BY <2>1 DEF InOrder
<1>5. Loses(s, t)
  BY <1>3, <1>4 DEF Loses
<1>. QED
  BY <1>1, <1>2, <1>5 DEF t

LEMMA TailLoses ==
  ASSUME NEW s \in Seq(Message), s # <<>>
  PROVE  Loses(s, Tail(s)) /\ Head(s) = s[1] /\ 1 \in 1..Len(s) /\ s[1] \in Message
<1>. DEFINE t == Tail(s)
<1>1. t \in Seq(Message) /\ Len(t) = Len(s) - 1 /\ 1 \in 1..Len(s)
  OBVIOUS
<1>2. \A i \in 1..(Len(s) - 1) : t[i] = s[i + 1]
  OBVIOUS
<1>. HIDE DEF t
<1>3. Gains(s, t, {})
  <2>. SUFFICES ASSUME NEW j \in 1..Len(t)
                PROVE  \E k \in 1..Len(s) : t[j] = s[k]
    BY <1>1 DEF Gains
  <2>. QED
    BY <1>1, <1>2
<1>4. InOrder(s) => InOrder(t)
  <2>. SUFFICES ASSUME InOrder(s), NEW i \in 1..Len(t), NEW j \in 1..Len(t), i < j,
                       t[i].kind = "prepare", t[j].kind = "prepare"
                PROVE  t[i].nonce < t[j].nonce
    BY DEF InOrder
  <2>1. /\ i + 1 \in 1..Len(s) /\ j + 1 \in 1..Len(s) /\ i + 1 < j + 1
        /\ t[i] = s[i + 1] /\ t[j] = s[j + 1]
    BY <1>1, <1>2
  <2>. QED
    BY <2>1 DEF InOrder
<1>5. Loses(s, t)
  BY <1>3, <1>4 DEF Loses
<1>. QED
  BY <1>1, <1>5 DEF t

LEMMA RemovalLoses ==
  ASSUME NEW s \in Seq(Message), NEW n \in DOMAIN s
  PROVE  Loses(s, RemoveAt(s, n))
<1>. DEFINE t == RemoveAt(s, n)
<1>. DEFINE a == SubSeq(s, 1, n - 1)
           b == SubSeq(s, n + 1, Len(s))
<1>0. /\ n \in 1..Len(s) /\ t = a \o b
      /\ a \in Seq(Message) /\ Len(a) = n - 1 /\ \A i \in 1..(n - 1) : a[i] = s[i]
      /\ b \in Seq(Message) /\ Len(b) = Len(s) - n
      /\ \A i \in 1..(Len(s) - n) : b[i] = s[i + n]
  BY DEF RemoveAt
<1>. HIDE DEF a, b, t
<1>c. /\ a \o b \in Seq(Message) /\ Len(a \o b) = Len(a) + Len(b)
      /\ \A i \in 1..(Len(a) + Len(b)) :
           (a \o b)[i] = IF i <= Len(a) THEN a[i] ELSE b[i - Len(a)]
  BY <1>0, ConcatProperties
<1>l. Len(s) \in Nat /\ n \in Nat /\ n <= Len(s) /\ Len(a) + Len(b) = Len(s) - 1
  BY <1>0
<1>1. /\ t \in Seq(Message) /\ Len(t) = Len(s) - 1 /\ Len(s) \in Nat /\ n \in Nat
      /\ \A i \in 1..(Len(s) - 1) : t[i] = IF i <= n - 1 THEN a[i] ELSE b[i - (n - 1)]
  BY <1>0, <1>c, <1>l
<1>2. ASSUME NEW i \in 1..(Len(s) - 1) PROVE t[i] = IF i < n THEN s[i] ELSE s[i + 1]
  <2>1. CASE i < n
    BY <1>0, <1>1, <2>1
  <2>2. CASE i >= n
    <3>1. t[i] = b[i - (n - 1)]
      BY <1>1, <2>2
    <3>2. i - (n - 1) \in 1..(Len(s) - n) /\ (i - (n - 1)) + n = i + 1
      BY <1>1, <2>2
    <3>3. b[i - (n - 1)] = s[(i - (n - 1)) + n]
      BY <1>0, <3>2
    <3>. QED
      BY <1>1, <2>2, <3>1, <3>2, <3>3
  <2>. QED
    BY <1>1, <2>1, <2>2
<1>3. Gains(s, t, {})
  <2>. SUFFICES ASSUME NEW j \in 1..Len(t)
                PROVE  \E k \in 1..Len(s) : t[j] = s[k]
    BY <1>1 DEF Gains
  <2>. DEFINE k == IF j < n THEN j ELSE j + 1
  <2>1. k \in 1..Len(s) /\ t[j] = s[k]
    BY <1>1, <1>2, <1>l
  <2>. QED
    BY <2>1
<1>4. InOrder(s) => InOrder(t)
  <2>. SUFFICES ASSUME InOrder(s), NEW i \in 1..Len(t), NEW j \in 1..Len(t), i < j,
                       t[i].kind = "prepare", t[j].kind = "prepare"
                PROVE  t[i].nonce < t[j].nonce
    BY DEF InOrder
  <2>. DEFINE k == IF i < n THEN i ELSE i + 1
              l == IF j < n THEN j ELSE j + 1
  <2>0. i \in 1..(Len(s) - 1) /\ j \in 1..(Len(s) - 1)
    BY <1>1
  <2>1. k \in 1..Len(s) /\ t[i] = s[k]
    <3>1. t[i] = IF i < n THEN s[i] ELSE s[i + 1]
      BY <1>2, <2>0
    <3>2. k \in 1..Len(s)
      BY <1>l, <2>0
    <3>. QED
      BY <3>1, <3>2
  <2>2. l \in 1..Len(s) /\ t[j] = s[l]
    <3>1. t[j] = IF j < n THEN s[j] ELSE s[j + 1]
      BY <1>2, <2>0
    <3>2. l \in 1..Len(s)
      BY <1>l, <2>0
    <3>. QED
      BY <3>1, <3>2
  <2>3. k < l
    BY <1>l, <2>0
  <2>. QED
    BY <2>1, <2>2, <2>3 DEF InOrder
<1>5. Loses(s, t)
  BY <1>3, <1>4 DEF Loses
<1>. QED
  BY <1>5 DEF t

(* What is said is heard as such, or as noise.                             *)
LEMMA Spoken ==
  ASSUME BaudTypes, NEW m \in Message, NEW rate \in Rates,
         toHost' = Append(toHost, Arrives(m, rate))
  PROVE  Gains(toHost, toHost', {m, Noise})
<1>1. Noise \in Message
  BY DEF Noise, Message, PlainKinds
<1>2. Arrives(m, rate) \in {m, Noise}
  BY DEF Arrives
<1>3. Gains(toHost, toHost', {Arrives(m, rate)})
  BY <1>1, <1>2, Appended DEF BaudTypes
<1>. QED
  BY <1>2, <1>3 DEF Gains

LEMMA Asked ==
  ASSUME BaudTypes, NEW m \in Message, Send(m)
  PROVE  /\ Gains(toTarget, toTarget', {m, Noise})
         /\ Len(toTarget') = Len(toTarget) + 1
         /\ \A i \in 1..Len(toTarget) : toTarget'[i] = toTarget[i]
         /\ toTarget'[Len(toTarget) + 1] \in {m, Noise}
<1>1. Noise \in Message
  BY DEF Noise, Message, PlainKinds
<1>. DEFINE a == IF hw = host.rate THEN m ELSE Noise
<1>2. a \in {m, Noise} /\ a \in Message /\ toTarget' = Append(toTarget, a)
  BY <1>1 DEF Send
<1>. HIDE DEF a
<1>. QED
  BY <1>2, Appended DEF BaudTypes, Gains

LEMMA Kinds ==
  ASSUME NEW n \in Nat, NEW p \in Nat
  PROVE  /\ \A k \in PlainKinds : Line(k) \in Message /\ Line(k).kind = k
         /\ \A k \in NoncedKinds :
              /\ Nonced(k, n, p) \in Message
              /\ Nonced(k, n, p).kind = k /\ Nonced(k, n, p).nonce = n
         /\ \A k \in {"manifest", "image"} : Object(k, n) \in Message /\ Object(k, n).kind = k
         /\ Noise \in Message /\ Noise.kind = "noise"
BY DEF Message, Line, Nonced, Object, Noise, PlainKinds

(* The target takes a line; what it hears is a line that was there, or
   nothing it understands.                                                 *)
LEMMA LineTaken ==
  ASSUME BaudTypes, NEW n \in 1..2, TakeLine(n)
  PROVE  /\ Loses(toTarget, toTarget')
         /\ Len(toTarget) \in Nat /\ Len(toTarget) >= n
         /\ Len(toTarget') = Len(toTarget) - n
         /\ \A i \in 1..Len(toTarget') : toTarget'[i] = toTarget[i + n]
         /\ Heard(n).kind # "noise" => n = 1 /\ Heard(n) = toTarget[1]
         /\ toTarget[1] \in Message
<1>1. toTarget \in Seq(Message) /\ Len(toTarget) >= n /\ Len(toTarget) \in Nat
  BY DEF BaudTypes, TakeLine
<1>2. n = 1 => Heard(n) = toTarget[1]
  BY <1>1 DEF Heard
<1>3. n # 1 => Heard(n).kind = "noise"
  BY DEF Heard, Noise
<1>4. toTarget[1] \in Message
  BY <1>1
<1>. QED
  BY <1>1, <1>2, <1>3, <1>4, CutFront DEF TakeLine

-----------------------------------------------------------------------------
(* Steps that leave the nonces alone.                                      *)

Quiet ==
  /\ UNCHANGED <<current, host, orphaned>>
  /\ trial' \in Trials
  /\ (trial'.nonce = trial.nonce /\ trial'.rate = trial.rate) \/ trial'.nonce = 0
  /\ Loses(toTarget, toTarget')
  /\ toHost' \in Seq(Message)
  /\ \A j \in 1..Len(toHost') :
       \/ \E k \in 1..Len(toHost) : toHost'[j] = toHost[k]
       \/ /\ toHost'[j].kind # "committed"
          /\ toHost'[j].kind = "pass" => trial.nonce # 0 /\ toHost'[j].nonce = trial.nonce

LEMMA MessageTypes ==
  ASSUME NEW m \in Message
  PROVE  /\ m.kind \in {"prepare", "pass", "committed", "commit"} => m.nonce \in Nat
         /\ m.kind = "prepare" => m.rate \in Rates /\ m.passes \in Nat
         /\ m.kind = "header" => m.package \in Package
BY DEF Message, PlainKinds, NoncedKinds

LEMMA QuietInv ==
  ASSUME BaudTypes, Shared, Quiet
  PROVE  Shared'
<1>1. /\ trial.nonce \in Nat /\ trial'.nonce \in Nat /\ host.nonce \in Nat
      /\ host.agreed \in Nat
  BY DEF BaudTypes, Quiet, Trials, Hosts
<1>2. \A i \in 1..Len(toTarget') : \E k \in 1..Len(toTarget) : toTarget'[i] = toTarget[k]
  BY DEF Quiet, Loses, Gains
<1>3. InOrder(toTarget')
  BY DEF Quiet, Loses, Shared, NoncesGrow
<1>4. \A i \in 1..Len(toTarget) : toTarget[i].kind = "prepare" => toTarget[i].nonce \in Nat
  BY MessageTypes DEF BaudTypes
<1>5. \A j \in 1..Len(toHost) :
        toHost[j].kind \in {"pass", "committed"} => toHost[j].nonce \in Nat
  BY MessageTypes DEF BaudTypes
<1>6. \A i \in 1..Len(toTarget') : Prepares(toTarget[i])'
  <2>. SUFFICES ASSUME NEW i \in 1..Len(toTarget'), toTarget'[i].kind = "prepare"
                PROVE  /\ toTarget'[i].nonce <= host.nonce /\ host.agreed < toTarget'[i].nonce
                       /\ trial'.nonce < toTarget'[i].nonce
                       /\ \A j \in 1..Len(toHost') :
                            toHost'[j].kind \in {"pass", "committed"} =>
                              toHost'[j].nonce < toTarget'[i].nonce
    BY DEF Prepares, Quiet
  <2>1. PICK k \in 1..Len(toTarget) : toTarget'[i] = toTarget[k]
    BY <1>2
  <2>2. /\ toTarget[k].nonce <= host.nonce /\ host.agreed < toTarget[k].nonce
        /\ trial.nonce < toTarget[k].nonce
        /\ \A j \in 1..Len(toHost) :
             toHost[j].kind \in {"pass", "committed"} => toHost[j].nonce < toTarget[k].nonce
    BY <2>1 DEF Shared, NoncesGrow, Prepares
  <2>3. trial'.nonce < toTarget'[i].nonce
    BY <1>1, <1>4, <2>1, <2>2 DEF Quiet
  <2>4. ASSUME NEW j \in 1..Len(toHost'), toHost'[j].kind \in {"pass", "committed"}
        PROVE  toHost'[j].nonce < toTarget'[i].nonce
    BY <2>1, <2>2, <2>4 DEF Quiet
  <2>. QED
    BY <2>1, <2>2, <2>3, <2>4
<1>7. \A i \in 1..Len(toTarget') :
        toTarget'[i].kind = "commit" => toTarget'[i].nonce <= host'.agreed
  BY <1>2 DEF Quiet, Shared, NoncesGrow
<1>8. ASSUME NEW j \in 1..Len(toHost') PROVE Passed(toHost[j])' /\ Kept(toHost[j])'
  <2>1. CASE \E k \in 1..Len(toHost) : toHost'[j] = toHost[k]
    <3>1. PICK k \in 1..Len(toHost) : toHost'[j] = toHost[k]
      BY <2>1
    <3>. QED
      BY <1>1, <3>1 DEF Shared, NoncesGrow, Passed, Kept, Quiet
  <2>2. CASE /\ toHost'[j].kind # "committed"
             /\ toHost'[j].kind = "pass" =>
                  trial.nonce # 0 /\ toHost'[j].nonce = trial.nonce
    BY <1>1, <2>2 DEF Shared, NoncesGrow, Passed, Kept, Quiet
  <2>. QED
    BY <2>1, <2>2 DEF Quiet
<1>9. NoncesGrow'
  BY <1>1, <1>3, <1>6, <1>7, <1>8 DEF NoncesGrow, Shared, Quiet
<1>10. TrialShared'
  <2>2. host.state \in HostTrial => (trial'.nonce = host.nonce => trial'.rate = host.trying)
    BY <1>1 DEF Quiet, Shared, TrialShared, NoncesGrow
  <2>. QED
    BY <1>2, <2>2 DEF TrialShared, Shared, Quiet
<1>11. CommitShared'
  BY <1>2 DEF CommitShared, Shared, Quiet
<1>. QED
  BY <1>9, <1>10, <1>11 DEF Shared

-----------------------------------------------------------------------------
(* The steps of the target in a trial.                                     *)

(* What a quiet step may say: anything but a line that passes or keeps a
   trial, unless it is this trial that has passed.                         *)
Harmless(m) ==
  m.kind # "committed" /\ (m.kind = "pass" => trial.nonce # 0 /\ m.nonce = trial.nonce)

LEMMA QuietWords ==
  ASSUME BaudTypes, NEW m \in Message, NEW rate \in Rates, Harmless(m),
         toHost' = Append(toHost, Arrives(m, rate))
  PROVE  /\ toHost' \in Seq(Message)
         /\ \A j \in 1..Len(toHost') :
              \/ \E k \in 1..Len(toHost) : toHost'[j] = toHost[k]
              \/ /\ toHost'[j].kind # "committed"
                 /\ toHost'[j].kind = "pass" =>
                      trial.nonce # 0 /\ toHost'[j].nonce = trial.nonce
<1>1. Gains(toHost, toHost', {m, Noise})
  BY Spoken
<1>2. Noise.kind = "noise"
  BY DEF Noise
<1>. QED
  BY <1>1, <1>2 DEF Gains, Harmless

LEMMA Silence ==
  ASSUME BaudTypes, toHost' = toHost
  PROVE  /\ toHost' \in Seq(Message)
         /\ \A j \in 1..Len(toHost') : \E k \in 1..Len(toHost) : toHost'[j] = toHost[k]
BY DEF BaudTypes

LEMMA FallBackStep ==
  ASSUME BaudTypes, DivisorKnown, phase \in TrialPhases, FallBack,
         Loses(toTarget, toTarget'), UNCHANGED <<host, orphaned>>
  PROVE  phase' = "fallback" /\ BaudTypes' /\ DivisorKnown' /\ Quiet
<1>1. /\ phase' = "fallback" /\ hw' = trial.old /\ current' = trial.old
      /\ trial' = [trial EXCEPT !.count = 1]
      /\ toHost' = Append(toHost, Arrives(Line("fallback"), trial.old))
  BY DEF FallBack
<1>2. trial.old = current /\ trial.old \in Rates /\ trial' \in Trials
      /\ trial'.old = trial.old /\ trial'.nonce = trial.nonce /\ trial'.rate = trial.rate
      /\ trial'.count = 1
  BY <1>1 DEF BaudTypes, Trials, DivisorKnown
<1>3. Line("fallback") \in Message /\ Harmless(Line("fallback"))
  BY Kinds DEF PlainKinds, Harmless
<1>4. Quiet
  BY <1>1, <1>2, <1>3, QuietWords DEF Quiet
<1>5. BaudTypes'
  BY <1>1, <1>2, <1>4 DEF BaudTypes, Quiet, Loses, Gains
<1>6. DivisorKnown'
  BY <1>1, <1>2, BaudAssumption DEF DivisorKnown, TrialPhases
<1>. QED
  BY <1>1, <1>4, <1>5, <1>6

LEMMA InviteStep ==
  ASSUME BaudTypes, DivisorKnown, phase = "sync", InviteAgain,
         Loses(toTarget, toTarget'), UNCHANGED <<host, orphaned>>
  PROVE  phase' \in {"sync", "fallback"} /\ BaudTypes' /\ DivisorKnown' /\ Quiet
<1>1. CASE FallBack
  BY <1>1, FallBackStep DEF TrialPhases
<1>2. CASE /\ trial.count < SyncTries
           /\ trial' = [trial EXCEPT !.count = @ + 1]
           /\ Say(Sync) /\ UNCHANGED <<phase, hw, current>>
  <2>1. /\ trial' \in Trials /\ trial'.nonce = trial.nonce /\ trial'.rate = trial.rate
        /\ trial'.old = trial.old /\ trial'.count = trial.count + 1 /\ trial.nonce \in Nat
    BY <1>2 DEF BaudTypes, Trials
  <2>2. Sync \in Message /\ Harmless(Sync)
    BY <2>1, Kinds DEF NoncedKinds, Harmless, Sync
  <2>3. Quiet
    BY <1>2, <2>1, <2>2, QuietWords DEF Quiet, Say, BaudTypes
  <2>4. BaudTypes'
    BY <1>2, <2>1, <2>3 DEF BaudTypes, Quiet, Loses, Gains
  <2>5. DivisorKnown'
    BY <1>2, <2>1, BaudAssumption DEF DivisorKnown, TrialPhases
  <2>. QED
    BY <1>2, <2>3, <2>4, <2>5
<1>. QED
  BY <1>1, <1>2 DEF InviteAgain

(* A step that only says one line and goes on in the trial.                *)
LEMMA SaysAndGoesOn ==
  ASSUME BaudTypes, DivisorKnown, NEW m \in Message, Harmless(m), Say(m),
         Loses(toTarget, toTarget'), UNCHANGED <<hw, current, trial, host, orphaned>>
  PROVE  BaudTypes' /\ Quiet
<1>1. Quiet
  BY QuietWords DEF Quiet, Say, BaudTypes
<1>. QED
  BY <1>1 DEF BaudTypes, Quiet, Loses, Gains

LEMMA SyncStep ==
  ASSUME BaudTypes, DivisorKnown, UNCHANGED <<host, orphaned>>,
         SwitchRate \/ SyncTimeout \/ \E n \in 1..2 : SyncAnswered(n)
  PROVE  phase' \in TrialPhases /\ BaudTypes' /\ DivisorKnown' /\ Quiet
<1>0. trial.nonce \in Nat
  BY DEF BaudTypes, Trials
<1>1. CASE SwitchRate
  <2>1. /\ trial' \in Trials /\ trial'.nonce = trial.nonce /\ trial'.rate = trial.rate
        /\ trial'.old = trial.old /\ trial'.count = 1 /\ trial.rate \in Rates
    BY <1>1 DEF SwitchRate, BaudTypes, Trials
  <2>2. Sync \in Message /\ Harmless(Sync)
    BY <1>0, Kinds DEF NoncedKinds, Harmless, Sync
  <2>3. Loses(toTarget, toTarget')
    BY <1>1, Unchanged DEF SwitchRate, BaudTypes
  <2>4. Quiet
    BY <1>1, <2>1, <2>2, <2>3, QuietWords DEF SwitchRate, Quiet
  <2>5. BaudTypes'
    BY <1>1, <2>1, <2>4 DEF SwitchRate, BaudTypes, Quiet, Loses, Gains
  <2>6. DivisorKnown' /\ phase' \in TrialPhases
    BY <1>1, <2>1, BaudAssumption DEF SwitchRate, DivisorKnown, TrialPhases
  <2>. QED
    BY <2>4, <2>5, <2>6
<1>2. CASE SyncTimeout
  <2>1. Loses(toTarget, toTarget')
    BY <1>2, Unchanged DEF SyncTimeout, BaudTypes
  <2>. QED
    BY <1>2, <2>1, InviteStep DEF SyncTimeout, TrialPhases
<1>3. ASSUME NEW n \in 1..2, SyncAnswered(n)
      PROVE  phase' \in TrialPhases /\ BaudTypes' /\ DivisorKnown' /\ Quiet
  <2>1. Loses(toTarget, toTarget') /\ phase = "sync"
    BY <1>3, LineTaken DEF SyncAnswered
  <2>2. CASE InviteAgain
    BY <2>1, <2>2, InviteStep DEF TrialPhases
  <2>3. CASE /\ phase' = "h2t" /\ Say(Nonced("start", trial.nonce, 0))
             /\ UNCHANGED <<hw, current, trial>>
    <3>1. /\ Nonced("start", trial.nonce, 0) \in Message
          /\ Harmless(Nonced("start", trial.nonce, 0))
      BY <1>0, Kinds DEF NoncedKinds, Harmless
    <3>2. BaudTypes' /\ Quiet
      BY <2>1, <2>3, <3>1, SaysAndGoesOn
    <3>. QED
      BY <2>1, <2>3, <3>2 DEF DivisorKnown, TrialPhases
  <2>. QED
    BY <1>3, <2>2, <2>3 DEF SyncAnswered
<1>. QED
  BY <1>1, <1>2, <1>3

LEMMA DataStep ==
  ASSUME BaudTypes, DivisorKnown, UNCHANGED <<host, orphaned>>,
         NEW n \in 1..2, HostData(n) \/ TargetDataAcked(n)
  PROVE  phase' \in TrialPhases /\ BaudTypes' /\ DivisorKnown' /\ Quiet
<1>0. trial.nonce \in Nat /\ trial.pass \in Nat
  BY DEF BaudTypes, Trials
<1>2. Loses(toTarget, toTarget')
  BY LineTaken DEF HostData, TargetDataAcked
<1>3. phase \in {"h2t", "t2hack"}
  BY DEF HostData, TargetDataAcked
<1>4. CASE FallBack
  BY <1>2, <1>3, <1>4, FallBackStep DEF TrialPhases
<1>5. CASE HostData(n) /\ ~FallBack
  <2>. DEFINE ok == Nonced("h2tok", trial.nonce, trial.pass)
              data == Nonced("t2h", trial.nonce, trial.pass)
              a == Arrives(ok, hw)
              b == Arrives(data, hw)
  <2>1. /\ phase' = "t2hack" /\ UNCHANGED <<hw, current, trial>>
        /\ toHost' = toHost \o <<a, b>> /\ phase = "h2t"
    BY <1>5 DEF HostData
  <2>2. /\ ok \in Message /\ data \in Message /\ Noise \in Message
        /\ ok.kind = "h2tok" /\ data.kind = "t2h" /\ Noise.kind = "noise"
    BY <1>0, Kinds DEF NoncedKinds
  <2>3. a \in Message /\ b \in Message /\ Harmless(a) /\ Harmless(b)
    BY <2>2 DEF Arrives, Harmless
  <2>. HIDE DEF a, b
  <2>4. toHost' = Append(Append(toHost, a), b)
    BY <2>1, <2>3 DEF BaudTypes
  <2>. DEFINE s == Append(toHost, a)
  <2>5. Gains(toHost, s, {a}) /\ s \in Seq(Message)
    BY <2>3, Appended DEF BaudTypes, Gains
  <2>6. Gains(s, Append(s, b), {b})
    BY <2>3, <2>5, Appended
  <2>. HIDE DEF s
  <2>7. /\ toHost' \in Seq(Message)
        /\ \A j \in 1..Len(toHost') :
             (\E k \in 1..Len(toHost) : toHost'[j] = toHost[k]) \/ Harmless(toHost'[j])
    BY <2>3, <2>4, <2>5, <2>6 DEF Gains, s
  <2>8. Quiet
    BY <1>2, <2>1, <2>7 DEF Quiet, Harmless, BaudTypes
  <2>9. BaudTypes'
    BY <2>1, <2>8 DEF BaudTypes, Quiet, Loses, Gains
  <2>. QED
    BY <2>1, <2>8, <2>9 DEF DivisorKnown, TrialPhases
<1>6. CASE TargetDataAcked(n) /\ ~FallBack
  <2>1. CASE LastPass
    <3>1. /\ Nonced("pass", trial.nonce, 0) \in Message
          /\ Harmless(Nonced("pass", trial.nonce, 0))
      BY <1>0, <1>3, Kinds DEF NoncedKinds, Harmless, DivisorKnown, TrialPhases
    <3>2. /\ phase' = "commit" /\ Say(Nonced("pass", trial.nonce, 0)) /\ phase = "t2hack"
          /\ UNCHANGED <<hw, current, trial>>
      BY <1>6, <2>1 DEF TargetDataAcked
    <3>3. BaudTypes' /\ Quiet
      BY <1>2, <3>1, <3>2, SaysAndGoesOn
    <3>. QED
      BY <3>2, <3>3 DEF DivisorKnown, TrialPhases
  <2>2. CASE ~LastPass
    <3>1. /\ phase' = "h2t" /\ trial' = [trial EXCEPT !.pass = @ + 1] /\ phase = "t2hack"
          /\ UNCHANGED <<hw, current, toHost>>
      BY <1>6, <2>2 DEF TargetDataAcked
    <3>2. /\ trial' \in Trials /\ trial'.nonce = trial.nonce /\ trial'.rate = trial.rate
          /\ trial'.old = trial.old
      BY <3>1 DEF BaudTypes, Trials
    <3>3. Quiet
      BY <1>2, <3>1, <3>2, Silence DEF Quiet
    <3>4. BaudTypes'
      BY <3>1, <3>2, <3>3 DEF BaudTypes, Quiet, Loses, Gains
    <3>. QED
      BY <3>1, <3>2, <3>3, <3>4 DEF DivisorKnown, TrialPhases
  <2>. QED
    BY <2>1, <2>2
<1>. QED
  BY <1>4, <1>5, <1>6

LEMMA TimeoutStep ==
  ASSUME BaudTypes, DivisorKnown, UNCHANGED <<host, orphaned>>, TrialTimeout
  PROVE  phase' \in TrialPhases /\ BaudTypes' /\ DivisorKnown' /\ Quiet
<1>1. Loses(toTarget, toTarget')
  BY Unchanged DEF TrialTimeout, BaudTypes
<1>. QED
  BY <1>1, FallBackStep DEF TrialTimeout, TrialPhases

LEMMA NoTrialTypes == NoTrial \in Trials /\ NoTrial.nonce = 0
BY BaudAssumption DEF NoTrial, Trials

LEMMA BeaconStep ==
  ASSUME BaudTypes, DivisorKnown, UNCHANGED <<host, orphaned>>, Beacon
  PROVE  /\ phase' \in TrialPhases \union {"command"}
         /\ BaudTypes' /\ DivisorKnown' /\ Quiet
<1>0. /\ phase = "fallback" /\ UNCHANGED <<hw, current, toTarget>>
      /\ Loses(toTarget, toTarget')
  BY Unchanged DEF Beacon, BaudTypes
<1>1. CASE trial.count < Beacons
  <2>1. /\ trial' = [trial EXCEPT !.count = @ + 1] /\ Say(Line("fallback"))
        /\ UNCHANGED phase
    BY <1>1 DEF Beacon
  <2>2. /\ trial' \in Trials /\ trial'.nonce = trial.nonce /\ trial'.rate = trial.rate
        /\ trial'.old = trial.old /\ trial'.count = trial.count + 1
    BY <2>1 DEF BaudTypes, Trials
  <2>3. Line("fallback") \in Message /\ Harmless(Line("fallback"))
    BY Kinds DEF PlainKinds, Harmless
  <2>4. Quiet
    BY <1>0, <2>1, <2>2, <2>3, QuietWords DEF Quiet, Say, BaudTypes
  <2>5. BaudTypes'
    BY <1>0, <2>1, <2>2, <2>4 DEF BaudTypes, Quiet, Loses, Gains
  <2>6. DivisorKnown'
    BY <1>0, <1>1, <2>1, <2>2, BaudAssumption DEF DivisorKnown, TrialPhases
  <2>. QED
    BY <1>0, <2>1, <2>4, <2>5, <2>6 DEF TrialPhases
<1>2. CASE ~(trial.count < Beacons)
  <2>1. phase' = "command" /\ Say(Line("ready")) /\ trial' = NoTrial
    BY <1>2 DEF Beacon
  <2>2. Line("ready") \in Message /\ Harmless(Line("ready"))
    BY Kinds DEF PlainKinds, Harmless
  <2>3. Quiet
    BY <1>0, <2>1, <2>2, NoTrialTypes, QuietWords DEF Quiet, Say, BaudTypes
  <2>4. BaudTypes'
    BY <1>0, <2>1, <2>3 DEF BaudTypes, Quiet, Loses, Gains
  <2>5. DivisorKnown'
    BY <1>0, <2>1, NoTrialTypes DEF DivisorKnown, TrialPhases
  <2>. QED
    BY <2>1, <2>3, <2>4, <2>5
<1>. QED
  BY <1>1, <1>2

(* A trial begins: its nonce is later than all before it.                  *)
LEMMA PrepareStep ==
  ASSUME BaudTypes, DivisorKnown, Shared, UNCHANGED <<host, orphaned>>,
         NEW n \in 1..2, Prepare(n)
  PROVE  phase' \in {"command", "switch"} /\ BaudTypes' /\ DivisorKnown' /\ Shared'
<1>. DEFINE line == Heard(n)
<1>0. /\ phase = "command" /\ UNCHANGED <<hw, current>> /\ TakeLine(n)
      /\ Loses(toTarget, toTarget') /\ hw = current /\ trial.nonce = 0
      /\ host.nonce \in Nat /\ host.agreed \in Nat
  BY LineTaken DEF Prepare, DivisorKnown, TrialPhases, BaudTypes, Hosts
<1>1. CASE line.kind # "prepare"
  <2>1. UNCHANGED <<phase, trial>> /\ Say(Line("unknown"))
    BY <1>1 DEF Prepare
  <2>2. Line("unknown") \in Message /\ Harmless(Line("unknown"))
    BY Kinds DEF PlainKinds, Harmless
  <2>3. BaudTypes' /\ Quiet
    BY <1>0, <2>1, <2>2, SaysAndGoesOn
  <2>. QED
    BY <1>0, <2>1, <2>3, QuietInv DEF DivisorKnown, TrialPhases
<1>2. CASE line.kind = "prepare"
  <2>1. /\ phase' = "switch"
        /\ trial' = [nonce |-> line.nonce, rate |-> line.rate, passes |-> line.passes,
                     old |-> current, pass |-> 0, count |-> 0]
        /\ Say(Line("prepared"))
    BY <1>2 DEF Prepare
  <2>2. /\ n = 1 /\ line = toTarget[1] /\ line \in Message
        /\ line.nonce \in Nat /\ line.rate \in Rates /\ line.passes \in Nat
        /\ Len(toTarget) \in Nat /\ 1 \in 1..Len(toTarget)
        /\ Len(toTarget') = Len(toTarget) - 1
        /\ \A i \in 1..Len(toTarget') : toTarget'[i] = toTarget[i + 1]
    BY <1>0, <1>2, LineTaken, MessageTypes
  <2>3. Prepares(line) /\ line.nonce # 0
    <3>1. Prepares(line)
      BY <2>2 DEF Shared, NoncesGrow
    <3>. QED
      BY <1>0, <1>2, <2>2, <3>1 DEF Prepares
  <2>4. trial' \in Trials /\ trial'.nonce = line.nonce
    BY <2>1, <2>2 DEF BaudTypes, Trials
  <2>. HIDE DEF line
  <2>5. Line("prepared") \in Message /\ Line("prepared").kind = "prepared"
    BY Kinds DEF PlainKinds
  <2>6. Gains(toHost, toHost', {Line("prepared"), Noise}) /\ Noise.kind = "noise"
    BY <1>0, <2>1, <2>5, Spoken, Kinds DEF Say, BaudTypes
  <2>7. BaudTypes'
    BY <1>0, <2>1, <2>4, <2>6 DEF BaudTypes, Loses, Gains
  <2>8. DivisorKnown'
    BY <1>0, <2>1, <2>3, <2>4 DEF DivisorKnown, TrialPhases
  <2>9. \A j \in 1..Len(toHost') : toHost'[j].kind \in {"pass", "committed"} =>
          \E k \in 1..Len(toHost) : toHost'[j] = toHost[k]
    BY <2>5, <2>6 DEF Gains
  <2>10. \A j \in 1..Len(toHost) : toHost[j].kind \in {"pass", "committed"} =>
           toHost[j].nonce \in Nat
    BY MessageTypes DEF BaudTypes
  <2>11. NoncesGrow'
    <3>1. InOrder(toTarget')
      BY <1>0 DEF Loses, Shared, NoncesGrow
    <3>2. ASSUME NEW i \in 1..Len(toTarget'), toTarget'[i].kind = "prepare"
          PROVE  Prepares(toTarget[i])'
      <4>1. i + 1 \in 1..Len(toTarget) /\ toTarget'[i] = toTarget[i + 1] /\ 1 < i + 1
        BY <2>2
      <4>2. Prepares(toTarget[i + 1]) /\ line.nonce < toTarget[i + 1].nonce
        BY <1>2, <2>2, <3>2, <4>1 DEF Shared, NoncesGrow, InOrder
      <4>. QED
        BY <1>0, <2>4, <2>9, <3>2, <4>1, <4>2 DEF Prepares
    <3>3. \A i \in 1..Len(toTarget') :
            toTarget'[i].kind = "commit" => toTarget'[i].nonce <= host.agreed
      BY <1>0 DEF Loses, Gains, Shared, NoncesGrow
    <3>4. ASSUME NEW j \in 1..Len(toHost') PROVE Passed(toHost[j])' /\ Kept(toHost[j])'
      <4>1. CASE toHost'[j].kind \notin {"pass", "committed"}
        BY <4>1 DEF Passed, Kept
      <4>2. CASE toHost'[j].kind \in {"pass", "committed"}
        <5>1. PICK k \in 1..Len(toHost) : toHost'[j] = toHost[k]
          BY <2>9, <4>2
        <5>2. toHost[k].nonce < line.nonce /\ toHost[k].nonce \in Nat
          BY <1>2, <2>3, <2>10, <4>2, <5>1 DEF Prepares
        <5>. QED
          BY <1>0, <2>2, <2>4, <4>2, <5>1, <5>2 DEF Passed, Kept, Shared, NoncesGrow
      <4>. QED
        BY <4>1, <4>2
    <3>5. host.agreed < line.nonce /\ line.nonce <= host.nonce
      BY <1>2, <2>3 DEF Prepares
    <3>. QED
      BY <1>0, <2>2, <2>4, <3>1, <3>2, <3>3, <3>4, <3>5 DEF NoncesGrow, Shared, Prepares
  <2>12. TrialShared'
    <3>1. host.state \in HostTrial /\ line.nonce = host.nonce => line.rate = host.trying
      BY <1>2, <2>2 DEF Shared, TrialShared
    <3>. QED
      BY <1>0, <2>1, <3>1 DEF Shared, TrialShared, Loses, Gains
  <2>13. CommitShared'
    <3>1. \A i \in 1..Len(toTarget') :
            ~(toTarget'[i].kind = "commit" /\ toTarget'[i].nonce = line.nonce)
      <4>1. host.agreed < line.nonce
        BY <1>2, <2>3 DEF Prepares
      <4>. QED
        BY <1>0, <2>2, <4>1 DEF Loses, Gains, Shared, NoncesGrow
    <3>. QED
      BY <1>0, <2>4, <2>9, <3>1 DEF Shared, CommitShared
  <2>. QED
    BY <2>1, <2>7, <2>8, <2>11, <2>12, <2>13 DEF Shared
<1>. QED
  BY <1>1, <1>2

(* The trial is kept: the host has committed to this very trial.           *)
LEMMA CommitStep ==
  ASSUME BaudTypes, DivisorKnown, Shared, UNCHANGED <<host, orphaned>>,
         NEW n \in 1..2, Commit(n)
  PROVE  /\ phase' \in {"command", "fallback"} /\ BaudTypes' /\ DivisorKnown' /\ Shared'
         /\ current' # current => host.agreed = trial.nonce /\ current' = hw
<1>0. /\ phase = "commit" /\ TakeLine(n) /\ Loses(toTarget, toTarget')
      /\ hw = trial.rate /\ trial.nonce # 0 /\ trial.nonce \in Nat /\ trial.rate \in Rates
      /\ host.nonce \in Nat /\ host.agreed \in Nat
  BY LineTaken DEF Commit, DivisorKnown, TrialPhases, BaudTypes, Trials, Hosts
<1>1. CASE ~Committed(n)
  <2>1. FallBack
    BY <1>1 DEF Commit
  <2>2. phase' = "fallback" /\ BaudTypes' /\ DivisorKnown' /\ Quiet
    BY <1>0, <2>1, FallBackStep DEF TrialPhases
  <2>3. current' = current
    BY <2>2 DEF Quiet
  <2>. QED
    BY <2>2, <2>3, QuietInv
<1>2. CASE Committed(n)
  <2>. DEFINE kept == Nonced("committed", trial.nonce, 0)
  <2>1. /\ phase' = "command" /\ current' = trial.rate /\ trial' = NoTrial
        /\ Say(kept) /\ UNCHANGED hw
    BY <1>2 DEF Commit
  <2>2. /\ kept \in Message /\ kept.kind = "committed" /\ kept.nonce = trial.nonce
        /\ Noise.kind = "noise" /\ Nonced("commit", trial.nonce, 0).kind = "commit"
        /\ Nonced("commit", trial.nonce, 0).nonce = trial.nonce
    BY <1>0, Kinds DEF NoncedKinds
  <2>. HIDE DEF kept
  <2>3. /\ toTarget[1].kind = "commit" /\ toTarget[1].nonce = trial.nonce
        /\ 1 \in 1..Len(toTarget)
    BY <1>0, <1>2, <2>2, LineTaken DEF Committed
  <2>4. Gains(toHost, toHost', {kept, Noise})
    BY <1>0, <2>1, <2>2, Spoken DEF Say, BaudTypes
  <2>5. trial' \in Trials /\ trial'.nonce = 0
    BY <2>1, NoTrialTypes
  <2>6. BaudTypes'
    BY <1>0, <2>1, <2>4, <2>5 DEF BaudTypes, Loses, Gains
  <2>7. DivisorKnown'
    BY <1>0, <2>1, <2>5 DEF DivisorKnown, TrialPhases
  <2>8. trial.nonce <= host.agreed /\ host.agreed = trial.nonce
    BY <1>0, <2>3 DEF Shared, NoncesGrow
  <2>9. NoncesGrow'
    <3>1. InOrder(toTarget')
      BY <1>0 DEF Loses, Shared, NoncesGrow
    <3>2. ASSUME NEW i \in 1..Len(toTarget'), toTarget'[i].kind = "prepare"
          PROVE  Prepares(toTarget[i])'
      <4>1. PICK k \in 1..Len(toTarget) : toTarget'[i] = toTarget[k]
        BY <1>0 DEF Loses, Gains
      <4>2. Prepares(toTarget[k]) /\ toTarget[k].nonce \in Nat
        BY <3>2, <4>1, MessageTypes DEF Shared, NoncesGrow, BaudTypes
      <4>3. \A j \in 1..Len(toHost') : toHost'[j].kind \in {"pass", "committed"} =>
              toHost'[j].nonce < toTarget[k].nonce
        BY <2>2, <2>4, <3>2, <4>1, <4>2 DEF Prepares, Gains
      <4>. QED
        BY <1>0, <2>5, <3>2, <4>1, <4>2, <4>3 DEF Prepares
    <3>3. \A i \in 1..Len(toTarget') :
            toTarget'[i].kind = "commit" => toTarget'[i].nonce <= host.agreed
      BY <1>0 DEF Loses, Gains, Shared, NoncesGrow
    <3>4. ASSUME NEW j \in 1..Len(toHost') PROVE Passed(toHost[j])' /\ Kept(toHost[j])'
      BY <1>0, <2>2, <2>4, <2>5, <2>8 DEF Passed, Kept, Shared, NoncesGrow, Gains
    <3>. QED
      BY <1>0, <2>5, <3>1, <3>2, <3>3, <3>4 DEF NoncesGrow, Shared, Prepares
  <2>10. TrialShared'
    BY <1>0, <2>5 DEF Shared, TrialShared, NoncesGrow, Loses, Gains
  <2>11. CommitShared'
    <3>1. ~orphaned => host.state = "commit" /\ host.nonce = trial.nonce
      BY <1>0, <2>3 DEF Shared, CommitShared
    <3>2. ~orphaned => current' = host.trying
      BY <2>1, <3>1 DEF Shared, TrialShared, HostTrial, AtTrialRate
    <3>. QED
      BY <2>5, <3>1, <3>2 DEF CommitShared
  <2>. QED
    BY <1>0, <2>1, <2>6, <2>7, <2>8, <2>9, <2>10, <2>11 DEF Shared
<1>. QED
  BY <1>1, <1>2

(* Every step of run_baud_test and of the command that starts it.          *)
LEMMA TargetStep ==
  ASSUME BaudTypes, DivisorKnown, Shared, BaudTarget
  PROVE  /\ phase' \in TrialPhases \union {"command"}
         /\ BaudTypes' /\ DivisorKnown' /\ Shared'
         /\ current' # current => host.agreed = trial.nonce /\ current' = hw
<1>1. ASSUME NEW n \in 1..2, Prepare(n)
      PROVE  /\ phase' \in TrialPhases \union {"command"}
             /\ BaudTypes' /\ DivisorKnown' /\ Shared' /\ current' = current
  BY <1>1, PrepareStep DEF BaudTarget, TrialPhases, Prepare
<1>2. ASSUME SwitchRate \/ SyncTimeout \/ \E n \in 1..2 : SyncAnswered(n)
      PROVE  /\ phase' \in TrialPhases \union {"command"}
             /\ BaudTypes' /\ DivisorKnown' /\ Shared' /\ current' = current
  BY <1>2, SyncStep, QuietInv DEF BaudTarget, Quiet
<1>3. ASSUME NEW n \in 1..2, HostData(n) \/ TargetDataAcked(n)
      PROVE  /\ phase' \in TrialPhases \union {"command"}
             /\ BaudTypes' /\ DivisorKnown' /\ Shared' /\ current' = current
  BY <1>3, DataStep, QuietInv DEF BaudTarget, Quiet
<1>4. ASSUME NEW n \in 1..2, Commit(n)
      PROVE  /\ phase' \in TrialPhases \union {"command"}
             /\ BaudTypes' /\ DivisorKnown' /\ Shared'
             /\ current' # current => host.agreed = trial.nonce /\ current' = hw
  BY <1>4, CommitStep DEF BaudTarget, TrialPhases
<1>5. ASSUME TrialTimeout \/ Beacon
      PROVE  /\ phase' \in TrialPhases \union {"command"}
             /\ BaudTypes' /\ DivisorKnown' /\ Shared' /\ current' = current
  BY <1>5, TimeoutStep, BeaconStep, QuietInv DEF BaudTarget, Quiet
<1>. QED
  BY <1>1, <1>2, <1>3, <1>4, <1>5 DEF BaudTarget

-----------------------------------------------------------------------------
(* The steps of the host and of the line.                                  *)

TargetKept == UNCHANGED <<phase, hw, current, trial>>

LEMMA HostTypes ==
  ASSUME BaudTypes
  PROVE  /\ host.state \in HostTrial \union {"idle", "discover", "live", "answer"}
         /\ host.rate \in Rates /\ host.old \in Rates /\ host.trying \in Rates
         /\ host.nonce \in Nat /\ host.passes \in Nat /\ host.pass \in Nat
         /\ host.agreed \in Nat /\ trial.nonce \in Nat /\ trial.rate \in Rates
BY DEF BaudTypes, Hosts, Trials

(* What the host sends and hears in a step that begins no trial and commits
   to none: no such lines are added.                                       *)
Ordinary(m) == m.kind \notin {"prepare", "commit"}
OrdinaryLines ==
  /\ Loses(toTarget, toTarget') \/ \E m \in Message : Ordinary(m) /\ Send(m)
  /\ Loses(toHost, toHost')

LEMMA OrdinaryTarget ==
  ASSUME BaudTypes, NoncesGrow, OrdinaryLines
  PROVE  /\ toTarget' \in Seq(Message) /\ toHost' \in Seq(Message)
         /\ InOrder(toTarget')
         /\ \A i \in 1..Len(toTarget') : toTarget'[i].kind \in {"prepare", "commit"} =>
              \E k \in 1..Len(toTarget) : toTarget'[i] = toTarget[k]
         /\ \A j \in 1..Len(toHost') : \E k \in 1..Len(toHost) : toHost'[j] = toHost[k]
<1>1. /\ toHost' \in Seq(Message)
      /\ \A j \in 1..Len(toHost') : \E k \in 1..Len(toHost) : toHost'[j] = toHost[k]
  BY DEF OrdinaryLines, Loses, Gains
<1>2. CASE Loses(toTarget, toTarget')
  BY <1>1, <1>2 DEF Loses, Gains, NoncesGrow
<1>3. CASE \E m \in Message : Ordinary(m) /\ Send(m)
  <2>1. PICK m \in Message : Ordinary(m) /\ Send(m)
    BY <1>3
  <2>2. /\ Gains(toTarget, toTarget', {m, Noise})
        /\ Len(toTarget') = Len(toTarget) + 1 /\ Len(toTarget) \in Nat
        /\ \A i \in 1..Len(toTarget) : toTarget'[i] = toTarget[i]
        /\ toTarget'[Len(toTarget) + 1].kind \notin {"prepare", "commit"}
    <3>1. Noise.kind = "noise" /\ toTarget \in Seq(Message)
      BY DEF Noise, BaudTypes
    <3>2. /\ Gains(toTarget, toTarget', {m, Noise})
          /\ Len(toTarget') = Len(toTarget) + 1
          /\ \A i \in 1..Len(toTarget) : toTarget'[i] = toTarget[i]
          /\ toTarget'[Len(toTarget) + 1] \in {m, Noise}
      BY <2>1, Asked
    <3>3. toTarget'[Len(toTarget) + 1].kind \notin {"prepare", "commit"}
      BY <2>1, <3>1, <3>2 DEF Ordinary
    <3>4. Len(toTarget) \in Nat
      BY <3>1
    <3>. QED
      BY <3>2, <3>3, <3>4
  <2>3. \A i \in 1..Len(toTarget') : toTarget'[i].kind \in {"prepare", "commit"} =>
          i \in 1..Len(toTarget) /\ toTarget'[i] = toTarget[i]
    BY <2>2
  <2>4. InOrder(toTarget')
    BY <2>3 DEF InOrder, NoncesGrow
  <2>. QED
    BY <1>1, <2>2, <2>3, <2>4 DEF Gains
<1>. QED
  BY <1>2, <1>3 DEF OrdinaryLines

(* The host goes on to another state of the same trial, or leaves it.      *)
GoesOn ==
  /\ TargetKept /\ OrdinaryLines
  /\ host' \in Hosts /\ host'.nonce = host.nonce /\ host'.agreed = host.agreed
  /\ orphaned' \in BOOLEAN
  /\ \/ /\ host'.state \in HostTrial \ {"commit"} /\ host.state \in HostTrial \ {"commit"}
        /\ host'.old = host.old /\ host'.trying = host.trying
        /\ host'.rate = IF host'.state \in AtTrialRate THEN host.trying ELSE host.old
        /\ UNCHANGED orphaned
     \/ /\ host'.state \notin HostTrial
        /\ host'.rate = host'.old
        /\ host.state = "commit" \/ host'.old = host.old
        /\ UNCHANGED orphaned
        /\ host.state = "commit" /\ ~orphaned => current = host'.old /\ trial.nonce = 0
     \/ host'.state \notin HostTrial /\ host'.rate = host'.old /\ orphaned'
     \/ UNCHANGED <<host, orphaned>>

LEMMA GoesOnInv ==
  ASSUME BaudTypes, DivisorKnown, Shared, GoesOn
  PROVE  BaudTypes' /\ Shared'
<1>. USE DEF Shared
<1>0. /\ toTarget' \in Seq(Message) /\ toHost' \in Seq(Message)
      /\ InOrder(toTarget')
      /\ \A i \in 1..Len(toTarget') : toTarget'[i].kind \in {"prepare", "commit"} =>
           \E k \in 1..Len(toTarget) : toTarget'[i] = toTarget[k]
      /\ \A j \in 1..Len(toHost') : \E k \in 1..Len(toHost) : toHost'[j] = toHost[k]
  BY OrdinaryTarget DEF GoesOn
<1>1. BaudTypes'
  BY <1>0 DEF BaudTypes, GoesOn, TargetKept
<1>2. NoncesGrow'
  <2>1. ASSUME NEW i \in 1..Len(toTarget'), toTarget'[i].kind = "prepare"
        PROVE  Prepares(toTarget[i])'
    <3>1. PICK k \in 1..Len(toTarget) : toTarget'[i] = toTarget[k]
      BY <1>0, <2>1
    <3>. QED
      BY <1>0, <3>1 DEF NoncesGrow, Prepares, GoesOn, TargetKept
  <2>2. \A i \in 1..Len(toTarget') :
          toTarget'[i].kind = "commit" => toTarget'[i].nonce <= host'.agreed
    BY <1>0 DEF NoncesGrow, GoesOn
  <2>3. \A j \in 1..Len(toHost') : Passed(toHost[j])' /\ Kept(toHost[j])'
    BY <1>0 DEF NoncesGrow, Passed, Kept, GoesOn, TargetKept
  <2>4. \A i \in 1..Len(toTarget') : Prepares(toTarget[i])'
    BY <2>1 DEF Prepares
  <2>. QED
    BY <1>0, <2>2, <2>3, <2>4 DEF NoncesGrow, GoesOn, TargetKept, HostTrial, AtTrialRate
<1>3. TrialShared'
  BY <1>0 DEF TrialShared, GoesOn, TargetKept, HostTrial, AtTrialRate
<1>4. CommitShared'
  <2>. SUFFICES ASSUME ~orphaned' PROVE CommitShared'
    BY DEF CommitShared
  <2>0. ~orphaned
    BY DEF GoesOn
  <2>1. CASE host.state # "commit"
    <3>1. host'.state # "commit" /\ current' = host'.old
      BY <2>0, <2>1 DEF CommitShared, GoesOn, TargetKept, HostTrial, AtTrialRate
    <3>. QED
      BY <1>0, <2>0, <2>1, <3>1 DEF CommitShared, GoesOn, TargetKept
  <2>2. CASE UNCHANGED <<host, orphaned>>
    BY <1>0, <2>0, <2>2 DEF CommitShared, GoesOn, TargetKept
  <2>3. CASE host.state = "commit" /\ ~UNCHANGED <<host, orphaned>>
    <3>1. host'.state # "commit" /\ current' = host'.old /\ trial'.nonce = 0
      BY <2>0, <2>3 DEF GoesOn, TargetKept, HostTrial, AtTrialRate
    <3>. QED
      BY <3>1 DEF CommitShared
  <2>. QED
    BY <2>1, <2>3, <2>2
<1>. QED
  BY <1>1, <1>2, <1>3, <1>4

(* The host asks for a trial: its nonce is new.                            *)
LEMMA HostPrepareStep ==
  ASSUME BaudTypes, DivisorKnown, Shared, HostPrepare, TargetKept, UNCHANGED orphaned
  PROVE  BaudTypes' /\ Shared'
<1>. USE DEF Shared
<1>0. /\ host.state = "idle" /\ toHost' = toHost
      /\ toTarget \in Seq(Message) /\ toHost \in Seq(Message)
  BY DEF HostPrepare, BaudTypes
<1>1. PICK r \in Rates \ {host.rate}, p \in Passes :
        /\ host' = [host EXCEPT !.state = "prepare", !.nonce = @ + 1, !.old = host.rate,
                                !.trying = r, !.passes = p, !.pass = 0]
        /\ Send([kind |-> "prepare", nonce |-> host.nonce + 1, rate |-> r, passes |-> p])
  BY DEF HostPrepare
<1>. DEFINE m == [kind |-> "prepare", nonce |-> host.nonce + 1, rate |-> r, passes |-> p]
<1>2. /\ m \in Message /\ Send(m) /\ m.kind = "prepare" /\ m.nonce = host.nonce + 1
      /\ m.rate = r
  BY <1>1, BaudAssumption, HostTypes DEF Message
<1>. HIDE DEF m
<1>3. /\ host' \in Hosts /\ host'.state = "prepare" /\ host'.nonce = host.nonce + 1
      /\ host'.agreed = host.agreed /\ host'.old = host.rate /\ host'.rate = host.rate
      /\ host'.trying = r
  <2>1. /\ r \in Rates /\ p \in Nat /\ host.nonce + 1 \in Nat /\ host.rate \in Rates
        /\ "prepare" \in HostTrial \union {"idle", "discover", "live", "answer"}
    BY BaudAssumption, HostTypes DEF HostTrial
  <2>2. host \in Hosts
    BY DEF BaudTypes
  <2>. QED
    BY <1>1, <2>1, <2>2 DEF Hosts
<1>4. /\ Gains(toTarget, toTarget', {m, Noise})
      /\ Len(toTarget') = Len(toTarget) + 1 /\ Len(toTarget) \in Nat
      /\ \A i \in 1..Len(toTarget) : toTarget'[i] = toTarget[i]
      /\ toTarget'[Len(toTarget) + 1] \in {m, Noise} /\ Noise.kind = "noise"
  <2>1. Len(toTarget) \in Nat /\ Noise.kind = "noise"
    BY <1>0 DEF Noise
  <2>. QED
    BY <1>2, <2>1, Asked
<1>5. BaudTypes'
  BY <1>0, <1>3, <1>4 DEF BaudTypes, TargetKept, Gains
<1>6. /\ host.nonce \in Nat /\ host.agreed \in Nat /\ trial.nonce \in Nat
      /\ host.agreed <= host.nonce /\ trial.nonce <= host.nonce
  BY HostTypes DEF NoncesGrow
<1>7. \A i \in 1..Len(toTarget) : toTarget[i].kind = "prepare" =>
        toTarget[i].nonce \in Nat /\ toTarget[i].nonce <= host.nonce
  BY <1>0, MessageTypes DEF NoncesGrow, Prepares
<1>8. NoncesGrow'
  <2>1. InOrder(toTarget')
    <3>. SUFFICES ASSUME NEW i \in 1..Len(toTarget'), NEW j \in 1..Len(toTarget'), i < j,
                         toTarget'[i].kind = "prepare", toTarget'[j].kind = "prepare"
                  PROVE  toTarget'[i].nonce < toTarget'[j].nonce
      BY DEF InOrder
    <3>1. i \in 1..Len(toTarget) /\ toTarget'[i] = toTarget[i]
      BY <1>4
    <3>2. CASE j \in 1..Len(toTarget)
      BY <1>4, <3>1, <3>2 DEF NoncesGrow, InOrder
    <3>3. CASE j = Len(toTarget) + 1
      BY <1>2, <1>4, <1>6, <1>7, <3>1, <3>3
    <3>. QED
      BY <1>4, <3>2, <3>3
  <2>2. ASSUME NEW i \in 1..Len(toTarget'), toTarget'[i].kind = "prepare"
        PROVE  Prepares(toTarget[i])'
    <3>1. CASE i \in 1..Len(toTarget)
      BY <1>0, <1>3, <1>4, <1>6, <1>7, <2>2, <3>1 DEF NoncesGrow, Prepares, TargetKept
    <3>2. CASE i = Len(toTarget) + 1
      <4>1. toTarget'[i].nonce = host.nonce + 1
        BY <1>2, <1>4, <2>2, <3>2
      <4>2. \A j \in 1..Len(toHost) : toHost[j].kind \in {"pass", "committed"} =>
              toHost[j].nonce \in Nat /\ toHost[j].nonce <= host.nonce
        BY <1>0, <1>6, MessageTypes DEF NoncesGrow, Passed, Kept
      <4>. QED
        BY <1>0, <1>3, <1>6, <4>1, <4>2 DEF Prepares, TargetKept
    <3>. QED
      BY <1>4, <3>1, <3>2
  <2>3. \A i \in 1..Len(toTarget') :
          toTarget'[i].kind = "commit" => toTarget'[i].nonce <= host'.agreed
    BY <1>2, <1>3, <1>4 DEF NoncesGrow
  <2>4. ASSUME NEW j \in 1..Len(toHost') PROVE Passed(toHost[j])' /\ Kept(toHost[j])'
    <3>1. toHost[j].kind \in {"pass", "committed"} => toHost[j].nonce \in Nat
      BY <1>0, MessageTypes
    <3>. QED
      BY <1>0, <1>3, <1>6, <3>1 DEF NoncesGrow, Passed, Kept, TargetKept
  <2>5. \A i \in 1..Len(toTarget') : Prepares(toTarget[i])'
    BY <2>2 DEF Prepares
  <2>. QED
    BY <1>3, <1>6, <2>1, <2>3, <2>4, <2>5 DEF NoncesGrow, TargetKept
<1>9. TrialShared'
  <2>1. trial'.nonce # host'.nonce
    BY <1>3, <1>6 DEF TargetKept
  <2>2. ASSUME NEW i \in 1..Len(toTarget'), toTarget'[i].kind = "prepare",
               toTarget'[i].nonce = host'.nonce
        PROVE  toTarget'[i].rate = host'.trying
    BY <1>2, <1>3, <1>4, <1>6, <1>7, <2>2
  <2>. QED
    BY <1>3, <2>1, <2>2 DEF TrialShared, AtTrialRate
<1>10. CommitShared'
  <2>1. host.rate = host.old
    BY <1>0 DEF TrialShared, AtTrialRate
  <2>2. \A i \in 1..Len(toTarget') : toTarget'[i].kind = "commit" =>
          \E k \in 1..Len(toTarget) : toTarget'[i] = toTarget[k]
    BY <1>2, <1>4
  <2>. QED
    BY <1>0, <1>3, <2>1, <2>2 DEF CommitShared, TargetKept
<1>. QED
  BY <1>5, <1>8, <1>9, <1>10

(* The host has seen every pass of the trial succeed and commits.          *)
LEMMA HostCommitStep ==
  ASSUME BaudTypes, DivisorKnown, Shared, TargetKept, UNCHANGED orphaned,
         toHost # <<>>, toHost' = Tail(toHost), host.state = "pass",
         Head(toHost) = Nonced("pass", host.nonce, 0),
         host' = [host EXCEPT !.state = "commit", !.agreed = host.nonce],
         Send(Nonced("commit", host.nonce, 0))
  PROVE  BaudTypes' /\ Shared'
<1>. USE DEF Shared
<1>. DEFINE m == Nonced("commit", host.nonce, 0)
<1>0. /\ host.nonce \in Nat /\ host.agreed \in Nat /\ trial.nonce \in Nat
      /\ host.agreed <= host.nonce /\ trial.nonce <= host.nonce /\ host.nonce # 0
      /\ toTarget \in Seq(Message) /\ toHost \in Seq(Message)
  BY HostTypes DEF NoncesGrow, HostTrial, AtTrialRate, BaudTypes
<1>1. /\ m \in Message /\ m.kind = "commit" /\ m.nonce = host.nonce
      /\ Head(toHost).kind = "pass" /\ Head(toHost).nonce = host.nonce
      /\ Noise.kind = "noise" /\ Send(m)
  BY <1>0, Kinds DEF NoncedKinds
<1>. HIDE DEF m
<1>2. /\ host' \in Hosts /\ host'.state = "commit" /\ host'.nonce = host.nonce
      /\ host'.agreed = host.nonce /\ host'.old = host.old /\ host'.rate = host.rate
      /\ host'.trying = host.trying
  BY DEF BaudTypes, Hosts, HostTrial, AtTrialRate
<1>3. /\ Gains(toTarget, toTarget', {m, Noise})
      /\ Len(toTarget') = Len(toTarget) + 1 /\ Len(toTarget) \in Nat
      /\ \A i \in 1..Len(toTarget) : toTarget'[i] = toTarget[i]
      /\ toTarget'[Len(toTarget) + 1] \in {m, Noise}
  <2>1. Len(toTarget) \in Nat
    BY <1>0
  <2>. QED
    BY <1>1, <2>1, Asked
<1>4. /\ Loses(toHost, toHost') /\ Head(toHost) = toHost[1] /\ 1 \in 1..Len(toHost)
  BY <1>0, TailLoses
<1>5. BaudTypes'
  BY <1>0, <1>2, <1>3, <1>4 DEF BaudTypes, TargetKept, Gains, Loses
<1>6. trial.nonce = 0 \/ trial.nonce = host.nonce
  BY <1>0, <1>1, <1>4 DEF NoncesGrow, Passed
<1>7. /\ \A i \in 1..Len(toTarget) : toTarget[i].kind = "prepare" =>
           host.nonce < toTarget[i].nonce /\ toTarget[i].nonce <= host.nonce
  BY <1>1, <1>4 DEF NoncesGrow, Prepares
<1>8. \A i \in 1..Len(toTarget') : toTarget'[i].kind # "prepare"
  <2>1. \A i \in 1..Len(toTarget) : toTarget[i].kind = "prepare" => toTarget[i].nonce \in Nat
    BY <1>0, MessageTypes
  <2>2. \A i \in 1..Len(toTarget) : toTarget[i].kind # "prepare"
    BY <1>0, <1>7, <2>1
  <2>3. \A i \in 1..Len(toTarget') : i \in 1..Len(toTarget) \/ i = Len(toTarget) + 1
    BY <1>3
  <2>. QED
    BY <1>1, <1>3, <2>2, <2>3
<1>9. NoncesGrow'
  <2>1. InOrder(toTarget')
    BY <1>8 DEF InOrder
  <2>2. \A i \in 1..Len(toTarget') : Prepares(toTarget[i])'
    BY <1>8 DEF Prepares
  <2>3. \A i \in 1..Len(toTarget') :
          toTarget'[i].kind = "commit" => toTarget'[i].nonce <= host'.agreed
    <3>1. \A i \in 1..Len(toTarget) : toTarget[i].kind = "commit" => toTarget[i].nonce \in Nat
      BY <1>0, MessageTypes
    <3>2. \A i \in 1..Len(toTarget) :
            toTarget[i].kind = "commit" => toTarget[i].nonce <= host.nonce
      BY <1>0, <3>1 DEF NoncesGrow
    <3>3. ASSUME NEW i \in 1..Len(toTarget'), toTarget'[i].kind = "commit"
          PROVE  toTarget'[i].nonce <= host.nonce
      <4>1. i \in 1..Len(toTarget) \/ i = Len(toTarget) + 1
        BY <1>3
      <4>. QED
        BY <1>0, <1>1, <1>3, <3>2, <3>3, <4>1
    <3>. QED
      BY <1>2, <3>3
  <2>4. ASSUME NEW j \in 1..Len(toHost') PROVE Passed(toHost[j])' /\ Kept(toHost[j])'
    <3>1. PICK k \in 1..Len(toHost) : toHost'[j] = toHost[k]
      BY <1>4 DEF Loses, Gains
    <3>2. toHost[k].kind \in {"pass", "committed"} => toHost[k].nonce \in Nat
      BY <1>0, MessageTypes
    <3>. QED
      BY <1>0, <1>2, <3>1, <3>2 DEF NoncesGrow, Passed, Kept, TargetKept
  <2>. QED
    BY <1>0, <1>2, <1>6, <2>1, <2>2, <2>3, <2>4 DEF NoncesGrow, TargetKept
<1>10. TrialShared'
  BY <1>2, <1>8 DEF TrialShared, TargetKept, HostTrial, AtTrialRate
<1>11. CommitShared'
  <2>. SUFFICES ASSUME ~orphaned PROVE CommitShared'
    BY DEF CommitShared
  <2>1. \A j \in 1..Len(toHost') :
          ~(toHost'[j].kind = "committed" /\ toHost'[j].nonce = host.nonce)
    <3>1. host.agreed < host.nonce
      BY DEF NoncesGrow, HostTrial, AtTrialRate
    <3>. QED
      BY <1>0, <1>4, <3>1 DEF NoncesGrow, Kept, Loses, Gains
  <2>2. \A i \in 1..Len(toTarget') :
          toTarget'[i].kind = "commit" /\ toTarget'[i].nonce = trial'.nonce /\ trial'.nonce # 0 =>
            host'.nonce = trial'.nonce
    BY <1>2, <1>6 DEF TargetKept
  <2>. QED
    BY <1>2, <2>1, <2>2 DEF CommitShared
<1>. QED
  BY <1>5, <1>9, <1>10, <1>11

LEMMA HostHearsStep ==
  ASSUME BaudTypes, DivisorKnown, Shared, HostHears, TargetKept, UNCHANGED orphaned
  PROVE  BaudTypes' /\ Shared'
<1>. DEFINE line == Head(toHost)
<1>0. /\ toHost # <<>> /\ toHost' = Tail(toHost) /\ toHost \in Seq(Message)
      /\ toTarget \in Seq(Message) /\ host \in Hosts /\ orphaned \in BOOLEAN
      /\ host.nonce \in Nat /\ host.pass \in Nat
  BY HostTypes DEF HostHears, BaudTypes
<1>1. Loses(toHost, toHost') /\ 1 \in 1..Len(toHost) /\ line = toHost[1] /\ line \in Message
  BY <1>0, TailLoses
<1>2. Loses(toTarget, toTarget) /\ (toTarget' = toTarget => Loses(toTarget, toTarget'))
  BY <1>0, Unchanged
<1>. DEFINE goes(state) == host' = [host EXCEPT !.state = state]
            mine(k) == line = Nonced(k, host.nonce, 0)
<1>3. ASSUME NEW m \in Message, Ordinary(m), Send(m),
             NEW from \in {"sync", "start", "data"}, host.state = from,
             NEW to \in {"start", "data", "pass", "next"}, goes(to)
      PROVE  GoesOn
  <2>1. OrdinaryLines
    BY <1>1, <1>3 DEF OrdinaryLines
  <2>2. /\ host' \in Hosts /\ host'.state = to /\ host'.nonce = host.nonce
        /\ host'.agreed = host.agreed /\ host'.old = host.old
        /\ host'.trying = host.trying /\ host'.rate = host.rate
    BY <1>0, <1>3 DEF Hosts, HostTrial, AtTrialRate
  <2>3. host.rate = host.trying
    BY <1>3 DEF Shared, TrialShared, AtTrialRate
  <2>. QED
    BY <1>0, <1>3, <2>1, <2>2, <2>3 DEF GoesOn, HostTrial, AtTrialRate
<1>4. ASSUME NEW k \in NoncedKinds, NEW pass \in Nat, k # "commit"
      PROVE  Nonced(k, host.nonce, pass) \in Message /\ Ordinary(Nonced(k, host.nonce, pass))
  <2>1. /\ Nonced(k, host.nonce, pass) \in Message
        /\ Nonced(k, host.nonce, pass).kind = k
    BY <1>0, <1>4, Kinds
  <2>2. k # "prepare"
    BY DEF NoncedKinds
  <2>. QED
    BY <1>4, <2>1, <2>2 DEF Ordinary
<1>5. ASSUME UNCHANGED toTarget, host' = Idle(host),
             host.state # "commit" => host.rate = host.old,
             host.state = "commit" /\ ~orphaned => current = host.rate /\ trial.nonce = 0
      PROVE  GoesOn
  <2>1. OrdinaryLines
    BY <1>1, <1>2, <1>5 DEF OrdinaryLines
  <2>2. /\ host' \in Hosts /\ host'.state = "idle" /\ host'.nonce = host.nonce
        /\ host'.agreed = host.agreed /\ host'.old = host.rate /\ host'.rate = host.rate
    BY <1>0, <1>5 DEF Hosts, Idle, HostTrial, AtTrialRate
  <2>. QED
    BY <1>0, <1>5, <2>1, <2>2 DEF GoesOn, HostTrial, AtTrialRate
<1>6. CASE /\ host.state = "prepare" /\ line.kind = "prepared"
           /\ host' = [host EXCEPT !.state = "sync", !.rate = host.trying]
           /\ UNCHANGED toTarget
  <2>1. OrdinaryLines
    BY <1>1, <1>2, <1>6 DEF OrdinaryLines
  <2>2. /\ host' \in Hosts /\ host'.state = "sync" /\ host'.nonce = host.nonce
        /\ host'.agreed = host.agreed /\ host'.old = host.old
        /\ host'.trying = host.trying /\ host'.rate = host.trying
    BY <1>0, <1>6 DEF Hosts, HostTrial, AtTrialRate
  <2>3. GoesOn
    BY <1>0, <1>6, <2>1, <2>2 DEF GoesOn, HostTrial, AtTrialRate
  <2>. QED
    BY <2>3, GoesOnInv
<1>7. CASE /\ host.state = "prepare" \/ host.state = "discover"
           /\ host' = Idle(host) /\ UNCHANGED toTarget
  <2>1. host.rate = host.old
    BY <1>7 DEF Shared, TrialShared, AtTrialRate
  <2>. QED
    BY <1>5, <1>7, <2>1, GoesOnInv
<1>8. CASE host.state = "commit" /\ mine("committed") /\ host' = Idle(host) /\ UNCHANGED toTarget
  <2>1. line.kind = "committed" /\ line.nonce = host.nonce
    BY <1>8 DEF Nonced
  <2>2. ~orphaned => current = host.trying
    BY <1>1, <1>8, <2>1 DEF Shared, CommitShared
  <2>3. host.rate = host.trying
    BY <1>8 DEF Shared, TrialShared, AtTrialRate
  <2>4. trial.nonce = 0
    BY <1>0, <1>1, <2>1, HostTypes DEF Shared, NoncesGrow, Kept
  <2>. QED
    BY <1>5, <1>8, <2>2, <2>3, <2>4, GoesOnInv
<1>9. CASE /\ host.state \in {"sync", "start"} /\ goes("start")
           /\ Send(Nonced("syncack", host.nonce, 0))
  BY <1>3, <1>4, <1>9, GoesOnInv DEF NoncedKinds
<1>10. CASE host.state = "start" /\ goes("data") /\ Send(Nonced("h2t", host.nonce, 0))
  BY <1>3, <1>4, <1>10, GoesOnInv DEF NoncedKinds
<1>11. CASE /\ host.state = "data" /\ Send(Nonced("t2hack", host.nonce, host.pass))
            /\ goes(IF host.pass + 1 = host.passes THEN "pass" ELSE "next")
  <2>. DEFINE to == IF host.pass + 1 = host.passes THEN "pass" ELSE "next"
              m == Nonced("t2hack", host.nonce, host.pass)
  <2>1. to \in {"start", "data", "pass", "next"} /\ goes(to) /\ Send(m) /\ m \in Message
        /\ Ordinary(m)
    BY <1>0, <1>4, <1>11 DEF NoncedKinds
  <2>. HIDE DEF to, m
  <2>. QED
    BY <1>3, <1>11, <2>1, GoesOnInv
<1>12. CASE /\ host.state = "pass" /\ mine("pass")
            /\ host' = [host EXCEPT !.state = "commit", !.agreed = host.nonce]
            /\ Send(Nonced("commit", host.nonce, 0))
  BY <1>0, <1>12, HostCommitStep
<1>. QED
  BY <1>6, <1>7, <1>8, <1>9, <1>10, <1>11, <1>12 DEF HostHears

LEMMA HostGoesOnStep ==
  ASSUME BaudTypes, DivisorKnown, Shared, HostNextPass \/ HostSkips, TargetKept,
         UNCHANGED orphaned
  PROVE  BaudTypes' /\ Shared'
<1>0. /\ toTarget \in Seq(Message) /\ toHost \in Seq(Message) /\ host \in Hosts
      /\ host.nonce \in Nat /\ host.pass \in Nat /\ orphaned \in BOOLEAN
  BY HostTypes DEF BaudTypes
<1>1. CASE HostNextPass
  <2>. DEFINE m == Nonced("h2t", host.nonce, host.pass + 1)
  <2>1. /\ m \in Message /\ Ordinary(m)
    BY <1>0 DEF Nonced, Message, NoncedKinds, Ordinary
  <2>2. Send(m) /\ host.state = "next" /\ host' = [host EXCEPT !.state = "data", !.pass = @ + 1]
    BY <1>1 DEF HostNextPass
  <2>. HIDE DEF m
  <2>3. OrdinaryLines
    BY <1>0, <1>1, <2>1, <2>2, Unchanged DEF OrdinaryLines, HostNextPass
  <2>4. /\ host' \in Hosts /\ host'.state = "data" /\ host'.nonce = host.nonce
        /\ host'.agreed = host.agreed /\ host'.old = host.old
        /\ host'.trying = host.trying /\ host'.rate = host.rate
    <3>1. host.pass + 1 \in Nat /\ "data" \in HostTrial
      BY <1>0 DEF HostTrial, AtTrialRate
    <3>. QED
      BY <1>0, <2>2, <3>1 DEF Hosts
  <2>5. host.rate = host.trying
    BY <2>2 DEF Shared, TrialShared, AtTrialRate
  <2>6. GoesOn
    BY <1>0, <2>2, <2>3, <2>4, <2>5 DEF GoesOn, HostTrial, AtTrialRate
  <2>. QED
    BY <2>6, GoesOnInv
<1>2. CASE HostSkips
  <2>1. OrdinaryLines
    BY <1>0, <1>2, TailLoses, Unchanged DEF HostSkips, OrdinaryLines
  <2>2. GoesOn
    BY <1>0, <1>2, <2>1 DEF HostSkips, GoesOn
  <2>. QED
    BY <2>2, GoesOnInv
<1>. QED
  BY <1>1, <1>2

(* The host sends a package; it is in no trial then.                       *)
LEMMA HostSendsStep ==
  ASSUME BaudTypes, DivisorKnown, Shared, sent \in Nat,
         HostPackage \/ HostAnswers \/ HostAbandons, TargetKept, UNCHANGED orphaned
  PROVE  BaudTypes' /\ Shared' /\ sent' \in Nat
<1>0. /\ toTarget \in Seq(Message) /\ toHost \in Seq(Message) /\ host \in Hosts
      /\ orphaned \in BOOLEAN
  BY DEF BaudTypes
<1>1. host.state \in {"idle", "live", "answer"} /\ sent' \in Nat
  BY DEF HostPackage, HostAnswers, HostAbandons
<1>2. \/ UNCHANGED host
      \/ \E state \in {"idle", "live", "answer"} : host' = [host EXCEPT !.state = state]
  BY DEF HostPackage, HostAnswers, HostAbandons
<1>3. \/ UNCHANGED host
      \/ /\ host' \in Hosts /\ host'.nonce = host.nonce /\ host'.agreed = host.agreed
         /\ host'.state \notin HostTrial /\ host'.old = host.old /\ host'.rate = host.rate
  BY <1>0, <1>2 DEF Hosts, HostTrial, AtTrialRate
<1>4. host.rate = host.old
  BY <1>1 DEF Shared, TrialShared, AtTrialRate
<1>5. Loses(toHost, toHost')
  BY <1>0, TailLoses, Unchanged DEF HostPackage, HostAnswers, HostAbandons
<1>6. UNCHANGED toTarget \/ \E m \in Message : Ordinary(m) /\ Send(m)
  <2>1. \A k \in {"liveboot", "typo"} : Line(k) \in Message /\ Ordinary(Line(k))
    BY DEF Line, Message, PlainKinds, Ordinary
  <2>2. \A k \in {"manifest", "image"} : Object(k, sent) \in Message /\ Ordinary(Object(k, sent))
    BY DEF Object, Message, Ordinary
  <2>3. Nonced("bootram", sent, 0) \in Message /\ Ordinary(Nonced("bootram", sent, 0))
    BY DEF Nonced, Message, NoncedKinds, Ordinary
  <2>4. ASSUME NEW p \in Packages
        PROVE  LET m == [kind |-> "header", package |-> [p EXCEPT !.id = sent]]
               IN m \in Message /\ Ordinary(m)
    <3>1. [p EXCEPT !.id = sent] \in Package
      BY LiveAssumption DEF Package
    <3>. QED
      BY <3>1 DEF Message, Ordinary
  <2>5. CASE HostPackage \/ HostAbandons
    BY <2>1, <2>5 DEF HostPackage, HostAbandons
  <2>6. CASE HostAnswers
    BY <2>1, <2>2, <2>3, <2>4, <2>6 DEF HostAnswers
  <2>. QED
    BY <2>5, <2>6
<1>7. OrdinaryLines
  BY <1>0, <1>5, <1>6, Unchanged DEF OrdinaryLines
<1>8. GoesOn
  BY <1>0, <1>1, <1>3, <1>4, <1>7 DEF GoesOn, HostTrial, AtTrialRate
<1>. QED
  BY <1>1, <1>8, GoesOnInv

LEMMA HostStep ==
  ASSUME BaudTypes, DivisorKnown, Shared, sent \in Nat, Host
  PROVE  BaudTypes' /\ Shared' /\ sent' \in Nat
<1>1. TargetKept /\ UNCHANGED orphaned
  BY DEF Host, TargetKept
<1>2. CASE HostPackage \/ HostAnswers \/ HostAbandons
  BY <1>1, <1>2, HostSendsStep
<1>3. CASE (HostPrepare \/ HostHears \/ HostNextPass \/ HostSkips) /\ UNCHANGED sent
  BY <1>1, <1>3, HostPrepareStep, HostHearsStep, HostGoesOnStep
<1>. QED
  BY <1>2, <1>3 DEF Host

(* The host stops waiting, takes the old rate for granted, or a line is
   lost.                                                                   *)
LEMMA EnvironStep ==
  ASSUME BaudTypes, DivisorKnown, Shared, Environ
  PROVE  BaudTypes' /\ Shared' /\ TargetKept
<1>0. /\ toTarget \in Seq(Message) /\ toHost \in Seq(Message) /\ host \in Hosts
      /\ orphaned \in BOOLEAN /\ TargetKept
  BY DEF BaudTypes, Environ, HostGivesUp, HostGoesOn, LoseLine, TargetKept
<1>1. CASE HostGivesUp
  <2>1. OrdinaryLines
    BY <1>0, <1>1, Unchanged DEF HostGivesUp, OrdinaryLines
  <2>2. /\ host' \in Hosts /\ host'.state = "discover" /\ host'.nonce = host.nonce
        /\ host'.agreed = host.agreed /\ host'.old = host.old /\ host'.rate = host.old
    BY <1>0, <1>1 DEF HostGivesUp, Hosts
  <2>3. orphaned' \in BOOLEAN /\ (host.state = "commit" => orphaned')
        /\ (host.state # "commit" => orphaned' = orphaned)
    BY <1>0, <1>1 DEF HostGivesUp
  <2>4. GoesOn
    BY <1>0, <2>1, <2>2, <2>3 DEF GoesOn, HostTrial, AtTrialRate
  <2>. QED
    BY <1>0, <2>4, GoesOnInv
<1>2. CASE HostGoesOn
  <2>1. OrdinaryLines
    BY <1>0, <1>2, Unchanged DEF HostGoesOn, OrdinaryLines
  <2>2. /\ host' \in Hosts /\ host'.state = "idle" /\ host'.nonce = host.nonce
        /\ host'.agreed = host.agreed /\ host'.old = host.rate /\ host'.rate = host.rate
        /\ host.state = "discover" /\ UNCHANGED orphaned
    BY <1>0, <1>2 DEF HostGoesOn, Idle, Hosts
  <2>3. host.rate = host.old
    BY <2>2 DEF Shared, TrialShared, AtTrialRate
  <2>4. GoesOn
    BY <1>0, <2>1, <2>2, <2>3 DEF GoesOn, HostTrial, AtTrialRate
  <2>. QED
    BY <1>0, <2>4, GoesOnInv
<1>3. CASE LoseLine
  <2>1. OrdinaryLines
    BY <1>0, <1>3, RemovalLoses, Unchanged DEF LoseLine, OrdinaryLines
  <2>2. GoesOn
    BY <1>0, <1>3, <2>1 DEF GoesOn, LoseLine
  <2>. QED
    BY <1>0, <2>2, GoesOnInv
<1>. QED
  BY <1>1, <1>2, <1>3 DEF Environ

-----------------------------------------------------------------------------
(* The steps of the target with a package.                                 *)

(* They are quiet, and none is part of a trial but the one that spoils it. *)
LEMMA PackageQuiet ==
  ASSUME BaudTypes, LiveTypes, DivisorKnown, LiveTarget
  PROVE  Quiet /\ BaudTypes' /\ DivisorKnown' /\ sent' = sent
<1>0. /\ toTarget \in Seq(Message) /\ toHost \in Seq(Message) /\ trial \in Trials
      /\ UNCHANGED <<host, orphaned, sent>>
  BY DEF BaudTypes, LiveTarget
<1>1. ASSUME NEW n \in 1..2, TakeLine(n)
      PROVE  Loses(toTarget, toTarget')
  BY <1>1, LineTaken
<1>2. CASE SpoiltTrial
  <2>1. Loses(toTarget, toTarget') /\ FallBack /\ phase = "h2t"
    BY <1>1, <1>2 DEF SpoiltTrial
  <2>. QED
    BY <1>0, <2>1, FallBackStep DEF TrialPhases
<1>3. CASE ~SpoiltTrial
  <2>1. UNCHANGED <<current, trial>> /\ (hw' = hw \/ (hw' = Baseline /\ Launch /\ phase' = "linux"))
    BY <1>3 DEF LiveTarget, CommandSpoilt, LiveCommand, ReadHeader, HeaderTimeout,
         ObjectFails, ReceiveManifest, ReceiveImage, CopyKernel, CopyRootfs,
         ReadConfirmation, Launch
  <2>2. Loses(toTarget, toTarget')
    <3>1. toTarget' = toTarget \/ \E n \in 1..2 : TakeLine(n)
      BY <1>3 DEF LiveTarget, CommandSpoilt, LiveCommand, ReadHeader, HeaderTimeout,
           ObjectFails, ReceiveManifest, ReceiveImage, CopyKernel, CopyRootfs,
           ReadConfirmation, Launch
    <3>. QED
      BY <1>0, <1>1, <3>1, Unchanged
  <2>3. toHost' = toHost \/ \E m \in Message : Harmless(m) /\ Say(m)
    <3>1. \A k \in PlainKinds : Line(k) \in Message /\ Harmless(Line(k))
      BY DEF Line, Message, PlainKinds, Harmless
    <3>2. package.id \in Nat /\ Nonced("challenge", package.id, 0) \in Message
          /\ Harmless(Nonced("challenge", package.id, 0))
      BY DEF LiveTypes, Package, NoPackage, Nonced, Message, NoncedKinds, Harmless
    <3>3. toHost' = toHost \/ Say(Nonced("challenge", package.id, 0))
            \/ \E k \in PlainKinds : Say(Line(k))
      BY <1>3 DEF LiveTarget, CommandSpoilt, LiveCommand, ReadHeader, HeaderTimeout,
           ObjectFails, ReceiveManifest, ReceiveImage, CopyKernel, CopyRootfs,
           ReadConfirmation, Launch, Fails, PlainKinds
    <3>. QED
      BY <3>1, <3>2, <3>3
  <2>4. hw \in Rates
    BY DEF BaudTypes
  <2>5. Quiet
    BY <1>0, <2>1, <2>2, <2>3, <2>4, QuietWords, Silence DEF Quiet, Say
  <2>6. BaudTypes'
    BY <1>0, <2>1, <2>5, BaudAssumption DEF BaudTypes, Quiet, Loses, Gains
  <2>7. phase \notin TrialPhases /\ phase' \notin TrialPhases
        /\ (phase' = "linux" => Launch) /\ phase # "linux"
    BY <1>3 DEF LiveTarget, CommandSpoilt, LiveCommand, ReadHeader, HeaderTimeout,
         ObjectFails, ReceiveManifest, ReceiveImage, CopyKernel, CopyRootfs,
         ReadConfirmation, Launch, Fails, TrialPhases
  <2>8. DivisorKnown'
    BY <2>1, <2>7 DEF DivisorKnown, TrialPhases
  <2>. QED
    BY <1>0, <2>5, <2>6, <2>8
<1>. QED
  BY <1>2, <1>3

(* What is written, and what else stays as it is.                          *)
LEMMA Written ==
  ASSUME ram \in [Names -> Ranges], NEW name \in Names, NEW range \in Ranges,
         ram' = Write(name, range)
  PROVE  /\ ram' \in [Names -> Ranges]
         /\ ram'[name] = range
         /\ \A o \in Names \ {name} : ~Overlap(ram[o], range) => ram'[o] = ram[o]
<1>1. \A o \in Names : [ram[o] EXCEPT !.from = Lost] \in Ranges
  BY DEF Ranges, Lost
<1>. QED
  BY <1>1 DEF Write

(* The ranges of a package that was accepted.                              *)
LEMMA RangesApart ==
  ASSUME NEW p \in Package, NEW id \in Nat
  PROVE  /\ Extent(ManifestBase, MaxManifest, id) \in Ranges
         /\ Extent(StagingBase, FullImageSize, id) \in Ranges
         /\ Extent(TestBase, TestBytes, Trial) \in Ranges
         /\ Extent(ParamsBase, ParamsBytes, id) \in Ranges
         /\ Extent(RootfsDest, p.rootfs, id) \in Ranges
         /\ Extent(KernelDest, KernelCopy(p), id) \in Ranges
<1>1. KernelCopy(p) \in Nat
  BY DEF KernelCopy, AlignUp, Package
<1>2. p.rootfs \in Nat
  BY DEF Package
<1>. QED
  BY <1>1, <1>2, SMT DEF Ranges, Extent, Trial, ManifestBase, MaxManifest, StagingBase,
     FullImageSize, TestBase, TestBytes, ParamsBase, ParamsBytes, RootfsDest, KernelDest

LEMMA FixedApart ==
  ASSUME NEW from \in Int, NEW lo \in Nat, NEW bytes \in Nat,
         lo >= ParamsBase,
         lo + bytes <= ProgramBase \/ lo >= ProgramBase + ProgramBytes
  PROVE  /\ ~Overlap(Extent(ProgramBase, ProgramBytes, Code), Extent(lo, bytes, from))
         /\ ~Overlap(Extent(0, ParamsBase, Vectors), Extent(lo, bytes, from))
BY SMT DEF Overlap, Extent, ProgramBase, ProgramBytes, ParamsBase, Code, Vectors

LEMMA KernelFits ==
  ASSUME NEW p \in Package, SpimAccepted(p)
  PROVE  /\ KernelCopy(p) \in Nat
         /\ KernelDest + KernelCopy(p) <= StagingBase
         /\ KernelDest + KernelCopy(p) <= LinuxMemory
<1>1. KernelCopy(p) \in Nat
  BY DEF KernelCopy, AlignUp, Package
<1>2. KernelCopy(p) <= KernelSlot - SpimHeader
  BY DEF SpimAccepted
<1>. QED
  BY <1>1, <1>2, SMT DEF KernelSlot, SpimHeader, KernelDest, StagingBase, LinuxMemory

LEMMA FixedKept ==
  ASSUME LiveTypes, Placed, NEW name \in Names \ {"program", "vectors"},
         NEW from \in Int, NEW lo \in Nat, NEW bytes \in Nat, lo >= ParamsBase,
         lo + bytes <= ProgramBase \/ lo >= ProgramBase + ProgramBytes,
         ram' = Write(name, Extent(lo, bytes, from))
  PROVE  /\ ram' \in [Names -> Ranges] /\ ram'[name] = Extent(lo, bytes, from)
         /\ ram'["program"] = Extent(ProgramBase, ProgramBytes, Code)
         /\ ram'["vectors"] = Extent(0, ParamsBase, Vectors)
         /\ \A o \in Names \ {name} : ~Overlap(ram[o], Extent(lo, bytes, from)) => ram'[o] = ram[o]
<1>. DEFINE range == Extent(lo, bytes, from)
<1>1. range \in Ranges
  BY DEF Extent, Ranges
<1>2. ~Overlap(ram["program"], range) /\ ~Overlap(ram["vectors"], range)
  BY FixedApart DEF Placed
<1>. HIDE DEF range
<1>3. /\ ram' \in [Names -> Ranges] /\ ram'[name] = range
      /\ \A o \in Names \ {name} : ~Overlap(ram[o], range) => ram'[o] = ram[o]
  <2>1. ram \in [Names -> Ranges] /\ ram' = Write(name, range)
    BY DEF LiveTypes, range
  <2>. QED
    BY <1>1, <2>1, Written
<1>4. {"program", "vectors"} \subseteq Names \ {name}
  BY DEF Names
<1>. QED
  BY <1>2, <1>3, <1>4 DEF Placed, range

(* Where the objects and copies go is above the vectors and not where the
   program is.                                                             *)
LEMMA PlacesFixed ==
  ASSUME NEW p \in Package
  PROVE  /\ ManifestBase >= ParamsBase /\ ManifestBase + MaxManifest <= ProgramBase
         /\ StagingBase >= ParamsBase /\ StagingBase + FullImageSize <= ProgramBase
         /\ TestBase >= ParamsBase /\ TestBase + TestBytes <= ProgramBase
         /\ ParamsBase + ParamsBytes <= KernelDest /\ KernelDest >= ParamsBase
         /\ StagingBase <= ProgramBase
         /\ KernelDest <= ProgramBase
         /\ RootfsDest >= ProgramBase + ProgramBytes /\ RootfsDest >= ParamsBase
         /\ StagingBase + FullImageSize <= RootfsDest
         /\ {ManifestBase, MaxManifest, StagingBase, FullImageSize, TestBase, TestBytes,
             ParamsBase, ParamsBytes, KernelDest, RootfsDest, ProgramBase, ProgramBytes}
              \subseteq Nat
BY SMT DEF ManifestBase, MaxManifest, StagingBase, FullImageSize, TestBase, TestBytes,
   ParamsBase, ParamsBytes, KernelDest, RootfsDest, ProgramBase, ProgramBytes

PackageInv == LiveTypes /\ PackageChecked /\ Placed

(* Steps that write nothing.                                               *)
LEMMA ListeningStep ==
  ASSUME BaudTypes, PackageInv, UNCHANGED sent,
         CommandSpoilt \/ LiveCommand \/ ReadHeader \/ HeaderTimeout
           \/ ReadConfirmation \/ SpoiltTrial
  PROVE  PackageInv'
<1>. USE DEF PackageInv
<1>1. CASE CommandSpoilt \/ LiveCommand \/ HeaderTimeout \/ SpoiltTrial
  <2>1. /\ UNCHANGED ram /\ (package' = package \/ package' = NoPackage)
        /\ phase' \in {"command", "header", "fallback"}
        /\ leftover' \in {"none", "bytes", "start"}
    BY <1>1 DEF LiveTypes, CommandSpoilt, LiveCommand, HeaderTimeout, SpoiltTrial, Fails, FallBack
  <2>2. LiveTypes'
    BY <2>1 DEF LiveTypes, TrialPhases
  <2>3. PackageChecked' /\ Placed'
    BY <2>1 DEF PackageChecked, Placed, PackagePhases
  <2>. QED
    BY <2>2, <2>3
<1>2. CASE ReadHeader
  <2>0. toTarget[1] \in Message /\ Head(toTarget) = toTarget[1]
    BY <1>2, LineTaken DEF ReadHeader, TakeLine
  <2>1. /\ UNCHANGED ram /\ leftover' \in {"none", "bytes", "start"}
        /\ \/ phase' = "command" /\ (package' = package \/ package' = NoPackage)
           \/ /\ phase' = "manifest" /\ Head(toTarget).kind = "header"
              /\ package' = Head(toTarget).package /\ ValidateLiveHeader(package')
    BY <1>2 DEF LiveTypes, ReadHeader, Fails
  <2>2. phase' = "manifest" => package' \in Package
    BY <2>0, <2>1, MessageTypes
  <2>3. LiveTypes'
    BY <2>1, <2>2 DEF LiveTypes, PackagePhases
  <2>4. PackageChecked'
    BY <2>1, <2>2 DEF PackageChecked, PackagePhases
  <2>5. Placed'
    BY <2>1 DEF Placed
  <2>. QED
    BY <2>3, <2>4, <2>5
<1>3. CASE ReadConfirmation
  <2>1. /\ UNCHANGED <<hw, package, leftover, ram>> /\ phase = "confirm"
        /\ phase' \in {"confirm", "launch"}
    BY <1>3 DEF ReadConfirmation
  <2>2. LiveTypes' /\ PackageChecked'
    BY <2>1 DEF LiveTypes, PackageChecked, PackagePhases
  <2>3. Placed'
    BY <2>1 DEF Placed
  <2>. QED
    BY <2>2, <2>3
<1>. QED
  BY <1>1, <1>2, <1>3


(* The objects.                                                            *)
LEMMA ObjectStep ==
  ASSUME BaudTypes, PackageInv, UNCHANGED sent,
         ObjectFails \/ ReceiveManifest \/ ReceiveImage
  PROVE  PackageInv'
<1>. USE DEF PackageInv
<1>0. /\ phase \in {"manifest", "image"} /\ package \in Package /\ package.id \in Nat
      /\ ValidateLiveHeader(package)
  BY DEF ObjectFails, ReceiveManifest, ReceiveImage, PackageChecked, PackagePhases, Package
<1>1. ASSUME NEW from \in Int,
             \/ ram' = Write("manifest", Extent(ManifestBase, MaxManifest, from))
             \/ ram' = Write("image", Extent(StagingBase, FullImageSize, from))
      PROVE  /\ ram' \in [Names -> Ranges]
             /\ ram'["program"] = Extent(ProgramBase, ProgramBytes, Code)
             /\ ram'["vectors"] = Extent(0, ParamsBase, Vectors)
  <2>1. {"manifest", "image"} \subseteq Names \ {"program", "vectors"}
    BY DEF Names
  <2>2. CASE ram' = Write("manifest", Extent(ManifestBase, MaxManifest, from))
    BY <1>0, <2>1, <2>2, FixedKept, PlacesFixed
  <2>3. CASE ram' = Write("image", Extent(StagingBase, FullImageSize, from))
    BY <1>0, <2>1, <2>3, FixedKept, PlacesFixed
  <2>. QED
    BY <1>1, <2>2, <2>3
<1>2. CASE ObjectFails
  <2>1. Lost \in Int
    BY DEF Lost
  <2>2. /\ phase' = "command" /\ package' = NoPackage
        /\ leftover' \in {"none", "bytes", "start"}
        /\ \/ ram' = Write("manifest", Extent(ManifestBase, MaxManifest, Lost))
           \/ ram' = Write("image", Extent(StagingBase, FullImageSize, Lost))
    BY <1>2 DEF ObjectFails, Fails
  <2>. QED
    BY <1>1, <2>1, <2>2 DEF LiveTypes, PackageChecked, Placed, PackagePhases
<1>3. CASE ReceiveManifest
  <2>1. /\ ram' = Write("manifest", Extent(ManifestBase, MaxManifest, package.id))
        /\ leftover' \in {"none", "bytes", "start"}
        /\ \/ phase' = "image" /\ package' = package /\ ValidateLiveManifest(package)
           \/ phase' = "command" /\ package' = NoPackage
    BY <1>3 DEF ReceiveManifest, Fails, LiveTypes
  <2>2. package.id \in Int
    BY <1>0
  <2>. QED
    BY <1>0, <1>1, <2>1, <2>2 DEF LiveTypes, PackageChecked, Placed, PackagePhases
<1>4. CASE ReceiveImage
  <2>1. /\ ram' = Write("image", Extent(StagingBase, FullImageSize, package.id))
        /\ phase = "image" /\ phase' = "spim" /\ UNCHANGED <<package, leftover>>
    BY <1>4 DEF ReceiveImage
  <2>2. package.id \in Int /\ ValidateLiveManifest(package)
    BY <1>0, <2>1 DEF PackageChecked, PackagePhases
  <2>3. ram'["image"] = Extent(StagingBase, FullImageSize, package.id)
    <3>1. "image" \in Names \ {"program", "vectors"}
      BY DEF Names
    <3>. QED
      BY <1>0, <2>1, <2>2, <3>1, FixedKept, PlacesFixed
  <2>. QED
    BY <1>0, <1>1, <2>1, <2>2, <2>3 DEF LiveTypes, PackageChecked, Placed, PackagePhases
<1>. QED
  BY <1>2, <1>3, <1>4

(* The two copies and the parameters.                                      *)
LEMMA CopyKernelStep ==
  ASSUME BaudTypes, PackageInv, UNCHANGED sent, CopyKernel
  PROVE  PackageInv'
<1>. USE DEF PackageInv
<1>0. /\ phase = "spim" /\ package \in Package /\ package.id \in Nat
      /\ ValidateLiveHeader(package) /\ ValidateLiveManifest(package)
      /\ ram["image"] = Extent(StagingBase, FullImageSize, package.id)
      /\ ram["image"].from = package.id
  BY DEF CopyKernel, PackageChecked, PackagePhases, Package, Placed, Extent
<1>1. CASE UNCHANGED ram /\ Fails("none")
  BY <1>1 DEF Fails, LiveTypes, PackageChecked, Placed, PackagePhases
<1>2. CASE /\ SpimAccepted(package) /\ SquashfsAccepted(package)
           /\ phase' = "rootfs" /\ UNCHANGED <<package, leftover>>
           /\ ram' = Write("kernel", Extent(KernelDest, KernelCopy(package), ram["image"].from))
  <2>1. /\ KernelCopy(package) \in Nat /\ KernelDest + KernelCopy(package) <= StagingBase
    BY <1>0, <1>2, KernelFits
  <2>2. "kernel" \in Names \ {"program", "vectors"} /\ "image" \in Names \ {"kernel"}
    BY DEF Names
  <2>. DEFINE range == Extent(KernelDest, KernelCopy(package), package.id)
  <2>3. KernelDest \in Nat /\ KernelDest >= ParamsBase
        /\ KernelDest + KernelCopy(package) <= ProgramBase
    BY <1>0, <2>1, PlacesFixed
  <2>4. /\ ram' \in [Names -> Ranges] /\ ram'["kernel"] = range
        /\ ram'["program"] = Extent(ProgramBase, ProgramBytes, Code)
        /\ ram'["vectors"] = Extent(0, ParamsBase, Vectors)
        /\ ~Overlap(ram["image"], range) => ram'["image"] = ram["image"]
    BY <1>0, <1>2, <2>1, <2>2, <2>3, FixedKept
  <2>5. ~Overlap(ram["image"], range)
    BY <1>0, <2>1, PlacesFixed DEF Overlap, Extent
  <2>. QED
    BY <1>0, <1>2, <2>4, <2>5 DEF LiveTypes, PackageChecked, Placed, PackagePhases
<1>. QED
  BY <1>1, <1>2 DEF CopyKernel

LEMMA CopyRootfsStep ==
  ASSUME BaudTypes, PackageInv, UNCHANGED sent, CopyRootfs
  PROVE  PackageInv'
<1>. USE DEF PackageInv
<1>0. /\ phase = "rootfs" /\ package \in Package /\ package.id \in Nat
      /\ ValidateLiveHeader(package) /\ ValidateLiveManifest(package) /\ SpimAccepted(package)
      /\ SquashfsAccepted(package)
      /\ ram["image"].from = package.id /\ package.rootfs \in Nat
      /\ ram["kernel"] = Extent(KernelDest, KernelCopy(package), package.id)
      /\ ram' = Write("rootfs", Extent(RootfsDest, package.rootfs, package.id))
      /\ leftover' = leftover
  BY DEF CopyRootfs, PackageChecked, PackagePhases, Package, Placed, Extent
<1>. DEFINE range == Extent(RootfsDest, package.rootfs, package.id)
<1>1. "rootfs" \in Names \ {"program", "vectors"} /\ "kernel" \in Names \ {"rootfs"}
  BY DEF Names
<1>2. /\ RootfsDest \in Nat /\ RootfsDest >= ParamsBase
      /\ RootfsDest >= ProgramBase + ProgramBytes
  BY <1>0, PlacesFixed
<1>3. /\ ram' \in [Names -> Ranges] /\ ram'["rootfs"] = range
      /\ ram'["program"] = Extent(ProgramBase, ProgramBytes, Code)
      /\ ram'["vectors"] = Extent(0, ParamsBase, Vectors)
      /\ ~Overlap(ram["kernel"], range) => ram'["kernel"] = ram["kernel"]
  BY <1>0, <1>1, <1>2, FixedKept
<1>4. ~Overlap(ram["kernel"], range)
  BY <1>0, KernelFits, PlacesFixed DEF Overlap, Extent
<1>5. CASE package.dry
  <2>1. phase' = "command" /\ package' = NoPackage
    BY <1>5 DEF CopyRootfs
  <2>. QED
    BY <1>0, <1>3, <2>1 DEF LiveTypes, PackageChecked, Placed, PackagePhases
<1>6. CASE ~package.dry
  <2>1. phase' = "confirm" /\ package' = package
    BY <1>6 DEF CopyRootfs
  <2>. QED
    BY <1>0, <1>3, <1>4, <1>6, <2>1 DEF LiveTypes, PackageChecked, Placed, PackagePhases
<1>. QED
  BY <1>5, <1>6

LEMMA LaunchStep ==
  ASSUME BaudTypes, PackageInv, UNCHANGED sent, Launch
  PROVE  PackageInv'
<1>. USE DEF PackageInv
<1>0. /\ phase = "launch" /\ package \in Package /\ package.id \in Nat
      /\ ValidateLiveHeader(package) /\ ValidateLiveManifest(package) /\ SpimAccepted(package)
      /\ SquashfsAccepted(package) /\ package.rootfs \in Nat /\ ~package.dry
      /\ ram["kernel"] = Extent(KernelDest, KernelCopy(package), package.id)
      /\ ram["rootfs"] = Extent(RootfsDest, package.rootfs, package.id)
  BY DEF Launch, PackageChecked, PackagePhases, Package, Placed
<1>1. ParamsFit(package.model)
  BY <1>0, ModelsAssumption DEF ValidateLiveHeader
<1>2. /\ phase' = "linux" /\ hw' = Baseline /\ UNCHANGED <<package, leftover>>
      /\ ram' = Write("params", Extent(ParamsBase, ParamsBytes, package.id))
  BY <1>1 DEF Launch
<1>. DEFINE range == Extent(ParamsBase, ParamsBytes, package.id)
<1>3. /\ "params" \in Names \ {"program", "vectors"}
      /\ "kernel" \in Names \ {"params"} /\ "rootfs" \in Names \ {"params"}
  BY DEF Names
<1>4. /\ ParamsBase \in Nat /\ ParamsBytes \in Nat /\ ParamsBase + ParamsBytes <= KernelDest
      /\ KernelDest <= ProgramBase /\ ProgramBase \in Nat /\ KernelDest \in Nat
      /\ RootfsDest \in Nat /\ RootfsDest >= ProgramBase + ProgramBytes /\ ProgramBytes \in Nat
  BY <1>0, PlacesFixed
<1>5. /\ ram' \in [Names -> Ranges] /\ ram'["params"] = range
      /\ ram'["program"] = Extent(ProgramBase, ProgramBytes, Code)
      /\ ram'["vectors"] = Extent(0, ParamsBase, Vectors)
      /\ ~Overlap(ram["kernel"], range) => ram'["kernel"] = ram["kernel"]
      /\ ~Overlap(ram["rootfs"], range) => ram'["rootfs"] = ram["rootfs"]
  BY <1>0, <1>2, <1>3, <1>4, FixedKept
<1>6. ~Overlap(ram["kernel"], range) /\ ~Overlap(ram["rootfs"], range)
  BY <1>0, <1>4, KernelFits DEF Overlap, Extent
<1>. QED
  BY <1>0, <1>2, <1>5, <1>6 DEF LiveTypes, PackageChecked, Placed, PackagePhases

(* A trial writes its test data, and nothing of a package is at hand.      *)
LEMMA TrialStep ==
  ASSUME BaudTypes, DivisorKnown, Shared, PackageInv, BaudStep
  PROVE  PackageInv'
<1>. USE DEF PackageInv
<1>1. phase' \in TrialPhases \union {"command"}
  BY TargetStep DEF BaudStep
<1>2. UNCHANGED <<package, leftover, sent>>
  BY DEF BaudStep
<1>3. /\ ram' \in [Names -> Ranges]
      /\ ram'["program"] = Extent(ProgramBase, ProgramBytes, Code)
      /\ ram'["vectors"] = Extent(0, ParamsBase, Vectors)
  <2>1. CASE ram' = ram
    BY <2>1 DEF LiveTypes, Placed
  <2>2. CASE ram' = Write("test", Extent(TestBase, TestBytes, Trial))
    <3>1. "test" \in Names \ {"program", "vectors"} /\ Trial \in Int
      BY DEF Names, Trial
    <3>2. /\ TestBase \in Nat /\ TestBytes \in Nat /\ TestBase >= ParamsBase
          /\ TestBase + TestBytes <= ProgramBase
      BY SMT DEF TestBase, TestBytes, ManifestBase, MaxManifest, StagingBase, FullImageSize,
         ParamsBase, ProgramBase
    <3>. QED
      BY <2>2, <3>1, <3>2, FixedKept
  <2>. QED
    BY <2>1, <2>2 DEF BaudStep
<1>. QED
  BY <1>1, <1>2, <1>3 DEF LiveTypes, PackageChecked, Placed, TrialPhases, PackagePhases

-----------------------------------------------------------------------------
(* The invariant.                                                          *)

LEMMA Initially == Init => IInv
<1>. SUFFICES ASSUME Init PROVE IInv
  OBVIOUS
<1>1. BaudTypes
  <2>1. /\ hw \in Rates /\ current \in Rates
        /\ toTarget \in Seq(Message) /\ toHost \in Seq(Message)
    BY BaudAssumption DEF Init, BaudInit
  <2>2. trial \in Trials /\ orphaned \in BOOLEAN
    BY NoTrialTypes DEF Init, BaudInit
  <2>3. host \in Hosts
    BY BaudAssumption DEF Init, BaudInit, Hosts
  <2>. QED
    BY <2>1, <2>3, <2>2 DEF BaudTypes
<1>2. LiveTypes
  <2>1. \A o \in Names : ram[o] \in Ranges
    BY SMT DEF Init, Ranges, Extent, Names, ParamsBase, ProgramBase, ProgramBytes, Vectors,
       Code, Lost
  <2>. QED
    BY <2>1 DEF Init, BaudInit, LiveTypes
<1>3. DivisorKnown
  BY NoTrialTypes DEF Init, BaudInit, DivisorKnown, TrialPhases
<1>4. Shared
  BY NoTrialTypes DEF Init, BaudInit, Shared, NoncesGrow, TrialShared, CommitShared,
     InOrder, HostTrial, AtTrialRate
<1>5. PackageChecked /\ Placed
  BY DEF Init, BaudInit, PackageChecked, Placed, PackagePhases, Names
<1>. QED
  BY <1>1, <1>2, <1>3, <1>4, <1>5 DEF IInv

LEMMA Inductive == IInv /\ [Next]_vars => IInv'
<1>. SUFFICES ASSUME IInv, [Next]_vars PROVE IInv'
  OBVIOUS
<1>0. /\ BaudTypes /\ LiveTypes /\ DivisorKnown /\ Shared /\ PackageChecked /\ Placed
      /\ PackageInv /\ sent \in Nat
  BY DEF IInv, PackageInv, LiveTypes
<1>1. CASE LiveTarget
  <2>1. Shared' /\ BaudTypes' /\ DivisorKnown' /\ UNCHANGED sent
    BY <1>0, <1>1, PackageQuiet, QuietInv
  <2>2. PackageInv'
    BY <1>0, <1>1, <2>1, ListeningStep, ObjectStep, CopyKernelStep, CopyRootfsStep, LaunchStep
       DEF LiveTarget
  <2>. QED
    BY <2>1, <2>2 DEF IInv, PackageInv
<1>2. CASE BaudStep
  BY <1>0, <1>2, TargetStep, TrialStep DEF BaudStep, IInv, PackageInv
<1>3. CASE Host
  <2>1. BaudTypes' /\ Shared' /\ sent' \in Nat
    BY <1>0, <1>3, HostStep
  <2>2. UNCHANGED <<phase, hw, current, trial, package, leftover, ram>>
    BY <1>3 DEF Host
  <2>. QED
    BY <1>0, <2>1, <2>2 DEF IInv, LiveTypes, DivisorKnown, PackageChecked, Placed
<1>4. CASE Environ
  <2>1. BaudTypes' /\ Shared'
    BY <1>0, <1>4, EnvironStep
  <2>2. UNCHANGED <<phase, hw, current, trial, package, leftover, ram, sent>>
    BY <1>0, <1>4, EnvironStep DEF TargetKept, Environ, liveVars
  <2>. QED
    BY <1>0, <2>1, <2>2 DEF IInv, LiveTypes, DivisorKnown, PackageChecked, Placed
<1>5. CASE UNCHANGED vars
  BY <1>0, <1>5 DEF vars, baudVars, liveVars, IInv, BaudTypes, LiveTypes, DivisorKnown, Shared,
     NoncesGrow, TrialShared, CommitShared, InOrder, Prepares, Passed, Kept,
     PackageChecked, Placed
<1>. QED
  BY <1>1, <1>2, <1>3, <1>4, <1>5 DEF Next, Target

LEMMA Invariant == Spec => []IInv
BY Initially, Inductive, PTL DEF Spec

(* The types of the live boot payload; its phases are those of the code, and
   both the invitations and the announcements of the old rate are counted
   up to their bounds.                                                     *)
THEOREM TypeCorrect == Spec => []TypeOK
<1>1. IInv => TypeOK
  BY DEF IInv, BaudTypes, LiveTypes, DivisorKnown, TypeOK, TrialPhases, PackagePhases
<1>. QED
  BY <1>1, Invariant, PTL

(* Lines may be lost and either side may give up at any point of any number
   of trials: with nothing under way, both ends run at one rate, except
   after the host left without the answer to its BAUD-COMMIT.              *)
THEOREM EndsAgree == Spec => []RatesAgree
<1>1. IInv => RatesAgree
  BY DEF IInv, Shared, DivisorKnown, TrialShared, CommitShared, RatesAgree, TrialPhases,
     HostTrial, AtTrialRate
<1>. QED
  BY <1>1, Invariant, PTL

(* The target keeps a new rate only in the trial the host committed to.    *)
THEOREM KeptRateProven == Spec => RateProven
<1>1. IInv /\ [Next]_vars =>
        [current' # current => host.agreed = trial.nonce /\ current' = hw]_baudVars
  <2>. SUFFICES ASSUME IInv, [Next]_vars, current' # current
                PROVE  host.agreed = trial.nonce /\ current' = hw
    OBVIOUS
  <2>1. CASE LiveTarget
    BY <2>1, PackageQuiet DEF IInv, Quiet
  <2>2. CASE BaudStep
    BY <2>2, TargetStep DEF BaudStep, IInv
  <2>3. CASE Host
    BY <2>3 DEF Host
  <2>4. CASE Environ
    BY <2>4, EnvironStep DEF IInv, TargetKept
  <2>5. CASE UNCHANGED vars
    BY <2>5 DEF vars, baudVars
  <2>. QED
    BY <2>1, <2>2, <2>3, <2>4, <2>5 DEF Next, Target
<1>. QED
  BY <1>1, Invariant, PTL DEF Spec, RateProven

(* No copy lands on its source, and the program survives all of them.      *)
THEOREM CopiesApart == Spec => []SourcesIntact
<1>1. IInv => SourcesIntact
  BY DEF IInv, Placed, SourcesIntact, Extent
<1>. QED
  BY <1>1, Invariant, PTL

(* Linux is entered only with what the checks accepted, intact and inside
   its memory, at the baseline rate.                                       *)
THEOREM LinuxEntered == Spec => []LaunchSound
<1>1. ASSUME IInv PROVE LaunchSound
  <2>1. phase # "halted"
    BY <1>1 DEF IInv, LiveTypes, TrialPhases, PackagePhases
  <2>2. CASE phase = "linux"
    <3>1. /\ package \in Package /\ ValidateLiveHeader(package) /\ ValidateLiveManifest(package)
          /\ SpimAccepted(package) /\ ~package.dry /\ hw = Baseline
          /\ ram["kernel"] = Extent(KernelDest, KernelCopy(package), package.id)
          /\ ram["rootfs"] = Extent(RootfsDest, package.rootfs, package.id)
          /\ ram["params"] = Extent(ParamsBase, ParamsBytes, package.id)
          /\ ram["vectors"] = Extent(0, ParamsBase, Vectors)
      BY <1>1, <2>2 DEF IInv, PackageChecked, Placed, PackagePhases
    <3>2. KernelCopy(package) \in Nat /\ KernelDest + KernelCopy(package) <= LinuxMemory
      BY <3>1, KernelFits
    <3>3. RootfsDest + package.rootfs <= LinuxMemory
      <4>1. package.rootfs \in 1..RootfsMax
        BY <3>1 DEF ValidateLiveManifest
      <4>2. package.rootfs \in Nat /\ package.rootfs <= RootfsMax
        <5>1. RootfsMax \in Nat
          BY SMT DEF RootfsMax
        <5>. QED
          BY <4>1, <5>1
      <4>3. RootfsMax = \h800000 /\ RootfsDest = \h7000000 /\ LinuxMemory = \h7800000
        BY SMT DEF RootfsDest, RootfsMax, LinuxMemory
      <4>. QED
        BY <4>2, <4>3, SMT
    <3>4. ParamsBase + ParamsBytes <= LinuxMemory
      BY SMT DEF ParamsBase, ParamsBytes, LinuxMemory
    <3>5. /\ KernelDest <= package.entry /\ package.entry < KernelDest + KernelCopy(package)
      <4>1. package.entry \in KernelDest..(KernelDest + KernelCopy(package) - 1)
        BY <3>1 DEF SpimAccepted
      <4>2. KernelDest \in Nat
        BY <3>1, PlacesFixed
      <4>. QED
        BY <3>2, <4>1, <4>2
    <3>6. \A o \in {"kernel", "rootfs", "params"} :
            ram[o].from = package.id /\ ram[o].hi <= LinuxMemory
      BY <3>1, <3>2, <3>3, <3>4 DEF Extent
    <3>7. /\ ram["kernel"].lo <= package.entry /\ package.entry < ram["kernel"].hi
          /\ ram["vectors"].from = Vectors
      BY <3>1, <3>5 DEF Extent
    <3>8. /\ package.model \in Models /\ package.status # "known-incompatible"
          /\ (package.status = "untested" => package.force)
      BY <3>1 DEF ValidateLiveHeader, ValidateLiveManifest, ModelPermitted
    <3>. QED
      BY <2>2, <3>1, <3>6, <3>7, <3>8 DEF LaunchSound
  <2>. QED
    BY <2>1, <2>2 DEF LaunchSound
<1>. QED
  BY <1>1, Invariant, PTL
-----------------------------------------------------------------------------
(* A live boot is an installation: what each phase shows of it.            *)

Shown ==
  CASE phase = "confirm" -> "offered"
    [] phase = "launch" -> "agreed"
    [] phase = "linux" -> "done"
    [] OTHER -> "idle"

From(o) == ram[o].from
Holds(id) ==
  /\ From("vectors") = Vectors /\ From("program") = Code
  /\ From("kernel") = id /\ From("rootfs") = id /\ From("params") = id

(* Vectors and program hold what they did, before a step and after it.     *)
FixedHeld ==
  From("vectors") = Vectors /\ From("program") = Code

LEMMA PackageFit ==
  ASSUME NEW p \in Package, ValidateLiveHeader(p), ValidateLiveManifest(p),
         SpimAccepted(p), SquashfsAccepted(p), ~p.dry
  PROVE  Fit(p)
<1>1. p.header /\ p.model \in Models
  BY DEF ValidateLiveHeader
<1>2. /\ p.manifest /\ p.rootfs \in 1..RootfsMax
      /\ p.status \in {"validated", "confirmed"} \/ (p.status = "untested" /\ p.force)
  BY DEF ValidateLiveManifest, ModelPermitted
<1>3. p.kernelCrc /\ p.size \in 1..(KernelSlot - SpimHeader)
  BY DEF SpimAccepted
<1>4. p.squashfs /\ p.used \in 96..p.rootfs
  BY DEF SquashfsAccepted
<1>5. p.rootfs \in Nat /\ RootfsMax \in Nat
  BY SMT DEF Package, RootfsMax
<1>6. p.used <= p.rootfs /\ p.rootfs <= RootfsMax
  BY <1>2, <1>4, <1>5
<1>. QED
  BY <1>1, <1>2, <1>3, <1>4, <1>6 DEF Fit

Installs == Install!Next \/ UNCHANGED Install!vars

(* What has to be seen of a step for it to be one of the installation.      *)
LEMMA Installation ==
  ASSUME FixedHeld, FixedHeld'
  PROVE  /\ Shown = "idle" /\ Shown' = "idle" => Installs
         /\ Shown = "idle" /\ Shown' = "offered" /\ package' \in Package /\ Fit(package') => Installs
         /\ Shown = "offered" /\ Shown' = "agreed" /\ UNCHANGED <<package, ram>> => Installs
         /\ /\ Shown = "agreed" /\ Shown' = "done"
            /\ package' = package /\ package \in Package /\ Holds(package.id)'
            => Installs
         /\ Shown' = Shown /\ UNCHANGED <<package, ram>> => Installs
<1>0. \A o \in {"vectors", "program"} :
        [d \in Device |-> ram[d].from]'[o] = [d \in Device |-> ram[d].from][o]
  BY DEF FixedHeld, From, Device
<1>1. Shown = "idle" /\ Shown' = "idle" => Install!Await
  BY <1>0 DEF Shown, Install!Await, Install!Kept
<1>2. Shown = "idle" /\ Shown' = "offered" /\ package' \in Package /\ Fit(package')
        => Install!Make
  BY <1>0 DEF Shown, Install!Make, Install!Kept
<1>3. Shown = "offered" /\ Shown' = "agreed" /\ UNCHANGED <<package, ram>> => Install!Agree
  BY DEF Shown, Install!Agree
<1>4. ASSUME Shown = "agreed", Shown' = "done",
             package' = package, package \in Package, Holds(package.id)'
      PROVE  Install!Finish
  <2>1. /\ ram'["vectors"].from = Vectors /\ ram'["program"].from = Code
        /\ ram'["kernel"].from = package.id /\ ram'["rootfs"].from = package.id
        /\ ram'["params"].from = package.id
    BY <1>4 DEF Holds, From
  <2>. QED
    BY <1>4, <2>1 DEF Shown, Install!Finish, Device
<1>5. Shown' = Shown /\ UNCHANGED <<package, ram>> => UNCHANGED Install!vars
  BY DEF Shown, Install!vars
<1>. QED
  BY <1>1, <1>2, <1>3, <1>4, <1>5 DEF Installs, Install!Next

LEMMA InstallStep == IInv /\ [Next]_vars => Installs
<1>. SUFFICES ASSUME IInv, [Next]_vars PROVE Installs
  OBVIOUS
<1>0. /\ BaudTypes /\ LiveTypes /\ DivisorKnown /\ Shared /\ PackageChecked /\ Placed
  BY DEF IInv
<1>1. PackageChecked' /\ Placed' /\ LiveTypes'
  BY Inductive DEF IInv
<1>2. FixedHeld /\ FixedHeld'
  BY <1>0, <1>1 DEF FixedHeld, From, Placed, Extent
<1>3. CASE UNCHANGED <<phase, package, ram>>
  <2>1. Shown' = Shown
    BY <1>3 DEF Shown
  <2>. QED
    BY <1>2, <1>3, <2>1, Installation
<1>4. CASE BaudStep
  <2>1. phase' \in TrialPhases \union {"command"}
    BY <1>0, <1>4, TargetStep DEF BaudStep
  <2>2. phase \in TrialPhases \union {"command"}
    BY <1>4 DEF BaudStep, BaudTarget, Prepare, SwitchRate, SyncAnswered, SyncTimeout, HostData,
         TargetDataAcked, Commit, TrialTimeout, Beacon, TrialPhases
  <2>3. Shown = "idle" /\ Shown' = "idle"
    BY <2>1, <2>2 DEF Shown, TrialPhases
  <2>. QED
    BY <1>2, <2>3, Installation
<1>5. CASE CommandSpoilt \/ LiveCommand \/ ReadHeader \/ HeaderTimeout \/ ObjectFails
             \/ ReceiveManifest \/ ReceiveImage \/ CopyKernel \/ SpoiltTrial
  <2>1. /\ phase \in {"command", "header", "manifest", "image", "spim", "h2t"}
        /\ phase' \in {"command", "header", "manifest", "image", "spim", "rootfs", "fallback"}
    BY <1>5 DEF CommandSpoilt, LiveCommand, ReadHeader, HeaderTimeout, ObjectFails,
         ReceiveManifest, ReceiveImage, CopyKernel, SpoiltTrial, Fails, FallBack
  <2>2. Shown = "idle" /\ Shown' = "idle"
    BY <2>1 DEF Shown
  <2>. QED
    BY <1>2, <2>2, Installation
<1>6. CASE CopyRootfs
  <2>1. phase = "rootfs" /\ phase' \in {"command", "confirm"}
    BY <1>6 DEF CopyRootfs
  <2>2. Shown = "idle"
    BY <2>1 DEF Shown
  <2>3. CASE phase' = "command"
    <3>1. Shown' = "idle"
      BY <2>3 DEF Shown
    <3>. QED
      BY <1>2, <2>2, <3>1, Installation
  <2>4. CASE phase' = "confirm"
    <3>1. Shown' = "offered"
      BY <2>4 DEF Shown
    <3>2. /\ package' \in Package /\ ValidateLiveHeader(package') /\ ValidateLiveManifest(package')
          /\ SpimAccepted(package') /\ SquashfsAccepted(package') /\ ~package'.dry
      BY <1>1, <2>4 DEF PackageChecked, PackagePhases
    <3>3. Fit(package')
      BY <3>2, PackageFit
    <3>. QED
      BY <1>2, <2>2, <3>1, <3>2, <3>3, Installation
  <2>. QED
    BY <2>1, <2>3, <2>4
<1>7. CASE ReadConfirmation
  <2>1. phase = "confirm" /\ phase' \in {"confirm", "launch"} /\ UNCHANGED <<package, ram>>
    BY <1>7 DEF ReadConfirmation
  <2>2. CASE phase' = "confirm"
    BY <1>3, <2>1, <2>2
  <2>3. CASE phase' = "launch"
    <3>1. Shown = "offered" /\ Shown' = "agreed"
      BY <2>1, <2>3 DEF Shown
    <3>. QED
      BY <1>2, <2>1, <3>1, Installation
  <2>. QED
    BY <2>1, <2>2, <2>3
<1>8. CASE Launch
  <2>1. phase = "launch" /\ package' = package /\ package \in Package /\ ValidateLiveHeader(package)
    BY <1>0, <1>8 DEF Launch, PackageChecked, PackagePhases
  <2>2. phase' = "linux"
    BY <1>8, <2>1, ModelsAssumption DEF Launch, ValidateLiveHeader
  <2>3. Shown = "agreed" /\ Shown' = "done"
    BY <2>1, <2>2 DEF Shown
  <2>4. Holds(package.id)'
    BY <1>1, <2>1, <2>2 DEF Placed, Holds, From, Extent
  <2>. QED
    BY <1>2, <2>1, <2>3, <2>4, Installation
<1>9. CASE Host \/ Environ \/ UNCHANGED vars
  <2>1. UNCHANGED <<phase, package, ram>>
    BY <1>0, <1>9, EnvironStep DEF Host, Environ, liveVars, vars, baudVars, TargetKept
  <2>. QED
    BY <1>3, <2>1
<1>. QED
  BY <1>4, <1>5, <1>6, <1>7, <1>8, <1>9 DEF Next, Target, LiveTarget

(* The payload implements the installation, of Linux in RAM: only a package
   that passed every check is put to the operator, Linux runs only after the
   answer to that challenge, with kernel, file system and parameters of that
   package in place, and no step before touches vectors or program.        *)
THEOREM LiveInstalls == Spec => ImplementsInstall
<1>1. Init => Install!Init
  BY DEF Init, BaudInit, Install!Init
<1>2. IInv /\ [Next]_vars => [Install!Next]_Install!vars
  BY InstallStep DEF Installs
<1>. QED
  BY <1>1, <1>2, Invariant, PTL DEF Spec, ImplementsInstall, Install!Spec
=============================================================================
