-------------------------- MODULE ConfirmedInstall --------------------------
(***************************************************************************)
(* What both payloads promise, without saying how: a device gets new       *)
(* contents only after an offer that was checked and found permitted has   *)
(* been agreed to, the offer agreed to is the one that was made, and an    *)
(* installation counts as done only when the device holds exactly what the *)
(* offer asks for.  As long as nothing is agreed a protected part of the   *)
(* device stays as it is.                                                  *)
(***************************************************************************)
CONSTANTS
  Offers,      \* what may be offered for installation
  Wanted,      \* function from offers to the contents they ask for
  Protected    \* the part of the device that only an installation touches

VARIABLES
  step,        \* "idle", "offered", "agreed" or "done"
  offer,       \* what was received last
  device       \* contents of the device

vars == <<step, offer, device>>

Kept == \A part \in Protected : device'[part] = device[part]

Init == step = "idle"

(* Offers are received, refused and replaced, and the rest of the device may
   be tried out.                                                           *)
Await ==
  /\ step = "idle" /\ step' = "idle"
  /\ Kept

(* An offer that passed every check is put to the operator.                *)
Make ==
  /\ step = "idle" /\ step' = "offered"
  /\ offer' \in Offers
  /\ Kept

(* The operator agrees to that offer, to nothing else.                     *)
Agree ==
  /\ step = "offered" /\ step' = "agreed"
  /\ UNCHANGED <<offer, device>>

(* The device is being rewritten, and may go wrong.                        *)
Change ==
  /\ step = "agreed" /\ step' = "agreed"
  /\ UNCHANGED offer

(* Success is claimed only for the contents the offer asks for.            *)
Finish ==
  /\ step = "agreed" /\ step' = "done"
  /\ UNCHANGED offer
  /\ device' = Wanted[offer]

(* Nothing is agreed, or the installation is broken off half-way.          *)
GiveUp ==
  /\ step' = "idle"
  /\ \/ step = "offered" /\ UNCHANGED device
     \/ step = "agreed"

(* The next start leaves what was installed.                               *)
Leave ==
  /\ step = "done" /\ step' = "idle"
  /\ UNCHANGED device

Next == Await \/ Make \/ Agree \/ Change \/ Finish \/ GiveUp \/ Leave

Spec == Init /\ [][Next]_vars
=============================================================================
