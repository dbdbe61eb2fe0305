--------------------------- MODULE VerifiedUpload ---------------------------
(***************************************************************************)
(* What the stage-1 RAM loader promises, without saying how: an upload     *)
(* fills memory from the front, may be given up at any time, and only a    *)
(* memory that holds exactly the announced image is ever executed.         *)
(***************************************************************************)
EXTENDS Naturals, Sequences

CONSTANT Image   \* the image the upload header announces (size and digest)

VARIABLES
  stage,         \* "idle", "receiving" or "running"
  content        \* what this upload has put in memory so far

vars == <<stage, content>>

Init == stage = "idle" /\ content = <<>>

(* A valid header opens an upload into an empty destination.               *)
Begin ==
  /\ stage = "idle"
  /\ stage' = "receiving"
  /\ content' = <<>>

(* Memory only grows at the end: what was stored is never rewritten.       *)
Extend ==
  /\ stage = "receiving"
  /\ Len(content) < Len(content')
  /\ Len(content') <= Len(Image)
  /\ \A i \in 1..Len(content) : content'[i] = content[i]
  /\ UNCHANGED stage

(* An upload may be abandoned for any reason.                              *)
Discard ==
  /\ stage = "receiving"
  /\ stage' = "idle"
  /\ content' = <<>>

(* Execution starts from the announced image and from nothing else.        *)
Run ==
  /\ stage = "receiving"
  /\ content = Image
  /\ stage' = "running"
  /\ UNCHANGED content

(* A payload may return to the loader, which then waits for a new upload.  *)
Return ==
  /\ stage = "running"
  /\ stage' = "idle"
  /\ content' = <<>>

Next == Begin \/ Extend \/ Discard \/ Run \/ Return

Spec == Init /\ [][Next]_vars
=============================================================================
