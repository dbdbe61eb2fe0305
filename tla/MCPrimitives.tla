----------------------------- MODULE MCPrimitives -----------------------------
(* The timer, the decoder or the manifest readers, one at a time, for TLC. *)
EXTENDS PmosTimer, Lz4Reference, MCManifest, SequencesExt

MCByte == 0..3

Sequences(literals, backs, copies) ==
  [literals : literals, back : backs, copy : copies, last : {FALSE}]

Lasts(literals) == [literals : literals, back : {0}, copy : 0..1, last : {TRUE}]

(* Every list a block of up to seven bytes can be written from.            *)
MCShort ==
  LET texts == SeqOf(MCByte, 4)
      copies == Sequences(SeqOf(MCByte, 3), 0..3, 0..6)
  IN {<<l>> : l \in Lasts(texts)} \union {<<c>> : c \in copies}
       \union {<<c, l>> : c \in copies, l \in Lasts({<<>>})}

(* Two copies, with long lengths and far offsets among them.               *)
MCLong ==
  LET texts == {[i \in 1..n |-> i % 4] : n \in {0, 1, 4, 5}}
      copies == Sequences(texts, {1, 2, 3, 6}, {0, 1, 4})
  IN {<<c, d>> : c, d \in copies}
       \union {<<c, d, l>> : c, d \in copies, l \in Lasts({<<>>, <<2>>})}

MCLists == MCShort \union MCLong

MCBlocks ==
  (SeqOf(MCByte, 7) \ {<<>>}) \union {Encode(list) : list \in MCLong}

Idle == /\ source = <<>> /\ si = 0 /\ output = <<>> /\ phase = "idle"
        /\ token = 0 /\ length = 0 /\ offset = 0
Stopped == ticks = 0 /\ TimerStart(0)
Nothing == text = <<>> /\ node = AnObject(<<>>, <<>>)

Init ==
  \/ TimerInit /\ Idle /\ Nothing
  \/ BlockInit /\ Stopped /\ Nothing
  \/ ManifestInit /\ Idle /\ Stopped

Next ==
  \/ phase = "idle" /\ text = <<>> /\ TimerNext /\ UNCHANGED <<blockVars, manifestVars>>
  \/ BlockNext /\ UNCHANGED <<timerVars, manifestVars>>
  \/ ManifestNext /\ UNCHANGED <<blockVars, timerVars>>

Spec == Init /\ [][Next]_<<timerVars, blockVars, manifestVars>>
=============================================================================
