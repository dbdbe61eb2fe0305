-------------------------- MODULE ManifestReference --------------------------
(* What a manifest means, against which ManifestText is checked: documents
   as trees, how they are written, and what each of their members is.      *)
EXTENDS ManifestText

CONSTANTS
  Characters,  \* the bytes of texts
  Values,      \* trees that are considered, with all their parts
  Gaps,        \* white space around a whole manifest
  Keys,        \* keys that are looked for
  Sizes        \* sizes of the buffers for texts

VARIABLE
  node         \* history: the object that text stands for

manifestVars == <<text, node>>

-----------------------------------------------------------------------------
(* How a tree is written.  Each one has its text with it, and a list or an
   object the white space that stands around the marks in it.              *)

Texts == Seq(Characters)
Special == {Quote, "\\"}
Blanks == Seq({" "})

(* What has been written after each of the parts.                          *)
Fronts(parts) ==
  LET front[n \in 0..Len(parts)] == IF n = 0 THEN <<>> ELSE front[n - 1] \o parts[n]
  IN front
Joined(parts) == Fronts(parts)[Len(parts)]

Escape(c) == IF c \in Special THEN <<"\\", c>> ELSE <<c>>
Escapes(bytes) == [i \in 1..Len(bytes) |-> Escape(bytes[i])]
Quoted(bytes) == <<Quote>> \o Joined(Escapes(bytes)) \o <<Quote>>

(* The parts, each with white space around it, and commas between them.    *)
Part(gap, i, part) == (IF i = 1 THEN <<>> ELSE <<",">>) \o gap \o part \o gap

ItemParts(v) == [i \in 1..Len(v.items) |-> Part(v.gap, i, v.items[i].text)]
Items(v) == Joined(ItemParts(v)) \o v.gap

Member(gap, m) == Quoted(m.key) \o gap \o <<":">> \o gap \o m.value.text
MemberParts(v) == [i \in 1..Len(v.members) |-> Part(v.gap, i, Member(v.gap, v.members[i]))]
Members(v) == Joined(MemberParts(v)) \o v.gap

IsText(v) ==
  v.kind = "text" /\ v.bytes \in Texts /\ v.text = Quoted(v.bytes)
IsNumber(v) ==
  /\ v.kind = "number" /\ v.digits \in Seq(DOMAIN Digit) /\ v.digits # <<>>
  /\ v.text = v.digits
IsTrue(v) == v.kind = "true" /\ v.text = <<"t", "r", "u", "e">>
IsListOf(v, values) ==
  /\ v.kind = "list" /\ v.gap \in Blanks /\ v.items \in Seq(values)
  /\ v.text = <<"[">> \o Items(v) \o <<"]">>
IsObjectOf(v, values) ==
  /\ v.kind = "object" /\ v.gap \in Blanks
  /\ v.members \in Seq([key : Texts, value : values])
  /\ v.text = <<"{">> \o Members(v) \o <<"}">>

(* Trees, and with each one its parts.                                     *)
AreTrees(values) ==
  \A v \in values :
    /\ v.text \in Texts
    /\ IsText(v) \/ IsNumber(v) \/ IsTrue(v) \/ IsListOf(v, values) \/ IsObjectOf(v, values)

ASSUME CharactersAssumption ==
  DOMAIN Digit \union {Quote, "\\", "{", "}", "[", "]", ",", ":", " ", "t", "r", "u", "e"}
    \subseteq Characters
ASSUME ValuesAssumption == AreTrees(Values)

(* The program looks for keys that need no escapes.                        *)
ASSUME ReadersAssumption ==
  /\ \A key \in Keys : key \in Texts /\ \A i \in 1..Len(key) : key[i] \notin Special
  /\ Gaps \subseteq Blanks /\ Sizes \subseteq Nat

-----------------------------------------------------------------------------
(* What it means.                                                          *)

Missing == [kind |-> "missing"]

(* The first member with this key.                                         *)
MemberOf(v, key) ==
  LET n == First({i \in 1..Len(v.members) : v.members[i].key = key})
  IN IF n = 0 THEN Missing ELSE v.members[n].value

Number(digits) ==
  LET value[n \in 0..Len(digits)] == IF n = 0 THEN 0 ELSE value[n - 1] * 10 + Digit[digits[n]]
  IN value[Len(digits)]

(* A text that a buffer of so many bytes can hold as it is written.        *)
Readable(v, most) ==
  v.kind = "text" /\ Len(v.bytes) <= most /\ \A i \in 1..Len(v.bytes) : v.bytes[i] \notin Special

HasText(v, expected) ==
  /\ v.kind = "list"
  /\ \E n \in 1..Len(v.items) :
       /\ v.items[n].kind = "text" /\ v.items[n].bytes = expected
       /\ \A i \in 1..n : Readable(v.items[i], LongText)

ManifestInit ==
  /\ node \in {v \in Values : v.kind = "object"}
  /\ \E before, after \in Gaps : text = before \o node.text \o after

ManifestNext ==
  \E key \in Keys : Descend(key) /\ node' = MemberOf(node, key)

ManifestSpec == ManifestInit /\ [][ManifestNext]_manifestVars
-----------------------------------------------------------------------------
(* Whatever stands before it, and whatever texts look like keys and braces,
   each reader gives the direct member of that name, if it is of the kind
   it reads, and nothing otherwise.  A number beyond 32 bits is the one
   exception: it may be refused or come out modulo the word.               *)
MembersRead ==
  \A key \in Keys :
    LET v == MemberOf(node, key) IN
    /\ \A size \in Sizes :
         StringValue(text, key, size) =
           IF Readable(v, size - 1) THEN Some(v.bytes) ELSE None
    /\ IF v.kind = "number"
         THEN Number(v.digits) < Word => U32Value(text, key) = Some(Number(v.digits))
         ELSE U32Value(text, key) = None
    /\ TrueValue(text, key) <=> v.kind = "true"
    /\ \A expected \in Keys : ArrayContainsString(text, key, expected) <=> HasText(v, expected)
    /\ ObjectValue(text, key) =
         IF v.kind = "object" THEN Some(Members(v)) ELSE None
=============================================================================
