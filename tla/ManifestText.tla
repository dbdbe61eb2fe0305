---------------------------- MODULE ManifestText ----------------------------
(***************************************************************************)
(* The readers of the manifest, shared by the recovery and the live boot   *)
(* payload (json_object_value and the like).  They build no tree: a value  *)
(* is found by scanning the text of an object for its direct members, and  *)
(* an object in it is again a text, the one between its braces.            *)
(*                                                                         *)
(* Texts are sequences of bytes, positions count from 1, and no position   *)
(* is 0.  One kind of white space stands for all four.                     *)
(***************************************************************************)
EXTENDS Integers, Sequences, FiniteSetsExt, Functions

CONSTANTS
  Word,        \* numbers are read modulo this (2^32)
  LongText     \* the longest text an element of a list may have (47)

ASSUME TextAssumption == Word \in Nat \ {0} /\ LongText \in Nat

VARIABLE text  \* the text of the object at hand

(* What a reader gives: "return 0", or a value.                            *)
None == [found |-> FALSE]
Some(v) == [found |-> TRUE, value |-> v]
Quote == "\""
Digit == [c \in {"0", "1", "2", "3", "4", "5", "6", "7", "8", "9"} |->
            CASE c = "0" -> 0 [] c = "1" -> 1 [] c = "2" -> 2 [] c = "3" -> 3 [] c = "4" -> 4
              [] c = "5" -> 5 [] c = "6" -> 6 [] c = "7" -> 7 [] c = "8" -> 8 [] c = "9" -> 9]

(* The first of these positions, 0 if there is none.                       *)
First(positions) == IF positions = {} THEN 0 ELSE Min(positions)

SkipWs(data, p) == Min({q \in p..(Len(data) + 1) : q > Len(data) \/ data[q] # " "})
EndsWith(data, p, bytes) == p > Len(data) \/ data[p] \in bytes

-----------------------------------------------------------------------------
(* Where in the nesting of strings, objects and lists a byte is.           *)

Outermost == [string |-> FALSE, escaped |-> FALSE, object |-> 0, list |-> 0]
Less(depth) == IF depth = 0 THEN 0 ELSE depth - 1

Past(at, c) ==
  IF at.string
    THEN IF at.escaped THEN [at EXCEPT !.escaped = FALSE]
         ELSE [at EXCEPT !.escaped = c = "\\", !.string = c # Quote]
    ELSE CASE c = Quote -> [at EXCEPT !.string = TRUE]
           [] c = "{" -> [at EXCEPT !.object = @ + 1]
           [] c = "}" -> [at EXCEPT !.object = Less(@)]
           [] c = "[" -> [at EXCEPT !.list = @ + 1]
           [] c = "]" -> [at EXCEPT !.list = Less(@)]
           [] OTHER -> at

(* Where the scan is before each byte, and at the end, from somewhere on.  *)
Reading(at, data) ==
  LET states[n \in 0..Len(data)] ==
        IF n = 0 THEN <<at>>
        ELSE LET before == states[n - 1] IN Append(before, Past(before[n], data[n]))
  IN states[Len(data)]
Nesting(data) == Reading(Outermost, data)

(* The text of a whole manifest still has its braces; that of an object
   inside it has not.                                                      *)
DirectDepth(data) ==
  LET p == SkipWs(data, 1) IN IF p <= Len(data) /\ data[p] = "{" THEN 1 ELSE 0

(* Mutant of Direct: a key is taken wherever it is.                        *)
Anywhere(at, data) == ~at.string

Direct(at, data) == ~at.string /\ at.object = DirectDepth(data) /\ at.list = 0

-----------------------------------------------------------------------------
(* The readers.                                                            *)

(* The colon after the key that begins at p, 0 if it is another key or
   none.                                                                   *)
Colon(data, p, key) ==
  LET end == p + Len(key) + 1 IN
  IF end <= Len(data) /\ SubSeq(data, p + 1, end) = Append(key, Quote)
    THEN LET q == SkipWs(data, end + 1) IN IF q <= Len(data) /\ data[q] = ":" THEN q ELSE 0
    ELSE 0

(* json_find_value: where the value of the first such member begins.       *)
FindValue(data, key) ==
  LET at == Nesting(data)
      i == First({j \in 1..Len(data) :
                    data[j] = Quote /\ Direct(at[j], data) /\ Colon(data, j, key) # 0})
      p == IF i = 0 THEN 0 ELSE SkipWs(data, Colon(data, i, key) + 1)
  IN IF p > Len(data) THEN 0 ELSE p

(* The text that begins after the quote at p: up to the next quote, if it
   has neither a backslash nor more than so many bytes.                    *)
Plain(data, p, most) ==
  LET end == First({q \in (p + 1)..Len(data) : data[q] = Quote})
      bytes == SubSeq(data, p + 1, end - 1)
  IN IF end = 0 \/ Len(bytes) > most \/ "\\" \in Range(bytes) THEN None
     ELSE Some([bytes |-> bytes, end |-> end])

(* json_string_value; size is that of the buffer, with a final NUL.        *)
StringValue(data, key, size) ==
  LET p == FindValue(data, key)
      string == IF p # 0 /\ data[p] = Quote THEN Plain(data, p, size - 1) ELSE None
  IN IF string.found /\ EndsWith(data, SkipWs(data, string.value.end + 1), {",", "}", "]"})
       THEN Some(string.value.bytes) ELSE None

(* json_u32_value: a sum that came out smaller than before is refused.     *)
Another(value, c) ==
  LET next == (value * 10 + Digit[c]) % Word
  IN IF value = -1 \/ next < value THEN -1 ELSE next

Accumulated(digits) ==
  LET value[n \in 0..Len(digits)] == IF n = 0 THEN 0 ELSE Another(value[n - 1], digits[n])
  IN value[Len(digits)]

U32Value(data, key) ==
  LET p == FindValue(data, key)
      end == IF p = 0 THEN 0
             ELSE Min({q \in p..(Len(data) + 1) : q > Len(data) \/ data[q] \notin DOMAIN Digit})
      value == Accumulated(SubSeq(data, p, end - 1))
  IN IF end > p /\ value # -1 /\ EndsWith(data, SkipWs(data, end), {",", "}"})
       THEN Some(value) ELSE None

(* json_true_value.                                                        *)
TrueValue(data, key) ==
  LET p == FindValue(data, key) IN
  /\ p # 0 /\ p + 4 <= Len(data) + 1
  /\ SubSeq(data, p, p + 3) = <<"t", "r", "u", "e">>
  /\ EndsWith(data, SkipWs(data, p + 4), {",", "}"})

(* json_array_contains_string: the element after the bracket or comma at p,
   and the comma after that element, 0 if the loop ends there.             *)
Element(data, p) ==
  LET q == SkipWs(data, p + 1)
  IN IF q <= Len(data) /\ data[q] = Quote THEN Plain(data, q, LongText) ELSE None

Comma(data, p) ==
  LET element == Element(data, p)
      q == SkipWs(data, element.value.end + 1)
  IN IF p # 0 /\ element.found /\ q \in DOMAIN data /\ data[q] = "," THEN q ELSE 0

(* Where the turns of the loop begin.                                      *)
Turns(data, p) ==
  LET turn[k \in 0..Len(data)] == IF k = 0 THEN p ELSE Comma(data, turn[k - 1])
  IN turn

ListHas(data, p, expected) ==
  LET turn == Turns(data, p)
  IN \E k \in 0..Len(data) :
       LET element == Element(data, turn[k])
       IN turn[k] # 0 /\ element.found /\ element.value.bytes = expected

ArrayContainsString(data, key, expected) ==
  LET p == FindValue(data, key) IN p # 0 /\ data[p] = "[" /\ ListHas(data, p, expected)

(* json_object_value: what is between the brace and the one that closes it. *)
ObjectValue(data, key) ==
  LET p == FindValue(data, key)
      rest == SubSeq(data, p, Len(data))
      at == Nesting(rest)
      end == First({i \in 1..Len(rest) : ~at[i].string /\ rest[i] = "}" /\ at[i].object = 1})
  IN IF p # 0 /\ data[p] = "{" /\ end # 0 THEN Some(SubSeq(rest, 2, end - 1)) ELSE None

(* The validators go from an object to one of its objects.                 *)
Descend(key) ==
  /\ ObjectValue(text, key).found
  /\ text' = ObjectValue(text, key).value
=============================================================================
