----------------------------- MODULE MCManifest -----------------------------
(* Documents for ManifestReference: objects of up to two members, which may
   be objects again, with texts that look like keys, braces and escapes.   *)
EXTENDS ManifestReference

MCGaps == {<<>>, <<" ">>}
MCCharacters ==
  DOMAIN Digit \union {Quote, "\\", "{", "}", "[", "]", ",", ":", " ", "t", "r", "u", "e", "k", "m"}
MCKeys == {<<"k">>, <<"k", "m">>}

ATextOf(bytes) == [kind |-> "text", bytes |-> bytes, text |-> Quoted(bytes)]
ANumber(digits) == [kind |-> "number", digits |-> digits, text |-> digits]
True == [kind |-> "true", text |-> <<"t", "r", "u", "e">>]
AList(gap, items) ==
  LET v == [kind |-> "list", gap |-> gap, items |-> items]
  IN [kind |-> "list", gap |-> gap, items |-> items, text |-> <<"[">> \o Items(v) \o <<"]">>]
AnObject(gap, members) ==
  LET v == [kind |-> "object", gap |-> gap, members |-> members]
  IN [kind |-> "object", gap |-> gap, members |-> members,
      text |-> <<"{">> \o Members(v) \o <<"}">>]

Bytes == {<<>>, <<"k">>, <<"k", "m">>, <<"k", "m", "k">>, <<Quote, "k">>, <<"k", Quote>>,
          <<"k", "\\">>, <<"{">>, <<"}", "]">>, <<":">>}
Leaves ==
  {ATextOf(bytes) : bytes \in Bytes} \union {ANumber(<<d>>) : d \in {"0", "1", "9"}}
    \union {ANumber(d) : d \in {<<"0", "7">>, <<"6", "3">>, <<"6", "4">>, <<"9", "9">>}}
    \union {True}

NameSet == MCKeys \union {<<Quote, "k">>}
Named(names, values) == [key : names, value : values]

(* The first so many of two.                                               *)
FirstOf(n, a, b) == SubSeq(<<a, b>>, 1, n)

Few == {True, ANumber(<<"1">>), ATextOf(<<"k">>), ATextOf(<<Quote, "k">>), ATextOf(<<"}", "]">>),
        AList(<<" ">>, <<ATextOf(<<"k">>)>>)}
Elements ==
  {ATextOf(<<"k">>), ATextOf(<<"k", "m">>), ATextOf(<<"k", "m", "k">>), ATextOf(<<"k", "\\">>),
   ANumber(<<"1">>), True, AList(<<" ">>, <<ATextOf(<<"k">>)>>),
   AnObject(<<" ">>, <<[key |-> <<"k">>, value |-> True]>>)}
ListValues ==
  {AList(gap, FirstOf(n, a, b)) : gap \in MCGaps, n \in 0..2, a, b \in Elements}
Flat ==
  {AnObject(gap, FirstOf(n, a, a)) : gap \in MCGaps, n \in 0..1, a \in Named(NameSet, Few)}
Nested ==
  {AnObject(gap, <<a, [key |-> <<"k">>, value |-> ATextOf(<<"k">>)]>>) :
     gap \in MCGaps, a \in Named({<<"k", "m">>}, Flat)}

Parts == Leaves \union ListValues \union Flat \union Nested
MCValues ==
  Parts
    \union {AnObject(gap, <<a>>) : gap \in MCGaps, a \in Named(NameSet, Parts)}
    \union {AnObject(gap, <<a, b>>) :
              gap \in MCGaps, a \in Named(NameSet, Few \union Flat), b \in Named({<<"k">>}, Few)}
=============================================================================
