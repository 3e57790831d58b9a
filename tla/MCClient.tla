-------------------------------- MODULE MCClient --------------------------------
(* Answers written together with the value they stand for, the same broken off  *)
(* after every character, and bodies that are no JSON at all.                    *)
EXTENDS ClientClaims, JsonGrammar

\* A spelling and its value, side by side.
Sp(s, v) == [body |-> s, value |-> v]

Str(spelled, meant) ==
  Sp(<<Quote>> \o spelled \o <<Quote>>, [Made("string") EXCEPT !.text = meant])
Num(digits) == Sp(digits, [Made("number") EXCEPT !.text = digits])
Lit(type)   == Sp(Literals[type], Made(type))
Blank(a, before, after) == [a EXCEPT !.body = before \o @ \o after]

\* What stands between commas, and the whole in its brackets.
Joined(bodies) ==
  FlattenSeq([k \in DOMAIN bodies |-> IF k = 1 THEN bodies[k] ELSE <<Comma>> \o bodies[k]])
Arr(items) ==
  Sp(<<91>> \o Joined([k \in DOMAIN items |-> items[k].body]) \o <<93>>,
     [Made("array") EXCEPT !.kids = [k \in DOMAIN items |-> items[k].value]])
\* Members are pairs of a key, itself a string, and a value.
Obj(ms) ==
  Sp(<<123>> \o Joined([k \in DOMAIN ms |-> ms[k][1].body \o <<Colon>> \o ms[k][2].body]) \o <<125>>,
     [Made("object") EXCEPT !.keys = [k \in DOMAIN ms |-> ms[k][1].value.text],
                            !.kids = [k \in DOMAIN ms |-> ms[k][2].value]])

Plain(s) == Str(s, s)
Msg      == Plain(MessageKey)
a == <<97>>   b == <<98>>

\* The euro sign as \u20ac, a cent as \u00a2, an A as \u0041; quote, slash, line feed.
Euro == <<92, 117, 50, 48, 97, 99>>   Cent == <<92, 117, 48, 48, 65, 50>>
BigA == <<92, 117, 48, 48, 52, 49>>   Others == <<92, 34, 92, 47, 92, 110, 92, 92>>
Xs(n) == [k \in 1 .. n |-> 120]

Good == Obj(<< <<Msg, Plain(Success)>>, <<Plain(a), Arr(<<Num(<<49, 50>>), Lit("true"), Obj(<<>>)>>)>> >>)
Bad  == Obj(<< <<Plain(a), Obj(<< <<Msg, Plain(Success)>> >>)>>,
               <<Blank(Msg, <<10>>, <<32>>), Blank(Plain(b), <<32>>, <<9>>)>>,
               <<Msg, Plain(Success)>>, <<Plain(<<>>), Lit("null")>>, <<Plain(b), Lit("false")>> >>)
Long == Arr([n \in 1 .. 9 |-> Str(Xs(n) \o Euro \o b, Xs(n) \o <<226, 130, 172, 98>>)]
            \o <<Str(Cent \o BigA \o Others, <<194, 162, 65, 34, 47, 10, 92>>), Arr(<<Arr(<<>>)>>), Num(<<45, 53>>)>>)
Escaped == Obj(<< <<Str(<<109, 92, 117, 48, 48, 54, 53>> \o SubSeq(MessageKey, 3, 7), MessageKey), Plain(Success)>> >>)

\* Numbers that atof reads to their end, and characters that it gives up on.
Tenths == Arr(<<Num(<<45, 49, 46, 53, 101, 43, 50>>), Num(<<46, 53>>), Num(<<55, 46>>),
                Sp(<<49, 45, 50>>, Num(<<49>>).value), Sp(<<52, 101, 43>>, Num(<<52>>).value),
                Sp(<<45, 46>>, Num(<<>>).value)>>)

\* No JSON, and read all the same, as if the number that is missing were there.
NoValue == <<Plain(a), Sp(<<>>, Made("number"))>>
Hollow(ms) == Sp(Obj(ms).body, NotJson)

Behind(x, s)  == Blank(x, <<>>, s)
Broken(x) == {Sp(SubSeq(x.body, 1, n), NotJson) : n \in 1 .. Len(x.body) - 1}

MCAnswers ==
  {Good, Bad, Long, Escaped, Tenths, Hollow(<< <<Msg, Plain(Success)>>, NoValue >>), Hollow(<<NoValue>>), Behind(Good, <<10, 120>>), Arr(<<>>), Plain(Success), Num(<<48>>),
   Sp(<<>>, NotJson), Sp(<<60, 104, 62>>, NotJson), Sp(<<32>>, NotJson), Sp(<<123, 34, 92, 120, 34>>, NotJson)}
  \cup Broken(Good) \cup Broken(Bad) \cup Broken(Arr(<<Str(a \o Cent \o b, a)>>))

--------------------------------------------------------------------------------
(* How each of them is spelled, found by a reader that takes nothing but JSON,  *)
(* value by value: what ClientProofs asks of the answers holds of these.        *)

First(t, p) == CHOOSE q \in p .. Len(t) : Gap(t, p, q)

RECURSIVE SpellFrom(_, _)
SpellFrom(t, s) ==
  LET p == Last(s.at)
      Then(n, bytes) == SpellFrom(t, [at |-> Append(s.at, p + n), got |-> Append(s.got, Last(s.got) \o bytes)])
  IN  CASE Char(t, p) = Quote -> s
        [] Char(t, p) # Backslash /\ Char(t, p) # Quote -> Then(1, <<Char(t, p)>>)
        [] Char(t, p) = Backslash /\ Char(t, p + 1) = Letter_u -> Then(6, Utf8(Codepoint(SubSeq(t, p + 3, p + 6))))
        [] OTHER -> Then(2, <<Escapes[Char(t, p + 1)]>>)
Spell(t, p) == SpellFrom(t, [at |-> <<p + 1>>, got |-> << <<>> >>])
Meant(s) == CString(Last(s.got))

\* The derivation of a value without parts, and of values that follow one another.
One(node, p, q, next) ==
  [nodes |-> <<node>>, from |-> <<p>>, to |-> <<q>>, next |-> <<next>>, string |-> << <<>> >>,
   sep |-> << <<>> >>, key |-> << <<>> >>, colon |-> << <<>> >>]
None == [f \in DOMAIN One(0, 0, 0, 0) |-> <<>>]
Cat(x, y) == [f \in DOMAIN x |-> x[f] \o y[f]]

\* The members from the last separator of m on, the i-th value next.
RECURSIVE ReadValue(_, _, _), ReadMembers(_, _, _)
ReadMembers(t, type, m) ==
  LET keyed == type = "object"
      at    == First(t, Last(m.sep) + 1)
      key   == IF keyed THEN Spell(t, at) ELSE <<>>
      colon == IF keyed THEN First(t, Ends(key)) ELSE at
      v     == ReadValue(t, IF keyed THEN First(t, colon + 1) ELSE at, m.next)
      end   == First(t, v.to[1])
      more  == [kids |-> Append(m.kids, m.next), keys |-> IF keyed THEN Append(m.keys, Meant(key)) ELSE <<>>,
                sep |-> Append(m.sep, end), key |-> Append(m.key, key), colon |-> Append(m.colon, colon),
                parts |-> Cat(m.parts, v), next |-> v.next[1]]
  IN  IF Char(t, end) = Comma THEN ReadMembers(t, type, more) ELSE more
ReadValue(t, p, i) ==
  LET c == Char(t, p)
  IN  IF c = Quote
      THEN LET s == Spell(t, p)
           IN  [One([Made("string") EXCEPT !.text = Meant(s)], p, Ends(s), i + 1) EXCEPT !.string = <<s>>]
      ELSE IF c \in NumberChars
      THEN LET q == CHOOSE q \in p .. Len(t) :
                      Char(t, q) \notin NumberChars /\ \A k \in p .. q - 1 : Char(t, k) \in NumberChars
           IN  One([Made("number") EXCEPT !.text = Atof(SubSeq(t, p + 1, q))], p, q, i + 1)
      ELSE IF c \notin {Open.object, Open.array}
      THEN LET type == CHOOSE l \in DOMAIN Literals : Literals[l][1] = c
           IN  One(Made(type), p, p + Len(Literals[type]), i + 1)
      ELSE LET type == IF c = Open.object THEN "object" ELSE "array"
               in   == First(t, p + 1)
               m    == IF Char(t, in) = Closed[type]
                       THEN [kids |-> <<>>, keys |-> <<>>, sep |-> <<p, in>>, key |-> <<>>, colon |-> <<>>,
                             parts |-> None, next |-> i + 1]
                       ELSE ReadMembers(t, type, [kids |-> <<>>, keys |-> <<>>, sep |-> <<p>>, key |-> <<>>,
                                                  colon |-> <<>>, parts |-> None, next |-> i + 1])
               node == [Made(type) EXCEPT !.kids = m.kids, !.keys = m.keys]
           IN  Cat([One(node, p, Last(m.sep) + 1, m.next) EXCEPT
                      !.sep = <<[k \in 0 .. Len(m.sep) - 1 |-> m.sep[k + 1]]>>, !.key = <<m.key>>, !.colon = <<m.colon>>],
                   m.parts)

ASSUME AnswersSpelled ==
  \A ans \in {x \in MCAnswers : x.value # NotJson} :
    LET d == ReadValue(ans.body, First(ans.body, 0), 1)
    IN  Derives(ans.body, d) /\ ans.value = TreeOf(d.nodes, 1)

================================================================================
