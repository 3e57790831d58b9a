-------------------------------- MODULE MiniJson --------------------------------
(***************************************************************************)
(* src/src/mini_json.c: json_parse reads a text from left to right, one    *)
(* call of parse_object or parse_array for every bracket that is open;     *)
(* json_free gives the tree back.  Texts are sequences of character codes. *)
(*                                                                         *)
(* Allocations that fail are left out: the code does not look.  Of \u, the *)
(* signs, spaces and 0x that strtol would take are left out.               *)
(*                                                                         *)
(* A definition named X_Y is X with a mistake, as in Signer.               *)
(***************************************************************************)
EXTENDS Integers, SequencesExt

CONSTANTS
  StringCap,   \* bytes allocated for a string at first (64 in the code)
  TableCap,    \* entries allocated for an array or object at first (8)
  NumberCap    \* bytes of num in parse_number (128)

ASSUME JsonAssumption ==
  StringCap \in Nat /\ StringCap >= 4 /\ TableCap \in Nat \ {0} /\ NumberCap \in Nat \ {0}

Text == Seq(0 .. 255)

Quote == 34   Backslash == 92   Comma == 44   Colon == 58   Letter_u == 117
Space == {9, 10, 11, 12, 13, 32}

VARIABLES
  text,     \* the text being parsed
  pos,      \* characters read
  doing,    \* see TypeJson
  frames,   \* the calls of parse_object and parse_array under way: node, cap of its table
  cur,      \* the value complete or being read, 0 while that is a key
  str, strCap,   \* buf up to len, and cap, of parse_string_raw
  nodes,    \* the values made so far, the first is the root
  live,     \* what is allocated for them, see Blocks
  todo      \* what json_free still has to free

jsonVars == <<text, pos, doing, frames, cur, str, strCap, nodes, live, todo>>

\* keys and kids are what the table of an object or array holds.
Node == [type : {"object", "array", "string", "number", "true", "false", "null"},
         text : Text, keys : Seq(Text), kids : Seq(Nat)]
Made(type) == [type |-> type, text |-> <<>>, keys |-> <<>>, kids |-> <<>>]

\* Blocks: a node, its text, its table, the key of its k-th member.
Blocks == {"node", "text", "table", "key"} \X Nat \X Nat
Own(i) == <<"node", i, 0>>      TextOf(i)   == <<"text", i, 0>>
Table(i) == <<"table", i, 0>>   KeyOf(i, k) == <<"key", i, k>>

TypeJson ==
  /\ text \in Text /\ pos \in Nat
  /\ doing \in {"nothing", "value", "key", "string", "store", "done", "free", "exit", "undefined"}
  /\ frames \in Seq([node : DOMAIN nodes, cap : Nat])
  /\ cur \in 0 .. Len(nodes)
  /\ str \in Text /\ strCap \in Nat
  /\ nodes \in Seq(Node)
  /\ live \subseteq Blocks
  /\ todo \in Seq(Blocks)

InitJson ==
  /\ text = <<>> /\ pos = 0 /\ doing = "nothing" /\ frames = <<>> /\ cur = 0
  /\ str = <<>> /\ strCap = 0 /\ nodes = <<>> /\ live = {} /\ todo = <<>>

--------------------------------------------------------------------------------
\* The character behind the first p, 0 behind the last; skip_ws.
At(p)   == IF p < Len(text) THEN text[p + 1] ELSE 0
Skip(p) == CHOOSE q \in p .. Len(text) :
             At(q) \notin Space /\ \A k \in p .. q - 1 : At(k) \in Space

Exit == doing' = "exit" /\ UNCHANGED <<text, pos, frames, cur, str, strCap, nodes, live, todo>>

ParseStart(t) ==
  /\ text' = t /\ pos' = 0 /\ doing' = "value"
  /\ UNCHANGED <<frames, cur, str, strCap, nodes, live, todo>>

--------------------------------------------------------------------------------
(* parse_value, at the first character that is no space *)

Fresh == Len(nodes) + 1

\* A value without parts.
Leaf(node, next) ==
  /\ nodes' = Append(nodes, node) /\ live' = live \cup {Own(Fresh)}
  /\ cur' = Fresh /\ pos' = next /\ doing' = "store"
  /\ UNCHANGED <<text, frames, str, strCap, todo>>

Open   == [object |-> 123, array |-> 91]
Closed == [object |-> 125, array |-> 93]

\* parse_object, parse_array: a table only if there is something to put into it.
ParseOpen(type) ==
  /\ doing = "value" /\ At(Skip(pos)) = Open[type]
  /\ LET next == Skip(Skip(pos) + 1)
     IN  IF At(next) = Closed[type]
         THEN Leaf(Made(type), next + 1)
         ELSE /\ nodes' = Append(nodes, Made(type))
              /\ live' = live \cup {Own(Fresh), Table(Fresh)}
              /\ frames' = Append(frames, [node |-> Fresh, cap |-> TableCap])
              /\ pos' = next
              /\ doing' = IF type = "object" THEN "key" ELSE "value"
              /\ UNCHANGED <<text, cur, str, strCap, todo>>

\* parse_string_raw starts, for a value here and for a key in ParseKey.
ParseString ==
  /\ doing = "value" /\ At(Skip(pos)) = Quote
  /\ nodes' = Append(nodes, Made("string")) /\ cur' = Fresh
  /\ live' = live \cup {Own(Fresh), TextOf(Fresh)}
  /\ str' = <<>> /\ strCap' = StringCap
  /\ pos' = Skip(pos) + 1 /\ doing' = "string"
  /\ UNCHANGED <<text, frames, todo>>

\* true, false, null: expect_str on the letter that starts one of them.
Literals == [true |-> <<116, 114, 117, 101>>, false |-> <<102, 97, 108, 115, 101>>,
             null |-> <<110, 117, 108, 108>>]
ParseLiteral ==
  /\ doing = "value"
  /\ \E type \in DOMAIN Literals :
       LET lit == Literals[type]
           at  == Skip(pos)
       IN  /\ At(at) = lit[1]
           /\ IF \A k \in DOMAIN lit : At(at + k - 1) = lit[k]
              THEN Leaf(Made(type), at + Len(lit))
              ELSE Exit

\* What atof reads of characters that can be part of a number: the longest start of
\* them that is a decimal, and nothing, which is 0, if none is.  The double follows
\* from it; its rounding is left out.
Unsigned(s, k)     == IF k <= Len(s) /\ s[k] \in {43, 45} THEN k + 1 ELSE k
AllDigits(s, a, b) == \A k \in a .. b : s[k] \in 48 .. 57
Mantissa(s, a, b)  ==
  \E p \in a .. b + 1 : /\ AllDigits(s, a, p - 1) /\ AllDigits(s, p + 1, b)
                        /\ p <= b => s[p] = 46
                        /\ a < p \/ p < b
Decimal(s, n) ==     \* the first n characters
  \E m \in 1 .. n :
    /\ Mantissa(s, Unsigned(s, 1), m)
    /\ m < n => /\ s[m + 1] \in {69, 101} /\ Unsigned(s, m + 2) <= n
                /\ AllDigits(s, Unsigned(s, m + 2), n)
Atof(s) ==
  SubSeq(s, 1, CHOOSE n \in 0 .. Len(s) :
                 /\ n = 0 \/ Decimal(s, n)
                 /\ \A k \in n + 1 .. Len(s) : ~Decimal(s, k))

\* parse_number takes whatever starts nothing else, and is content with no character.
NumberChars == {43, 45, 46, 69, 101} \cup 48 .. 57
NumberEnd(p) == CHOOSE q \in p .. Len(text) :
                  At(q) \notin NumberChars /\ \A k \in p .. q - 1 : At(k) \in NumberChars
ParseNumber ==
  /\ doing = "value"
  /\ At(Skip(pos)) \notin {Open.object, Open.array, Quote} \cup {Literals[t][1] : t \in DOMAIN Literals}
  /\ LET at     == Skip(pos)
         digits == SubSeq(text, at + 1, NumberEnd(at))
         num    == IF Len(digits) >= NumberCap THEN SubSeq(digits, 1, NumberCap - 1) ELSE digits
     IN  Leaf([Made("number") EXCEPT !.text = Atof(num)], NumberEnd(at))

--------------------------------------------------------------------------------
(* A value complete: into the table of the innermost call, or the result *)

Doubled(cap, full) == IF full THEN 2 * cap ELSE cap

StoreRoot ==
  /\ doing = "store" /\ frames = <<>>
  /\ pos' = Skip(pos) /\ doing' = "done"
  /\ UNCHANGED <<text, frames, cur, str, strCap, nodes, live, todo>>

\* After the value a comma, or the bracket that ends the call and makes the whole
\* array or object the value that is complete; otherwise exit, with all of it allocated.
StoreMember ==
  /\ doing = "store" /\ frames # <<>>
  /\ LET top  == Last(frames)
         node == nodes[top.node]
         cap  == Doubled(top.cap, Len(node.kids) >= top.cap)
         at   == Skip(pos)
     IN  /\ nodes' = [nodes EXCEPT ![top.node].kids = Append(@, cur)]
         /\ \/ /\ At(at) = Comma
               /\ frames' = [frames EXCEPT ![Len(frames)].cap = cap]
               /\ doing' = IF node.type = "object" THEN "key" ELSE "value"
               /\ pos' = at + 1 /\ cur' = cur
            \/ /\ At(at) = Closed[node.type]
               /\ frames' = Front(frames)
               /\ doing' = "store" /\ cur' = top.node /\ pos' = at + 1
            \/ /\ At(at) \notin {Comma, Closed[node.type]}
               /\ frames' = [frames EXCEPT ![Len(frames)].cap = cap]
               /\ doing' = "exit" /\ pos' = at /\ cur' = cur
  /\ UNCHANGED <<text, str, strCap, live, todo>>

--------------------------------------------------------------------------------
(* Strings *)

ParseKey ==
  /\ doing = "key"
  /\ LET top == Last(frames)
         at  == Skip(pos)
     IN  IF At(at) # Quote THEN Exit
         ELSE /\ live' = live \cup {KeyOf(top.node, Len(nodes[top.node].keys) + 1)}
              /\ str' = <<>> /\ strCap' = StringCap /\ cur' = 0
              /\ pos' = at + 1 /\ doing' = "string"
              /\ UNCHANGED <<text, frames, nodes, todo>>

Escapes == [c \in {34, 92, 47, 98, 102, 110, 114, 116} |->
              CASE c = 98 -> 8 [] c = 102 -> 12 [] c = 110 -> 10 [] c = 114 -> 13 [] c = 116 -> 9
                [] OTHER -> c]

\* The number that four characters start with, in base 16.
HexValue(c) == CASE c \in 48 .. 57 -> c - 48 [] c \in 65 .. 70 -> c - 55 [] c \in 97 .. 102 -> c - 87 [] OTHER -> 16
Codepoint(four) ==
  LET upTo[k \in 0 .. 4] ==
        IF k = 0 THEN 0
        ELSE IF \E j \in 1 .. k : HexValue(four[j]) = 16 THEN upTo[k - 1]
        ELSE 16 * upTo[k - 1] + HexValue(four[k])
  IN  upTo[4]
Utf8(cp) ==
  CASE cp < 128  -> <<cp>>
    [] cp \in 128 .. 2047 -> <<192 + (cp \div 64), 128 + (cp % 64)>>
    [] OTHER     -> <<224 + (cp \div 4096), 128 + ((cp \div 64) % 64), 128 + (cp % 64)>>

Room_one(len, cap, need) == Doubled(cap, len + 1 >= cap)
Room(len, cap, need) == Doubled(cap, len + need >= cap)

Put(bytes, need, next) ==
  /\ str' = str \o bytes /\ strCap' = Room(Len(str), strCap, need)
  /\ pos' = next
  /\ UNCHANGED <<text, doing, frames, cur, nodes, live, todo>>

StringChar ==
  /\ doing = "string" /\ At(pos) \notin {0, Quote, Backslash}
  /\ Put(<<At(pos)>>, 1, pos + 1)

StringEscape ==
  /\ doing = "string" /\ At(pos) = Backslash /\ At(pos + 1) # Letter_u
  /\ IF At(pos + 1) \in DOMAIN Escapes THEN Put(<<Escapes[At(pos + 1)]>>, 1, pos + 2) ELSE Exit

StringCode_short ==
  /\ doing = "string" /\ At(pos) = Backslash /\ At(pos + 1) = Letter_u
  /\ IF pos + 6 <= Len(text)
     THEN Put(Utf8(Codepoint(SubSeq(text, pos + 3, pos + 6))), 4, pos + 5)
     ELSE /\ doing' = "undefined"
          /\ UNCHANGED <<text, pos, frames, cur, str, strCap, nodes, live, todo>>

\* Four characters are read, and skipped, without a look for the end of the text;
\* past it C says nothing of what follows.
StringCode ==
  /\ doing = "string" /\ At(pos) = Backslash /\ At(pos + 1) = Letter_u
  /\ IF pos + 6 <= Len(text)
     THEN Put(Utf8(Codepoint(SubSeq(text, pos + 3, pos + 6))), 4, pos + 6)
     ELSE /\ doing' = "undefined"
          /\ UNCHANGED <<text, pos, frames, cur, str, strCap, nodes, live, todo>>

StringCut_spins == doing = "string" /\ At(pos) = 0 /\ UNCHANGED jsonVars
StringCut == doing = "string" /\ At(pos) = 0 /\ Exit

\* What strcmp and printf see of the bytes.
CString(s) == IF \E k \in DOMAIN s : s[k] = 0
              THEN SubSeq(s, 1, (CHOOSE k \in DOMAIN s : s[k] = 0 /\ \A j \in 1 .. k - 1 : s[j] # 0) - 1)
              ELSE s

StringEnd ==
  /\ doing = "string" /\ At(pos) = Quote
  /\ IF cur # 0
     THEN /\ nodes' = [nodes EXCEPT ![cur].text = CString(str)]
          /\ pos' = pos + 1 /\ doing' = "store"
     ELSE /\ nodes' = [nodes EXCEPT ![Last(frames).node].keys = Append(@, CString(str))]
          /\ IF At(Skip(pos + 1)) = Colon
             THEN pos' = Skip(pos + 1) + 1 /\ doing' = "value"
             ELSE pos' = Skip(pos + 1) /\ doing' = "exit"
  /\ UNCHANGED <<text, frames, cur, str, strCap, live, todo>>

Parse ==
  \/ \E type \in DOMAIN Open : ParseOpen(type)
  \/ ParseString \/ ParseLiteral \/ ParseNumber
  \/ StoreRoot \/ StoreMember \/ ParseKey
  \/ StringChar \/ StringEscape \/ StringCode \/ StringCut \/ StringEnd

--------------------------------------------------------------------------------
(* json_get, on the index of a value; 0 is NULL *)

Get(i, key) ==
  LET here == {k \in DOMAIN nodes[i].keys : nodes[i].keys[k] = key}
  IN  IF i = 0 THEN 0
      ELSE IF nodes[i].type # "object" \/ here = {} THEN 0
      ELSE nodes[i].kids[CHOOSE k \in here : \A j \in here : k <= j]

--------------------------------------------------------------------------------
(* json_free: of a value first what it holds, in order *)

Parts_noKeys(i) ==
  LET node == nodes[i] IN [k \in DOMAIN node.kids |-> Own(node.kids[k])]
Parts(i) ==
  LET node  == nodes[i]
      held(k) == (IF node.type = "object" THEN <<KeyOf(i, k)>> ELSE <<>>) \o <<Own(node.kids[k])>>
  IN  (IF node.type = "string" THEN <<TextOf(i)>> ELSE <<>>)
      \o FlattenSeq([k \in DOMAIN node.kids |-> held(k)])
      \o (IF node.kids # <<>> THEN <<Table(i)>> ELSE <<>>)

FreeStart(i) ==
  /\ todo' = <<Own(i)>> /\ doing' = "free"
  /\ UNCHANGED <<text, pos, frames, cur, str, strCap, nodes, live>>

\* A value is freed after its parts: marked, it comes up a second time.  What is
\* no longer allocated must be neither read nor freed.
Marked(i) == <<"node", i, 1>>
Free ==
  /\ doing = "free" /\ todo # <<>>
  /\ LET b     == Head(todo)
         block == IF b = Marked(b[2]) THEN Own(b[2]) ELSE b
     IN  \/ /\ block \notin live
            /\ doing' = "undefined"
            /\ UNCHANGED <<todo, live>>
         \/ /\ block \in live /\ b = Own(b[2])
            /\ todo' = Parts(b[2]) \o <<Marked(b[2])>> \o Tail(todo)
            /\ UNCHANGED <<doing, live>>
         \/ /\ block \in live /\ b # Own(b[2])
            /\ todo' = Tail(todo) /\ live' = live \ {block}
            /\ UNCHANGED doing
  /\ UNCHANGED <<text, pos, frames, cur, str, strCap, nodes>>

--------------------------------------------------------------------------------
\* The tree below a value, as one value; its kids were made after it.
TreeOf(ns, i) ==
  LET from[j \in DOMAIN ns] ==
        [ns[j] EXCEPT !.kids = [k \in DOMAIN ns[j].kids |-> from[ns[j].kids[k]]]]
  IN  from[i]
Tree(i) == TreeOf(nodes, i)

\* The text breaks off inside an escape of four digits.
CutInside(t) == \E k \in 1 .. Len(t) - 1 : t[k] = Backslash /\ t[k + 1] = Letter_u /\ k + 5 > Len(t)

================================================================================
