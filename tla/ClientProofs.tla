------------------------------ MODULE ClientProofs ------------------------------
(***************************************************************************)
(* Theorems about Client and MiniJson, for every answer and every value of *)
(* the constants: ClientInvariant is an invariant, and MemorySound         *)
(* follows; an answer that JsonGrammar derives is read as it was meant,    *)
(* and main says of it what is true.                                       *)
(***************************************************************************)
EXTENDS ClientInvariant, SequenceTheorems, TLAPS

\* What recursive functions compute, and LeastNatural.
Numbers == INSTANCE QueryTextProofs

--------------------------------------------------------------------------------
(* Texts *)

\* A text has its characters at the positions up to its length.
LEMMA TextLen ==
  ASSUME NEW s \in Text
  PROVE  /\ Len(s) \in Nat /\ DOMAIN s = 1 .. Len(s)
         /\ \A k \in 1 .. Len(s) : s[k] \in 0 .. 255
BY LenProperties, ElementOfSeq DEF Text

\* The character at a position is a byte, and 0 only past the end or for a byte 0.
LEMMA AtIs ==
  ASSUME text \in Text, NEW p \in Nat
  PROVE  At(p) \in 0 .. 255 /\ (At(p) # 0 => p + 1 <= Len(text))
<1>1. Len(text) \in Nat /\ \A k \in 1 .. Len(text) : text[k] \in 0 .. 255
  BY TextLen
<1>2. p < Len(text) => p + 1 \in 1 .. Len(text)
  BY <1>1
<1> QED
  BY <1>1, <1>2 DEF At

\* The first position from p on at which the characters are no longer in S.
LEMMA FirstNotIn ==
  ASSUME text \in Text, NEW p \in Nat, p <= Len(text), NEW S, 0 \notin S
  PROVE  \E q \in p .. Len(text) : At(q) \notin S /\ \A k \in p .. q - 1 : At(k) \in S
<1> DEFINE T == {q \in p .. Len(text) : At(q) \notin S}
<1>1. Len(text) \in Nat
  BY TextLen
<1>2. Len(text) \in T
  BY <1>1 DEF At
<1>3. \A q \in T : q \in p .. Len(text) /\ At(q) \notin S
  OBVIOUS
<1>4. \A q \in p .. Len(text) : At(q) \in S \/ q \in T
  OBVIOUS
<1> HIDE DEF T
<1>5. T \in SUBSET Nat /\ T # {}
  BY <1>1, <1>2, <1>3
<1>6. PICK q \in T : \A m \in T : q <= m
  BY <1>5, Numbers!LeastNatural
<1>7. \A k \in p .. q - 1 : At(k) \in S
  <2> TAKE k \in p .. q - 1
  <2>1. k \in p .. Len(text) /\ ~(q <= k)
    BY <1>1, <1>3
  <2> QED
    BY <1>4, <1>6, <2>1
<1> QED
  BY <1>3, <1>7

\* skip_ws stays in the text and does not go back.
LEMMA SkipIs ==
  ASSUME text \in Text, NEW p \in Nat, p <= Len(text)
  PROVE  Skip(p) \in Nat /\ p <= Skip(p) /\ Skip(p) <= Len(text)
<1>1. \E q \in p .. Len(text) : At(q) \notin Space /\ \A k \in p .. q - 1 : At(k) \in Space
  <2>1. 0 \notin Space
    BY DEF Space
  <2> QED
    BY <2>1, FirstNotIn
<1>2. Skip(p) \in p .. Len(text)
  BY <1>1 DEF Skip
<1> QED
  BY <1>2, TextLen

\* parse_number stays in the text and does not go back.
LEMMA NumberEndIs ==
  ASSUME text \in Text, NEW p \in Nat, p <= Len(text)
  PROVE  NumberEnd(p) \in Nat /\ p <= NumberEnd(p) /\ NumberEnd(p) <= Len(text)
<1>1. \E q \in p .. Len(text) : At(q) \notin NumberChars /\ \A k \in p .. q - 1 : At(k) \in NumberChars
  <2>1. 0 \notin NumberChars
    BY DEF NumberChars
  <2> QED
    BY <2>1, FirstNotIn
<1>2. NumberEnd(p) \in p .. Len(text)
  BY <1>1 DEF NumberEnd
<1> QED
  BY <1>2, TextLen

\* A part of a text is a text.
LEMMA SubText ==
  ASSUME NEW s \in Text, NEW m \in Nat \ {0}, NEW n \in Nat, n <= Len(s)
  PROVE  SubSeq(s, m, n) \in Text
<1>1. \A k \in m .. n : s[k] \in 0 .. 255
  BY TextLen
<1> QED
  BY <1>1, SubSeqProperties DEF Text

\* What strcmp sees of a text is a text.
LEMMA CStringIs ==
  ASSUME NEW s \in Text
  PROVE  CString(s) \in Text
<1>1. Len(s) \in Nat /\ DOMAIN s = 1 .. Len(s)
  BY TextLen
<1>2. CASE \E k \in DOMAIN s : s[k] = 0
  <2> DEFINE T == {k \in DOMAIN s : s[k] = 0}
             First(k) == k \in DOMAIN s /\ s[k] = 0 /\ \A j \in 1 .. k - 1 : s[j] # 0
             q == CHOOSE k \in DOMAIN s : s[k] = 0 /\ \A j \in 1 .. k - 1 : s[j] # 0
  <2>1. \A k \in T : k \in 1 .. Len(s) /\ s[k] = 0
    BY <1>1
  <2>2. \A k \in 1 .. Len(s) : s[k] = 0 => k \in T
    BY <1>1
  <2>3. T # {}
    BY <1>2
  <2> HIDE DEF T
  <2>4. T \in SUBSET Nat
    BY <1>1, <2>1
  <2>5. PICK k \in T : \A m \in T : k <= m
    BY <2>3, <2>4, Numbers!LeastNatural
  <2>6. \A j \in 1 .. k - 1 : s[j] # 0
    <3> TAKE j \in 1 .. k - 1
    <3>1. j \in 1 .. Len(s) /\ ~(k <= j)
      BY <1>1, <2>1
    <3> QED
      BY <2>2, <2>5, <3>1
  <2>7. q \in DOMAIN s
    BY <1>1, <2>1, <2>6
  <2> HIDE DEF q
  <2>8. q - 1 \in Nat /\ q - 1 <= Len(s)
    BY <1>1, <2>7
  <2>9. CString(s) = SubSeq(s, 1, q - 1)
    BY <1>2 DEF CString, q
  <2> QED
    BY <2>8, <2>9, SubText
<1>3. CASE ~\E k \in DOMAIN s : s[k] = 0
  BY <1>3 DEF CString
<1> QED
  BY <1>2, <1>3

\* Two texts make a text.
LEMMA ConcatText ==
  ASSUME NEW s \in Text, NEW t \in Text
  PROVE  s \o t \in Text /\ Len(s \o t) = Len(s) + Len(t)
BY ConcatProperties DEF Text

\* A digit is less than 16, and 16 is none.
LEMMA HexValueIs == \A c \in 0 .. 255 : HexValue(c) \in 0 .. 16
BY DEF HexValue

\* Four characters give a number of sixteen bits.
LEMMA CodepointIs ==
  ASSUME NEW four \in Text, Len(four) = 4
  PROVE  Codepoint(four) \in Nat /\ Codepoint(four) <= 65535
<1> DEFINE h == [k \in 1 .. 4 |-> HexValue(four[k])]
           Bad(k) == \E j \in 1 .. k : HexValue(four[j]) = 16
           IsUp(f) == f = [k \in 0 .. 4 |-> IF k = 0 THEN 0
                                            ELSE IF Bad(k) THEN f[k - 1] ELSE 16 * f[k - 1] + HexValue(four[k])]
           f == CHOOSE f : IsUp(f)
<1>1. \A k \in 1 .. 4 : HexValue(four[k]) \in 0 .. 16
  <2>1. \A k \in 1 .. 4 : four[k] \in 0 .. 255
    BY TextLen
  <2> QED
    BY <2>1, HexValueIs
<1>2. \A k \in 1 .. 4 : ~Bad(k) => HexValue(four[k]) \in 0 .. 15
  <2> TAKE k \in 1 .. 4
  <2> HAVE ~Bad(k)
  <2>1. k \in 1 .. k
    OBVIOUS
  <2>2. HexValue(four[k]) # 16
    BY <2>1
  <2> QED
    BY <1>1, <2>2
<1> HIDE DEF Bad
<1>3. IsUp(f)
  <2> DEFINE step(x, k) == IF Bad(k) THEN x ELSE 16 * x + HexValue(four[k])
             a == step(0, 1)  b == step(a, 2)  c == step(b, 3)  d == step(c, 4)
             w == [k \in 0 .. 4 |-> IF k = 0 THEN 0 ELSE IF k = 1 THEN a ELSE IF k = 2 THEN b
                                    ELSE IF k = 3 THEN c ELSE d]
  <2>1. w[0] = 0 /\ w[1] = a /\ w[2] = b /\ w[3] = c /\ w[4] = d
    OBVIOUS
  <2>2. \A k \in 0 .. 4 : w[k] = IF k = 0 THEN 0 ELSE step(w[k - 1], k)
    <3> TAKE k \in 0 .. 4
    <3>1. k = 0 \/ (k = 1 /\ k - 1 = 0) \/ (k = 2 /\ k - 1 = 1) \/ (k = 3 /\ k - 1 = 2) \/ (k = 4 /\ k - 1 = 3)
      OBVIOUS
    <3>2. a = step(0, 1) /\ b = step(a, 2) /\ c = step(b, 3) /\ d = step(c, 4)
      OBVIOUS
    <3> HIDE DEF w, a, b, c, d, step
    <3> QED
      BY <2>1, <3>1, <3>2
  <2>3. w = [k \in 0 .. 4 |-> w[k]]
    OBVIOUS
  <2> HIDE DEF w
  <2>4. IsUp(w)
    BY <2>2, <2>3
  <2> HIDE DEF IsUp
  <2> QED
    BY <2>4
<1> HIDE DEF f
<1>4. \A k \in 0 .. 4 : f[k] = IF k = 0 THEN 0
                               ELSE IF Bad(k) THEN f[k - 1] ELSE 16 * f[k - 1] + HexValue(four[k])
  BY <1>3
<1>5. f[0] = 0
  BY <1>4
<1>6. \A k \in 1 .. 4, n \in Nat : f[k - 1] \in Nat /\ f[k - 1] <= n => f[k] \in Nat /\ f[k] <= 16 * n + 15
  <2> TAKE k \in 1 .. 4, n \in Nat
  <2> HAVE f[k - 1] \in Nat /\ f[k - 1] <= n
  <2>1. f[k] = IF Bad(k) THEN f[k - 1] ELSE 16 * f[k - 1] + HexValue(four[k])
    BY <1>4
  <2>2. CASE Bad(k)
    BY <2>1, <2>2
  <2>3. CASE ~Bad(k)
    <3>1. HexValue(four[k]) \in 0 .. 15
      BY <1>2, <2>3
    <3> QED
      BY <2>1, <2>3, <3>1
  <2> QED
    BY <2>2, <2>3
<1>7. f[1] \in Nat /\ f[1] <= 15
  BY <1>5, <1>6, SMT
<1>8. f[2] \in Nat /\ f[2] <= 255
  BY <1>6, <1>7, SMT
<1>9. f[3] \in Nat /\ f[3] <= 4095
  BY <1>6, <1>8, SMT
<1>10. f[4] \in Nat /\ f[4] <= 65535
  BY <1>6, <1>9, SMT
<1>11. Codepoint(four) = f[4]
  BY DEF Codepoint, f, IsUp, Bad
<1> QED
  BY <1>10, <1>11, SMT

\* Short tuples of bytes are texts.
LEMMA Tuples ==
  ASSUME NEW S, NEW a \in S, NEW b \in S, NEW c \in S
  PROVE  /\ <<a>> \in Seq(S) /\ Len(<<a>>) = 1
         /\ <<a, b>> \in Seq(S) /\ Len(<<a, b>>) = 2
         /\ <<a, b, c>> \in Seq(S) /\ Len(<<a, b, c>>) = 3
<1>1. <<a>> \in Seq(S) /\ Len(<<a>>) = 1
  OBVIOUS
<1>2. <<a, b>> \in Seq(S) /\ Len(<<a, b>>) = 2
  OBVIOUS
<1>3. <<a, b, c>> \in Seq(S) /\ Len(<<a, b, c>>) = 3
  OBVIOUS
<1> QED
  BY <1>1, <1>2, <1>3

\* A number of sixteen bits takes at most three bytes, fewer than the four there is room for.
LEMMA Utf8Is ==
  ASSUME NEW cp \in Nat, cp <= 65535
  PROVE  Utf8(cp) \in Text /\ Len(Utf8(cp)) <= 3
<1>1. CASE cp < 128
  <2>1. Utf8(cp) = <<cp>>
    BY <1>1, SMT DEF Utf8
  <2>2. cp \in 0 .. 255
    BY <1>1, SMT
  <2> QED
    BY <2>1, <2>2, Tuples, SMT DEF Text
<1>2. CASE cp >= 128 /\ cp <= 2047
  <2> DEFINE a == 192 + (cp \div 64)  b == 128 + (cp % 64)
  <2>1. Utf8(cp) = <<a, b>>
    <3>1. cp \in 128 .. 2047 /\ ~(cp < 128)
      BY <1>2, SMT
    <3> DEFINE x == <<cp>>  y == <<a, b>>
               z == <<224 + (cp \div 4096), 128 + ((cp \div 64) % 64), 128 + (cp % 64)>>
    <3>2. Utf8(cp) = CASE cp < 128 -> x [] cp \in 128 .. 2047 -> y [] OTHER -> z
      BY SMT DEF Utf8
    <3> HIDE DEF x, y, z
    <3>3. Utf8(cp) = y
      BY <3>1, <3>2, SMT
    <3> QED
      BY <3>3 DEF y
  <2>2. a \in 0 .. 255 /\ b \in 0 .. 255
    BY <1>2, SMT
  <2> HIDE DEF a, b
  <2> QED
    BY <2>1, <2>2, Tuples, SMT DEF Text
<1>3. CASE cp >= 2048
  <2> DEFINE a == 224 + (cp \div 4096)  b == 128 + ((cp \div 64) % 64)  c == 128 + (cp % 64)
  <2>1. Utf8(cp) = <<a, b, c>>
    BY <1>3, SMTT(30) DEF Utf8
  <2>2. a \in 0 .. 255 /\ b \in 0 .. 255 /\ c \in 0 .. 255
    BY <1>3, SMT
  <2> HIDE DEF a, b, c
  <2> QED
    BY <2>1, <2>2, Tuples, SMT DEF Text
<1> QED
  BY <1>1, <1>2, <1>3, SMT

--------------------------------------------------------------------------------
(* The parser stays in its text, its strings and its tables *)

\* The types of the values and of the calls under way, pointwise.
LEMMA NodesAre ==
  ASSUME TypeJson
  PROVE  /\ Len(nodes) \in Nat /\ DOMAIN nodes = 1 .. Len(nodes)
         /\ \A i \in 1 .. Len(nodes) : nodes[i] \in Node
         /\ Len(frames) \in Nat /\ DOMAIN frames = 1 .. Len(frames)
         /\ \A j \in 1 .. Len(frames) : frames[j].node \in 1 .. Len(nodes) /\ frames[j].cap \in Nat
         /\ frames # <<>> => Len(frames) \in 1 .. Len(frames)
<1>1. nodes \in Seq(Node) /\ frames \in Seq([node : DOMAIN nodes, cap : Nat])
  BY DEF TypeJson
<1>2. Len(nodes) \in Nat /\ DOMAIN nodes = 1 .. Len(nodes) /\ \A i \in 1 .. Len(nodes) : nodes[i] \in Node
  BY <1>1, LenProperties, ElementOfSeq
<1>3. /\ Len(frames) \in Nat /\ DOMAIN frames = 1 .. Len(frames)
      /\ \A j \in 1 .. Len(frames) : frames[j] \in [node : DOMAIN nodes, cap : Nat]
  BY <1>1, LenProperties, ElementOfSeq
<1>4. \A j \in 1 .. Len(frames) : frames[j].node \in 1 .. Len(nodes) /\ frames[j].cap \in Nat
  BY <1>2, <1>3
<1>5. frames # <<>> => Len(frames) \in Nat \ {0}
  BY <1>1, EmptySeq
<1>6. frames # <<>> => Len(frames) \in 1 .. Len(frames)
  BY <1>5
<1> QED
  BY <1>2, <1>3, <1>4, <1>6

\* Every block that is allocated is one of Blocks.
LEMMA BlocksAre ==
  ASSUME NEW i \in Nat, NEW k \in Nat
  PROVE  {Own(i), TextOf(i), Table(i), KeyOf(i, k)} \subseteq Blocks
BY DEF Own, TextOf, Table, KeyOf, Blocks

\* One more node.
LEMMA NodesGrow ==
  ASSUME TypeJson, NEW node \in Node, nodes' = Append(nodes, node)
  PROVE  /\ nodes' \in Seq(Node) /\ Len(nodes') = Len(nodes) + 1
         /\ DOMAIN nodes' = 1 .. Len(nodes) + 1
         /\ \A i \in 1 .. Len(nodes) : nodes'[i] = nodes[i]
         /\ nodes'[Fresh] = node
         /\ Fresh \in 1 .. Len(nodes) + 1 /\ Fresh \in Nat
         /\ \A j \in 1 .. Len(frames) : nodes'[frames[j].node] = nodes[frames[j].node]
         /\ frames \in Seq([node : DOMAIN nodes', cap : Nat])
<1>1. nodes \in Seq(Node) /\ frames \in Seq([node : DOMAIN nodes, cap : Nat])
  BY DEF TypeJson
<1>2. /\ nodes' \in Seq(Node) /\ Len(nodes') = Len(nodes) + 1
      /\ \A i \in 1 .. Len(nodes) : nodes'[i] = nodes[i]
      /\ nodes'[Len(nodes) + 1] = node
  BY <1>1, AppendProperties
<1>3. DOMAIN nodes' = 1 .. Len(nodes) + 1
  <2>1. DOMAIN nodes' = 1 .. Len(nodes')
    BY <1>2, LenProperties
  <2> QED
    BY <1>2, <2>1
<1>4. Fresh \in 1 .. Len(nodes) + 1 /\ Fresh \in Nat
  BY NodesAre DEF Fresh
<1>5. \A j \in 1 .. Len(frames) : nodes'[frames[j].node] = nodes[frames[j].node]
  BY <1>2, NodesAre
<1>6. frames \in Seq([node : DOMAIN nodes', cap : Nat])
  <2> DEFINE S == [node : DOMAIN nodes, cap : Nat]  T == [node : DOMAIN nodes', cap : Nat]
  <2>1. DOMAIN nodes \subseteq DOMAIN nodes'
    BY <1>3, NodesAre
  <2>2. S \subseteq T /\ frames \in Seq(S)
    BY <1>1, <2>1
  <2> HIDE DEF S, T
  <2>3. frames \in Seq(T)
    BY <2>2, SeqMonotonic
  <2> QED
    BY <2>3 DEF T
<1> QED
  BY <1>2, <1>3, <1>4, <1>5, <1>6 DEF Fresh

\* A new value has no parts.
LEMMA MadeIs ==
  \A type \in {"object", "array", "string", "number", "true", "false", "null"} :
    /\ Made(type) \in Node /\ Made(type).type = type
    /\ Made(type).keys = <<>> /\ Made(type).kids = <<>>
<1>1. <<>> \in Text /\ <<>> \in Seq(Text) /\ <<>> \in Seq(Nat)
  BY EmptySeq DEF Text
<1> QED
  BY <1>1 DEF Made, Node

\* A value that is complete at once.
LEMMA LeafJson ==
  ASSUME JsonInv, NEW node \in Node, NEW next \in Nat, next <= Len(text), Leaf(node, next)
  PROVE  JsonInv'
<1> USE DEF JsonInv
<1>1. /\ nodes' = Append(nodes, node) /\ live' = live \cup {Own(Fresh)}
      /\ cur' = Fresh /\ pos' = next /\ doing' = "store"
      /\ UNCHANGED <<text, frames, str, strCap, todo>>
  BY DEF Leaf
<1>2. /\ nodes' \in Seq(Node) /\ Len(nodes') = Len(nodes) + 1
      /\ Fresh \in 1 .. Len(nodes) + 1 /\ Fresh \in Nat
      /\ \A j \in 1 .. Len(frames) : nodes'[frames[j].node] = nodes[frames[j].node]
      /\ frames \in Seq([node : DOMAIN nodes', cap : Nat])
  BY <1>1, NodesGrow
<1>3. TypeJson'
  <2>1. cur' \in 0 .. Len(nodes')
    BY <1>1, <1>2, NodesAre
  <2>2. live' \subseteq Blocks
    BY <1>1, <1>2, BlocksAre DEF TypeJson
  <2> QED
    BY <1>1, <1>2, <2>1, <2>2 DEF TypeJson
<1>4. CursorInv'
  BY <1>1 DEF CursorInv
<1>5. FramesInv'
  BY <1>1, <1>2, NodesAre DEF FramesInv, Keyless
<1> QED
  BY <1>3, <1>4, <1>5

\* A bracket is read: the table has room, and no call was for this value before.
LEMMA OpenJson ==
  ASSUME JsonInv, NEW type \in DOMAIN Open, ParseOpen(type)
  PROVE  JsonInv'
<1> USE DEF JsonInv
<1> DEFINE at == Skip(pos)  next == Skip(at + 1)
<1>1. type \in {"object", "array"}
  BY DEF Open
<1>2. Open[type] # 0 /\ Closed[type] # 0
  BY <1>1 DEF Open, Closed
<1>3. text \in Text /\ pos \in Nat /\ pos <= Len(text)
  BY DEF TypeJson, CursorInv
<1>4. at \in Nat /\ at <= Len(text) /\ At(at) = Open[type]
  BY <1>3, SkipIs DEF ParseOpen
<1> HIDE DEF at
<1>5. at + 1 \in Nat /\ at + 1 <= Len(text)
  BY <1>2, <1>3, <1>4, AtIs
<1>6. next \in Nat /\ next <= Len(text)
  BY <1>3, <1>5, SkipIs
<1> HIDE DEF next
<1>7. Made(type) \in Node /\ Made(type).type = type /\ Made(type).kids = <<>> /\ Made(type).keys = <<>>
  BY <1>1, MadeIs
<1>8. CASE At(next) = Closed[type]
  <2>1. next + 1 \in Nat /\ next + 1 <= Len(text)
    BY <1>2, <1>3, <1>6, <1>8, AtIs
  <2>2. Leaf(Made(type), next + 1)
    BY <1>8 DEF ParseOpen, next, at
  <2> QED
    BY <1>7, <2>1, <2>2, LeafJson
<1>9. CASE At(next) # Closed[type]
  <2> DEFINE frame == [node |-> Fresh, cap |-> TableCap]
  <2>1. /\ nodes' = Append(nodes, Made(type))
        /\ live' = live \cup {Own(Fresh), Table(Fresh)}
        /\ frames' = Append(frames, frame)
        /\ pos' = next
        /\ doing' = IF type = "object" THEN "key" ELSE "value"
        /\ UNCHANGED <<text, cur, str, strCap, todo>>
    BY <1>9 DEF ParseOpen, next, at
  <2>2. /\ nodes' \in Seq(Node) /\ Len(nodes') = Len(nodes) + 1
        /\ DOMAIN nodes' = 1 .. Len(nodes) + 1 /\ nodes'[Fresh] = Made(type)
        /\ Fresh \in 1 .. Len(nodes) + 1 /\ Fresh \in Nat
        /\ \A j \in 1 .. Len(frames) : nodes'[frames[j].node] = nodes[frames[j].node]
        /\ frames \in Seq([node : DOMAIN nodes', cap : Nat])
    BY <1>7, <2>1, NodesGrow
  <2>3. frame \in [node : DOMAIN nodes', cap : Nat] /\ frame.node = Fresh /\ frame.cap = TableCap
    BY <2>2, JsonAssumption
  <2> HIDE DEF frame
  <2>4. /\ frames' \in Seq([node : DOMAIN nodes', cap : Nat])
        /\ Len(frames') = Len(frames) + 1 /\ frames' # <<>>
        /\ \A j \in 1 .. Len(frames) : frames'[j] = frames[j]
        /\ frames'[Len(frames) + 1] = frame
    <3> DEFINE S == [node : DOMAIN nodes', cap : Nat]
    <3>1. frames \in Seq(S) /\ frame \in S
      BY <2>2, <2>3
    <3> HIDE DEF S
    <3>2. /\ frames' \in Seq(S)
          /\ Len(frames') = Len(frames) + 1 /\ frames' # <<>>
          /\ \A j \in 1 .. Len(frames) : frames'[j] = frames[j]
          /\ frames'[Len(frames) + 1] = frame
      BY <2>1, <3>1, AppendProperties
    <3> QED
      BY <3>2 DEF S
  <2>5. DOMAIN frames' = 1 .. Len(frames) + 1
    <3>1. DOMAIN frames' = 1 .. Len(frames')
      BY <2>4, LenProperties
    <3> QED
      BY <2>4, <3>1
  <2>6. TypeJson'
    <3>1. cur' \in 0 .. Len(nodes')
      BY <2>1, <2>2, NodesAre DEF TypeJson
    <3>2. live' \subseteq Blocks
      BY <2>1, <2>2, BlocksAre DEF TypeJson
    <3> QED
      BY <1>3, <1>6, <2>1, <2>2, <2>4, <3>1, <3>2 DEF TypeJson
  <2>7. CursorInv'
    BY <1>6, <2>1 DEF CursorInv
  <2>8. \A j \in DOMAIN frames' :
          /\ frames'[j].cap >= 1 /\ Len(nodes'[frames'[j].node].kids) <= frames'[j].cap
          /\ nodes'[frames'[j].node].type \in {"object", "array"}
    <3> TAKE j \in DOMAIN frames'
    <3>1. CASE j \in 1 .. Len(frames)
      BY <2>2, <2>4, <3>1, NodesAre DEF FramesInv
    <3>2. CASE j = Len(frames) + 1
      <4>1. Len(<<>>) = 0 /\ TableCap >= 1
        BY JsonAssumption
      <4> QED
        BY <1>1, <1>7, <2>2, <2>3, <2>4, <3>2, <4>1
    <3> QED
      BY <2>5, <3>1, <3>2, NodesAre
  <2>9. \A j, l \in DOMAIN frames' : j < l => frames'[j].node < frames'[l].node
    <3> TAKE j, l \in DOMAIN frames'
    <3> HAVE j < l
    <3>1. j \in 1 .. Len(frames) /\ frames'[j].node = frames[j].node
      BY <2>4, <2>5, NodesAre
    <3>2. CASE l \in 1 .. Len(frames)
      BY <2>4, <3>1, <3>2, NodesAre DEF FramesInv
    <3>3. CASE l = Len(frames) + 1
      <4>1. frames[j].node \in 1 .. Len(nodes) /\ Len(nodes) \in Nat
        BY <3>1, NodesAre
      <4> QED
        BY <2>3, <2>4, <3>1, <3>3, <4>1 DEF Fresh
    <3> QED
      BY <2>5, <3>2, <3>3, NodesAre
  <2>10. Keyless' => frames' # <<>> /\ nodes'[Innermost'].type = "object"
    <3>1. Innermost' = Fresh
      BY <2>3, <2>4 DEF Innermost
    <3>2. Keyless' => doing' = "key"
      BY <2>1 DEF Keyless
    <3> QED
      BY <1>7, <2>1, <2>2, <2>4, <3>1, <3>2
  <2> QED
    BY <2>6, <2>7, <2>8, <2>9, <2>10 DEF FramesInv
<1> QED
  BY <1>8, <1>9

\* exit changes nothing but where the parser stands.
LEMMA ExitJson ==
  ASSUME JsonInv, Exit
  PROVE  JsonInv'
BY DEF JsonInv, Exit, TypeJson, CursorInv, FramesInv, Keyless

\* A string value starts with an empty block that has room.
LEMMA ParseStringJson ==
  ASSUME JsonInv, ParseString
  PROVE  JsonInv'
<1> USE DEF JsonInv
<1>1. text \in Text /\ pos \in Nat /\ pos <= Len(text)
  BY DEF TypeJson, CursorInv
<1>2. Made("string") \in Node
  BY MadeIs
<1>3. Skip(pos) \in Nat /\ At(Skip(pos)) = Quote
  BY <1>1, SkipIs DEF ParseString
<1> DEFINE next == Skip(pos) + 1
<1>4. next \in Nat /\ next <= Len(text)
  BY <1>1, <1>3, AtIs DEF Quote
<1>5. /\ nodes' = Append(nodes, Made("string")) /\ cur' = Fresh
      /\ live' = live \cup {Own(Fresh), TextOf(Fresh)}
      /\ str' = <<>> /\ strCap' = StringCap
      /\ pos' = next /\ doing' = "string"
      /\ UNCHANGED <<text, frames, todo>>
  BY DEF ParseString
<1> HIDE DEF next
<1>6. /\ nodes' \in Seq(Node) /\ Len(nodes') = Len(nodes) + 1
      /\ Fresh \in 1 .. Len(nodes) + 1 /\ Fresh \in Nat
      /\ \A j \in 1 .. Len(frames) : nodes'[frames[j].node] = nodes[frames[j].node]
      /\ frames \in Seq([node : DOMAIN nodes', cap : Nat])
  BY <1>2, <1>5, NodesGrow
<1>7. <<>> \in Text /\ Len(<<>>) = 0
  BY EmptySeq DEF Text
<1>8. TypeJson'
  <2>1. cur' \in 0 .. Len(nodes')
    BY <1>5, <1>6, NodesAre
  <2>2. live' \subseteq Blocks
    BY <1>5, <1>6, BlocksAre DEF TypeJson
  <2> QED
    BY <1>4, <1>5, <1>6, <1>7, <2>1, <2>2, JsonAssumption DEF TypeJson
<1>9. CursorInv'
  BY <1>4, <1>5, <1>7, JsonAssumption DEF CursorInv
<1>10. FramesInv'
  <2>1. ~Keyless'
    BY <1>5, <1>6 DEF Keyless
  <2> QED
    BY <1>5, <1>6, <2>1, NodesAre DEF FramesInv
<1> QED
  BY <1>8, <1>9, <1>10

\* true, false, null: the word is in the text as far as it is read.
LEMMA ParseLiteralJson ==
  ASSUME JsonInv, ParseLiteral
  PROVE  JsonInv'
<1> DEFINE at == Skip(pos)
<1>1. text \in Text /\ pos \in Nat /\ pos <= Len(text)
  BY DEF JsonInv, TypeJson, CursorInv
<1>2. at \in Nat
  BY <1>1, SkipIs
<1>3. PICK type \in DOMAIN Literals :
        IF \A k \in DOMAIN Literals[type] : At(at + k - 1) = Literals[type][k]
        THEN Leaf(Made(type), at + Len(Literals[type])) ELSE Exit
  BY DEF ParseLiteral
<1> HIDE DEF at
<1> DEFINE lit == Literals[type]
<1>4. type \in {"true", "false", "null"}
  BY DEF Literals
<1>5. /\ Len(lit) \in Nat /\ Len(lit) >= 1 /\ Len(lit) \in DOMAIN lit
      /\ lit[Len(lit)] # 0
  <2>1. CASE type = "true"
    <3>1. lit = <<116, 114, 117, 101>>
      BY <2>1 DEF Literals
    <3> QED
      BY <3>1
  <2>2. CASE type = "false"
    <3>1. lit = <<102, 97, 108, 115, 101>>
      BY <2>2 DEF Literals
    <3> QED
      BY <3>1
  <2>3. CASE type = "null"
    <3>1. lit = <<110, 117, 108, 108>>
      BY <2>3 DEF Literals
    <3> QED
      BY <3>1
  <2> QED
    BY <1>4, <2>1, <2>2, <2>3
<1> HIDE DEF lit
<1>6. CASE \A k \in DOMAIN lit : At(at + k - 1) = lit[k]
  <2>1. At(at + Len(lit) - 1) # 0
    BY <1>5, <1>6
  <2>2. at + Len(lit) - 1 \in Nat /\ at + Len(lit) - 1 + 1 = at + Len(lit)
    BY <1>2, <1>5
  <2>3. at + Len(lit) \in Nat /\ at + Len(lit) <= Len(text)
    BY <1>1, <2>1, <2>2, AtIs
  <2>4. Leaf(Made(type), at + Len(lit))
    BY <1>3, <1>6 DEF lit
  <2>5. Made(type) \in Node
    BY <1>4, MadeIs
  <2> QED
    BY <2>3, <2>4, <2>5, LeafJson
<1>7. CASE ~\A k \in DOMAIN lit : At(at + k - 1) = lit[k]
  <2>1. Exit
    BY <1>3, <1>7 DEF lit
  <2> QED
    BY <2>1, ExitJson
<1> QED
  BY <1>6, <1>7

\* atof takes some of the characters, and none or the first of them.
LEMMA AtofIs ==
  ASSUME NEW s \in Text
  PROVE  /\ Atof(s) \in Text
         /\ Atof(s) = <<>> \/ Atof(s)[1] = s[1]
<1>1. PICK l \in Nat : l = Len(s)
  BY TextLen
<1> DEFINE Most(n) == /\ n = 0 \/ Decimal(s, n)
                      /\ \A k \in n + 1 .. Len(s) : ~Decimal(s, k)
           T == {m \in 0 .. l : m = l \/ Decimal(s, l - m)}
<1>2. PICK m \in T : \A j \in T : m <= j
  <2>1. l \in T /\ T \in SUBSET Nat
    OBVIOUS
  <2> HIDE DEF T
  <2> QED
    BY <2>1, Numbers!LeastNatural
<1>3. m \in 0 .. l /\ (m = l \/ Decimal(s, l - m))
  OBVIOUS
<1>4. ASSUME NEW k \in l - m + 1 .. l PROVE ~Decimal(s, k)
  <2>1. l - k \in 0 .. l /\ l - k < m /\ l - (l - k) = k
    BY <1>3, <1>4
  <2>2. l - k \notin T
    <3> HIDE DEF T
    <3> QED
      BY <1>2, <1>3, <2>1
  <2> QED
    BY <2>1, <2>2
<1>5. l - m \in 0 .. Len(s) /\ Most(l - m)
  <2>1. l - m \in 0 .. Len(s) /\ (l - m = 0 \/ Decimal(s, l - m))
    BY <1>1, <1>3
  <2> QED
    BY <1>1, <1>4, <2>1
<1> DEFINE n == CHOOSE x \in 0 .. Len(s) : Most(x)
<1>6. n \in 0 .. Len(s)
  <2> HIDE DEF Most
  <2> QED
    BY <1>5
<1>7. Atof(s) = SubSeq(s, 1, n)
  BY DEF Atof
<1> HIDE DEF n
<1>8. n \in Nat /\ n <= Len(s)
  BY <1>1, <1>6
<1>9. Atof(s) \in Text
  BY <1>7, <1>8, SubText
<1>10. CASE n = 0
  BY <1>7, <1>9, <1>10, SubSeqEmpty
<1>11. CASE n > 0
  <2>1. \A k \in 1 .. n : s[k] \in 0 .. 255
    BY <1>8, TextLen
  <2>2. SubSeq(s, 1, n)[1] = s[1 + 1 - 1]
    <3>1. 1 \in 1 .. n - 1 + 1 /\ 1 \in Int /\ n \in Int
      BY <1>8, <1>11
    <3> QED
      BY <2>1, <3>1, SubSeqProperties
  <2>3. 1 + 1 - 1 = 1
    OBVIOUS
  <2>4. Atof(s)[1] = s[1]
    BY <1>7, <2>2, <2>3, Zenon
  <2> QED
    BY <1>9, <2>4, Zenon
<1> QED
  BY <1>8, <1>10, <1>11

\* A number is cut to the size of the buffer.
LEMMA ParseNumberJson ==
  ASSUME JsonInv, ParseNumber
  PROVE  JsonInv'
<1> DEFINE at == Skip(pos)  end == NumberEnd(at)  digits == SubSeq(text, at + 1, end)
           kept == IF Len(digits) >= NumberCap THEN SubSeq(digits, 1, NumberCap - 1) ELSE digits
           node == [Made("number") EXCEPT !.text = Atof(kept)]
<1>1. text \in Text /\ pos \in Nat /\ pos <= Len(text)
  BY DEF JsonInv, TypeJson, CursorInv
<1>2. Leaf(node, end)
  BY DEF ParseNumber
<1>3. at \in Nat /\ at <= Len(text)
  BY <1>1, SkipIs
<1> HIDE DEF at
<1>4. end \in Nat /\ end <= Len(text)
  BY <1>1, <1>3, NumberEndIs
<1> HIDE DEF end
<1>5. digits \in Text
  BY <1>1, <1>3, <1>4, SubText
<1> HIDE DEF digits
<1>6. kept \in Text
  <2>1. CASE Len(digits) >= NumberCap
    <3>1. NumberCap - 1 \in Nat /\ NumberCap - 1 <= Len(digits) /\ 1 \in Nat \ {0}
      BY <1>5, <2>1, JsonAssumption, TextLen
    <3> QED
      BY <1>5, <2>1, <3>1, SubText
  <2>2. CASE ~(Len(digits) >= NumberCap)
    BY <1>5, <2>2
  <2> QED
    BY <2>1, <2>2
<1> HIDE DEF kept
<1>7. node \in Node
  <2>1. Made("number") \in Node
    BY MadeIs
  <2>2. Atof(kept) \in Text
    BY <1>6, AtofIs
  <2> QED
    BY <2>1, <2>2 DEF Node
<1> HIDE DEF node
<1> QED
  BY <1>2, <1>4, <1>7, LeafJson

\* The last value is complete.
LEMMA StoreRootJson ==
  ASSUME JsonInv, StoreRoot
  PROVE  JsonInv'
<1>1. text \in Text /\ pos \in Nat /\ pos <= Len(text)
  BY DEF JsonInv, TypeJson, CursorInv
<1>2. Skip(pos) \in Nat /\ Skip(pos) <= Len(text)
  BY <1>1, SkipIs
<1>3. pos' = Skip(pos) /\ doing' = "done" /\ UNCHANGED <<text, frames, cur, str, strCap, nodes, live, todo>>
  BY DEF StoreRoot
<1> QED
  BY <1>2, <1>3 DEF JsonInv, TypeJson, CursorInv, FramesInv, Keyless

\* One node changed.
LEMMA NodeChanged ==
  ASSUME TypeJson, NEW i \in 1 .. Len(nodes), NEW node \in Node, nodes' = [nodes EXCEPT ![i] = node]
  PROVE  /\ nodes' \in Seq(Node) /\ Len(nodes') = Len(nodes)
         /\ DOMAIN nodes' = 1 .. Len(nodes) /\ DOMAIN nodes' = DOMAIN nodes
         /\ \A j \in 1 .. Len(nodes) : nodes'[j] = IF j = i THEN node ELSE nodes[j]
<1>1. nodes \in Seq(Node)
  BY DEF TypeJson
<1>2. /\ nodes' \in Seq(Node) /\ Len(nodes') = Len(nodes)
      /\ \A j \in 1 .. Len(nodes) : nodes'[j] = IF j = i THEN node ELSE nodes[j]
  BY <1>1, ExceptSeq
<1>3. DOMAIN nodes' = DOMAIN nodes
  OBVIOUS
<1> QED
  BY <1>2, <1>3, NodesAre

\* The innermost call.
LEMMA TopIs ==
  ASSUME JsonInv, frames # <<>>
  PROVE  /\ Last(frames) = frames[Len(frames)] /\ Last(frames).node = Innermost
         /\ Innermost \in 1 .. Len(nodes) /\ nodes[Innermost] \in Node
         /\ Last(frames).cap \in Nat /\ Last(frames).cap >= 1
         /\ Len(nodes[Innermost].kids) \in Nat /\ Len(nodes[Innermost].kids) <= Last(frames).cap
         /\ nodes[Innermost].type \in {"object", "array"}
         /\ Len(frames) \in 1 .. Len(frames)
         /\ \A j \in 1 .. Len(frames) - 1 : j \in 1 .. Len(frames) /\ frames[j].node < Innermost
<1> DEFINE m == Len(frames)
<1>1. m \in 1 .. m /\ m \in Nat /\ DOMAIN frames = 1 .. m
  BY NodesAre DEF JsonInv
<1>2. Last(frames) = frames[m] /\ Last(frames).node = Innermost
  BY DEF Last, Innermost
<1>3. Innermost \in 1 .. Len(nodes) /\ nodes[Innermost] \in Node /\ frames[m].cap \in Nat
  BY <1>1, NodesAre DEF JsonInv, Innermost
<1>4. /\ frames[m].cap >= 1 /\ Len(nodes[Innermost].kids) <= frames[m].cap
      /\ nodes[Innermost].type \in {"object", "array"}
  BY <1>1 DEF JsonInv, FramesInv, Innermost
<1>5. Len(nodes[Innermost].kids) \in Nat
  <2>1. nodes[Innermost].kids \in Seq(Nat)
    BY <1>3 DEF Node
  <2> QED
    BY <2>1, LenProperties
<1>6. \A j \in 1 .. m - 1 : j \in 1 .. m /\ frames[j].node < Innermost
  <2>1. \A j \in 1 .. m - 1 : j \in 1 .. m /\ j < m
    BY <1>1
  <2> QED
    BY <1>1, <2>1 DEF JsonInv, FramesInv, Innermost
<1> QED
  BY <1>1, <1>2, <1>3, <1>4, <1>5, <1>6

\* A table takes one more value, doubled if it is full.
LEMMA TableTakes ==
  \A n, c \in Nat : n <= c /\ c >= 1 => Doubled(c, n >= c) \in Nat /\ n + 1 <= Doubled(c, n >= c)
                                        /\ Doubled(c, n >= c) >= 1
BY DEF Doubled

\* What StoreMember does, whichever of the three characters comes next.
Stored(cap, next) ==
  /\ nodes' = [nodes EXCEPT ![Innermost].kids = Append(@, cur)]
  /\ cap = Doubled(Last(frames).cap, Len(nodes[Innermost].kids) >= Last(frames).cap)
  /\ UNCHANGED <<text, str, strCap, live, todo>>
  /\ \/ /\ frames' = [frames EXCEPT ![Len(frames)].cap = cap]
        /\ doing' = (IF nodes[Innermost].type = "object" THEN "key" ELSE "value")
        /\ cur' = cur
     \/ frames' = Front(frames) /\ doing' = "store" /\ cur' = Innermost
     \/ frames' = [frames EXCEPT ![Len(frames)].cap = cap] /\ doing' = "exit" /\ cur' = cur
  /\ pos' = next /\ next \in Nat /\ next <= Len(text)

\* StoreMember is such a step.
LEMMA StoreMemberIs ==
  ASSUME JsonInv, StoreMember
  PROVE  \E cap, next : Stored(cap, next) /\ frames # <<>> /\ doing = "store"
<1> DEFINE at == Skip(pos)
           cap == Doubled(Last(frames).cap, Len(nodes[Innermost].kids) >= Last(frames).cap)
<1>1. text \in Text /\ pos \in Nat /\ pos <= Len(text)
  BY DEF JsonInv, TypeJson, CursorInv
<1>2. at \in Nat /\ at <= Len(text)
  BY <1>1, SkipIs
<1>3. frames # <<>> /\ doing = "store"
  BY DEF StoreMember
<1>4. Last(frames).node = Innermost /\ nodes[Innermost].type \in {"object", "array"}
  BY <1>3, TopIs
<1>5. /\ nodes' = [nodes EXCEPT ![Innermost].kids = Append(@, cur)]
      /\ \/ /\ At(at) = Comma
            /\ frames' = [frames EXCEPT ![Len(frames)].cap = cap]
            /\ doing' = IF nodes[Innermost].type = "object" THEN "key" ELSE "value"
            /\ pos' = at + 1 /\ cur' = cur
         \/ /\ At(at) = Closed[nodes[Innermost].type]
            /\ frames' = Front(frames)
            /\ doing' = "store" /\ cur' = Innermost /\ pos' = at + 1
         \/ /\ frames' = [frames EXCEPT ![Len(frames)].cap = cap]
            /\ doing' = "exit" /\ pos' = at /\ cur' = cur
      /\ UNCHANGED <<text, str, strCap, live, todo>>
  BY <1>4 DEF StoreMember
<1> HIDE DEF cap, at
<1>6. Comma # 0 /\ Closed[nodes[Innermost].type] # 0
  BY <1>4 DEF Comma, Closed
<1>7. At(at) # 0 => at + 1 \in Nat /\ at + 1 <= Len(text)
  BY <1>1, <1>2, AtIs
<1>8. Stored(cap, pos')
  <2>1. pos' \in Nat /\ pos' <= Len(text)
    BY <1>2, <1>5, <1>6, <1>7
  <2> QED
    BY <1>5, <2>1 DEF Stored, cap
<1> QED
  BY <1>3, <1>8

\* A call's table gets one more value.
LEMMA KidAppended ==
  ASSUME JsonInv, frames # <<>>, nodes' = [nodes EXCEPT ![Innermost].kids = Append(@, cur)]
  PROVE  /\ nodes' \in Seq(Node) /\ Len(nodes') = Len(nodes)
         /\ DOMAIN nodes' = 1 .. Len(nodes) /\ DOMAIN nodes' = DOMAIN nodes
         /\ \A j \in 1 .. Len(nodes) :
              /\ nodes'[j].type = nodes[j].type /\ nodes'[j].keys = nodes[j].keys
              /\ j # Innermost => nodes'[j] = nodes[j]
         /\ nodes'[Innermost].kids = Append(nodes[Innermost].kids, cur)
         /\ Append(nodes[Innermost].kids, cur) \in Seq(Nat)
         /\ Len(nodes'[Innermost].kids) = Len(nodes[Innermost].kids) + 1
<1> DEFINE top == nodes[Innermost]  node == [top EXCEPT !.kids = Append(@, cur)]
<1>1. Innermost \in 1 .. Len(nodes) /\ top \in Node
  BY TopIs
<1>2. cur \in Nat
  BY NodesAre DEF JsonInv, TypeJson
<1>3. top.kids \in Seq(Nat)
  BY <1>1 DEF Node
<1>4. Append(top.kids, cur) \in Seq(Nat) /\ Len(Append(top.kids, cur)) = Len(top.kids) + 1
  BY <1>2, <1>3, AppendProperties
<1>5. /\ node \in Node /\ node.type = top.type /\ node.keys = top.keys
      /\ node.kids = Append(top.kids, cur)
  BY <1>1, <1>4 DEF Node
<1>6. nodes' = [nodes EXCEPT ![Innermost] = node]
  OBVIOUS
<1> HIDE DEF node
<1>7. /\ nodes' \in Seq(Node) /\ Len(nodes') = Len(nodes)
      /\ DOMAIN nodes' = 1 .. Len(nodes) /\ DOMAIN nodes' = DOMAIN nodes
      /\ \A j \in 1 .. Len(nodes) : nodes'[j] = IF j = Innermost THEN node ELSE nodes[j]
  BY <1>1, <1>5, <1>6, NodeChanged DEF JsonInv
<1> QED
  BY <1>1, <1>4, <1>5, <1>7

\* The table of the innermost call is resized.
LEMMA CapSet ==
  ASSUME JsonInv, frames # <<>>, NEW cap \in Nat, frames' = [frames EXCEPT ![Len(frames)].cap = cap],
         DOMAIN nodes' = DOMAIN nodes
  PROVE  /\ frames' \in Seq([node : DOMAIN nodes', cap : Nat])
         /\ Len(frames') = Len(frames) /\ DOMAIN frames' = 1 .. Len(frames)
         /\ \A j \in 1 .. Len(frames) :
              /\ frames'[j].node = frames[j].node
              /\ frames'[j].cap = IF j = Len(frames) THEN cap ELSE frames[j].cap
<1> DEFINE S == [node : DOMAIN nodes', cap : Nat]  m == Len(frames)  top == [frames[m] EXCEPT !.cap = cap]
<1>1. frames \in Seq(S)
  BY DEF JsonInv, TypeJson
<1>2. m \in 1 .. Len(frames) /\ DOMAIN frames = 1 .. Len(frames)
  BY NodesAre DEF JsonInv
<1>3. frames[m] \in S
  <2> HIDE DEF S
  <2> QED
    BY <1>1, <1>2, ElementOfSeq
<1>4. top \in S /\ top.node = frames[m].node /\ top.cap = cap
  BY <1>3
<1>5. frames' = [frames EXCEPT ![m] = top]
  OBVIOUS
<1> HIDE DEF top, S
<1>6. /\ frames' \in Seq(S) /\ Len(frames') = Len(frames)
      /\ \A j \in 1 .. Len(frames) : frames'[j] = IF j = m THEN top ELSE frames[j]
  BY <1>1, <1>2, <1>4, <1>5, ExceptSeq
<1>7. DOMAIN frames' = 1 .. Len(frames)
  BY <1>2, <1>5
<1> QED
  BY <1>4, <1>6, <1>7 DEF S

\* The innermost call returns.
LEMMA FrontIs ==
  ASSUME JsonInv, frames # <<>>, frames' = Front(frames), DOMAIN nodes' = DOMAIN nodes
  PROVE  /\ frames' \in Seq([node : DOMAIN nodes', cap : Nat])
         /\ Len(frames') = Len(frames) - 1 /\ DOMAIN frames' = 1 .. Len(frames) - 1
         /\ \A j \in 1 .. Len(frames) - 1 : frames'[j] = frames[j]
<1> DEFINE S == [node : DOMAIN nodes', cap : Nat]  m == Len(frames)
<1>1. frames \in Seq(S)
  BY DEF JsonInv, TypeJson
<1>2. m \in 1 .. m /\ m \in Nat
  BY NodesAre DEF JsonInv
<1>3. \A j \in 1 .. m - 1 : frames[j] \in S
  <2> HIDE DEF S
  <2>1. \A j \in 1 .. m - 1 : j \in 1 .. m
    BY <1>2
  <2> QED
    BY <1>1, <2>1, ElementOfSeq
<1>4. frames' = SubSeq(frames, 1, m - 1)
  BY DEF Front
<1> HIDE DEF S
<1>5. /\ frames' \in Seq(S)
      /\ Len(frames') = IF 1 <= m - 1 THEN m - 1 - 1 + 1 ELSE 0
      /\ \A j \in 1 .. m - 1 - 1 + 1 : frames'[j] = frames[1 + j - 1]
  <2>1. 1 \in Int /\ m - 1 \in Int
    BY <1>2
  <2> HIDE DEF m
  <2> QED
    BY <1>3, <1>4, <2>1, SubSeqProperties
<1> HIDE DEF m
<1>6. Len(frames') = m - 1 /\ \A j \in 1 .. m - 1 : frames'[j] = frames[j]
  BY <1>2, <1>5
<1>7. DOMAIN frames' = 1 .. m - 1
  BY <1>5, <1>6, LenProperties
<1> QED
  BY <1>5, <1>6, <1>7 DEF S, m

\* A value goes into a table that has room for it.
LEMMA StoreMemberJson ==
  ASSUME JsonInv, StoreMember
  PROVE  JsonInv'
<1>1. PICK cap, next : Stored(cap, next) /\ frames # <<>> /\ doing = "store"
  BY StoreMemberIs
<1> DEFINE m == Len(frames)
<1>2. /\ nodes' \in Seq(Node) /\ Len(nodes') = Len(nodes) /\ DOMAIN nodes' = DOMAIN nodes
      /\ \A j \in 1 .. Len(nodes) :
           nodes'[j].type = nodes[j].type /\ (j # Innermost => nodes'[j] = nodes[j])
      /\ Len(nodes'[Innermost].kids) = Len(nodes[Innermost].kids) + 1
  BY <1>1, KidAppended DEF Stored
<1>3. /\ cap \in Nat /\ cap >= 1 /\ Len(nodes[Innermost].kids) + 1 <= cap
      /\ Innermost \in 1 .. Len(nodes) /\ nodes[Innermost].type \in {"object", "array"}
      /\ m \in 1 .. m /\ \A j \in 1 .. m - 1 : j \in 1 .. m /\ frames[j].node < Innermost
  <2>1. cap = Doubled(Last(frames).cap, Len(nodes[Innermost].kids) >= Last(frames).cap)
    BY <1>1 DEF Stored
  <2> QED
    BY <1>1, <2>1, TopIs, TableTakes
<1>4. /\ Len(nodes) \in Nat /\ m \in Nat /\ DOMAIN frames = 1 .. m
      /\ \A j \in 1 .. m : frames[j].node \in 1 .. Len(nodes)
      /\ \A j \in 1 .. m :
           /\ frames[j].cap >= 1 /\ Len(nodes[frames[j].node].kids) <= frames[j].cap
           /\ nodes[frames[j].node].type \in {"object", "array"}
      /\ \A j, l \in 1 .. m : j < l => frames[j].node < frames[l].node
  BY NodesAre DEF JsonInv, FramesInv
<1>5. Innermost = frames[m].node /\ m = Len(frames)
  BY DEF Innermost
\* A call further out has another value.
<1>6. \A j \in 1 .. m - 1 : nodes'[frames[j].node] = nodes[frames[j].node]
  <2> TAKE j \in 1 .. m - 1
  <2>1. frames[j].node # Innermost /\ frames[j].node \in 1 .. Len(nodes)
    BY <1>3, <1>4
  <2> QED
    BY <1>2, <2>1
<1>7. /\ text \in Text /\ text' = text /\ str' = str /\ strCap' = strCap
      /\ live' = live /\ todo' = todo /\ pos' \in Nat /\ pos' <= Len(text)
      /\ doing' # "string" /\ doing' \in {"key", "value", "store", "exit"}
      /\ doing' = "key" => nodes[Innermost].type = "object"
      /\ cur' \in 0 .. Len(nodes')
  <2>1. cur \in 0 .. Len(nodes) /\ Innermost \in 0 .. Len(nodes) /\ text \in Text
    BY <1>3, <1>4 DEF JsonInv, TypeJson
  <2>2. /\ UNCHANGED <<text, str, strCap, live, todo>>
        /\ pos' = next /\ next \in Nat /\ next <= Len(text)
    BY <1>1 DEF Stored
  <2>3. \/ doing' = (IF nodes[Innermost].type = "object" THEN "key" ELSE "value") /\ cur' = cur
        \/ doing' = "store" /\ cur' = Innermost
        \/ doing' = "exit" /\ cur' = cur
    BY <1>1 DEF Stored
  <2>4. /\ doing' # "string" /\ doing' \in {"key", "value", "store", "exit"}
        /\ doing' = "key" => nodes[Innermost].type = "object"
        /\ cur' = cur \/ cur' = Innermost
    BY <2>3
  <2> QED
    BY <1>2, <2>1, <2>2, <2>4
<1> HIDE DEF m
<1>8. frames' \in Seq([node : DOMAIN nodes', cap : Nat]) => TypeJson' /\ CursorInv'
  BY <1>2, <1>7 DEF JsonInv, TypeJson, CursorInv
<1>9. CASE frames' = [frames EXCEPT ![m].cap = cap]
  <2>1. /\ frames' \in Seq([node : DOMAIN nodes', cap : Nat])
        /\ Len(frames') = m /\ DOMAIN frames' = 1 .. m
        /\ \A j \in 1 .. m :
             /\ frames'[j].node = frames[j].node
             /\ frames'[j].cap = IF j = m THEN cap ELSE frames[j].cap
    BY <1>1, <1>2, <1>3, <1>5, <1>9, CapSet, ZenonT(40)
  <2>2. \A j \in 1 .. m :
          /\ frames'[j].cap >= 1 /\ Len(nodes'[frames'[j].node].kids) <= frames'[j].cap
          /\ nodes'[frames'[j].node].type \in {"object", "array"}
    <3> TAKE j \in 1 .. m
    <3>1. CASE j = m
      BY <1>2, <1>3, <1>5, <2>1, <3>1
    <3>2. CASE j # m
      <4>1. j \in 1 .. m - 1
        BY <1>4, <3>2
      <4> QED
        BY <1>4, <1>6, <2>1, <3>2, <4>1
    <3> QED
      BY <3>1, <3>2
  <2>3. \A j, l \in 1 .. m : j < l => frames'[j].node < frames'[l].node
    BY <1>4, <2>1
  <2>4. Keyless' => frames' # <<>> /\ nodes'[Innermost'].type = "object"
    <3>1. Keyless' => nodes[Innermost].type = "object"
      BY <1>7 DEF Keyless
    <3>2. Innermost' = Innermost
      BY <1>3, <1>5, <2>1 DEF Innermost
    <3>3. frames' # <<>>
      BY <1>3, <2>1, EmptySeq
    <3> QED
      BY <1>2, <1>3, <3>1, <3>2, <3>3
  <2> QED
    BY <1>8, <2>1, <2>2, <2>3, <2>4 DEF JsonInv, FramesInv
<1>10. CASE frames' = Front(frames) /\ doing' = "store"
  <2>1. /\ frames' \in Seq([node : DOMAIN nodes', cap : Nat])
        /\ DOMAIN frames' = 1 .. m - 1
        /\ \A j \in 1 .. m - 1 : frames'[j] = frames[j] /\ j \in 1 .. m
    BY <1>1, <1>2, <1>3, <1>5, <1>10, FrontIs
  <2>2. \A j \in 1 .. m - 1 :
          /\ frames'[j].cap >= 1 /\ Len(nodes'[frames'[j].node].kids) <= frames'[j].cap
          /\ nodes'[frames'[j].node].type \in {"object", "array"}
    BY <1>4, <1>6, <2>1
  <2>3. \A j, l \in 1 .. m - 1 : j < l => frames'[j].node < frames'[l].node
    BY <1>4, <2>1
  <2>4. ~Keyless'
    BY <1>10 DEF Keyless
  <2> QED
    BY <1>8, <2>1, <2>2, <2>3, <2>4 DEF JsonInv, FramesInv
<1> QED
  BY <1>1, <1>5, <1>9, <1>10 DEF Stored

\* The block of a string takes up to four more bytes and a zero, doubled if need be.
LEMMA RoomIs ==
  \A l, c, n, need \in Nat : l < c /\ c >= 4 /\ n <= need /\ n <= 4 =>
    Room(l, c, need) \in Nat /\ l + n < Room(l, c, need) /\ Room(l, c, need) >= 4
BY DEF Room, Doubled

\* Characters go into a block that has room for them.
LEMMA PutJson ==
  ASSUME JsonInv, doing = "string", NEW bytes \in Text, NEW need \in Nat, NEW next \in Nat,
         Len(bytes) <= need, Len(bytes) <= 4, next <= Len(text), Put(bytes, need, next)
  PROVE  JsonInv'
<1>1. /\ str' = str \o bytes /\ strCap' = Room(Len(str), strCap, need) /\ pos' = next
      /\ UNCHANGED <<text, doing, frames, cur, nodes, live, todo>>
  BY DEF Put
<1>2. str \in Text /\ strCap \in Nat /\ Len(str) < strCap /\ strCap >= 4
  BY DEF JsonInv, TypeJson, CursorInv
<1>3. str' \in Text /\ Len(str') = Len(str) + Len(bytes) /\ Len(str) \in Nat /\ Len(bytes) \in Nat
  BY <1>1, <1>2, ConcatText, TextLen
<1>4. strCap' \in Nat /\ Len(str') < strCap' /\ strCap' >= 4
  <2> DEFINE l == Len(str)  n == Len(bytes)
  <2>1. l \in Nat /\ n \in Nat /\ l < strCap /\ n <= need /\ n <= 4
    BY <1>2, <1>3
  <2> HIDE DEF l, n
  <2>2. Room(l, strCap, need) \in Nat /\ l + n < Room(l, strCap, need) /\ Room(l, strCap, need) >= 4
    BY <1>2, <2>1, RoomIs
  <2>3. strCap' = Room(l, strCap, need) /\ Len(str') = l + n
    BY <1>1, <1>3 DEF l, n
  <2> QED
    BY <2>2, <2>3
<1>5. TypeJson'
  BY <1>1, <1>3, <1>4 DEF JsonInv, TypeJson
<1>6. CursorInv'
  BY <1>1, <1>4 DEF CursorInv
<1>7. FramesInv'
  BY <1>1 DEF JsonInv, FramesInv, Keyless, Innermost
<1> QED
  BY <1>5, <1>6, <1>7 DEF JsonInv

\* A byte is a text of one character.
LEMMA OneByte == \A c \in 0 .. 255 : <<c>> \in Text /\ Len(<<c>>) = 1
BY Tuples DEF Text

\* A character that stands for itself.
LEMMA StringCharJson ==
  ASSUME JsonInv, StringChar
  PROVE  JsonInv'
<1>1. text \in Text /\ pos \in Nat /\ pos <= Len(text)
  BY DEF JsonInv, TypeJson, CursorInv
<1>2. doing = "string" /\ At(pos) # 0 /\ Put(<<At(pos)>>, 1, pos + 1)
  BY DEF StringChar
<1>3. At(pos) \in 0 .. 255 /\ pos + 1 \in Nat /\ pos + 1 <= Len(text)
  BY <1>1, <1>2, AtIs
<1> DEFINE bytes == <<At(pos)>>  next == pos + 1
<1>4. bytes \in Text /\ Len(bytes) = 1
  BY <1>3, OneByte
<1>5. Put(bytes, 1, next) /\ next \in Nat /\ next <= Len(text)
  BY <1>2, <1>3
<1> HIDE DEF bytes, next
<1>6. 1 \in Nat /\ Len(bytes) <= 1 /\ Len(bytes) <= 4
  BY <1>4
<1> QED
  BY <1>2, <1>4, <1>5, <1>6, PutJson

\* A character behind a backslash.
LEMMA StringEscapeJson ==
  ASSUME JsonInv, StringEscape
  PROVE  JsonInv'
<1>1. text \in Text /\ pos \in Nat /\ pos <= Len(text)
  BY DEF JsonInv, TypeJson, CursorInv
<1> DEFINE c == At(pos + 1)  bytes == <<Escapes[c]>>  next == pos + 2
<1>2. doing = "string" /\ At(pos) # 0
  BY DEF StringEscape, Backslash
<1>3. CASE c \in DOMAIN Escapes
  <2>1. Put(bytes, 1, next)
    BY <1>3 DEF StringEscape
  <2>2. c # 0 /\ Escapes[c] \in 0 .. 255
    BY <1>3 DEF Escapes
  <2>3. pos + 1 \in Nat
    BY <1>1
  <2>4. pos + 1 + 1 <= Len(text)
    BY <1>1, <2>2, <2>3, AtIs
  <2>5. next \in Nat /\ next <= Len(text)
    BY <1>1, <2>4, TextLen
  <2>6. bytes \in Text /\ Len(bytes) = 1
    BY <2>2, OneByte
  <2> HIDE DEF bytes, next
  <2>7. 1 \in Nat /\ Len(bytes) <= 1 /\ Len(bytes) <= 4
    BY <2>6
  <2> QED
    BY <1>2, <2>1, <2>5, <2>6, <2>7, PutJson
<1>4. CASE c \notin DOMAIN Escapes
  <2>1. Exit
    BY <1>4 DEF StringEscape
  <2> QED
    BY <2>1, ExitJson
<1> QED
  BY <1>3, <1>4

\* Four digits, or an end of the text among them.
LEMMA StringCodeJson ==
  ASSUME JsonInv, StringCode
  PROVE  JsonInv' /\ (doing' = "undefined" => CutInside(text)') /\ doing' \in {"string", "undefined"}
<1>1. text \in Text /\ pos \in Nat /\ pos <= Len(text) /\ Len(text) \in Nat
  BY TextLen DEF JsonInv, TypeJson, CursorInv
<1>2. doing = "string" /\ At(pos) = Backslash /\ At(pos + 1) = Letter_u
  BY DEF StringCode
<1>3. pos < Len(text) /\ pos + 1 < Len(text)
  <2>1. At(pos) # 0 /\ At(pos + 1) # 0 /\ pos + 1 \in Nat
    BY <1>1, <1>2 DEF Backslash, Letter_u
  <2>2. pos + 1 + 1 <= Len(text)
    BY <1>1, <2>1, AtIs
  <2> QED
    BY <1>1, <2>2
<1>4. CASE pos + 6 <= Len(text)
  <2> DEFINE four == SubSeq(text, pos + 3, pos + 6)  cp == Codepoint(four)  bytes == Utf8(cp)  next == pos + 6
  <2>1. Put(bytes, 4, next)
    BY <1>4 DEF StringCode
  <2>2. four \in Text /\ Len(four) = 4
    <3>1. pos + 3 \in Nat \ {0} /\ pos + 6 \in Nat
      BY <1>1
    <3>2. four \in Text
      BY <1>1, <1>4, <3>1, SubText
    <3>3. pos + 3 \in 1 .. Len(text) + 1 /\ pos + 6 \in Nat /\ pos + 3 <= pos + 6
      BY <1>1, <1>4
    <3>4. \A i \in pos + 3 .. pos + 6 : text[i] \in 0 .. 255
      <4>1. \A i \in pos + 3 .. pos + 6 : i \in 1 .. Len(text)
        BY <1>1, <1>4
      <4> QED
        BY <1>1, <4>1, TextLen
    <3>5. Len(four) = IF pos + 3 <= pos + 6 THEN pos + 6 - (pos + 3) + 1 ELSE 0
      BY <1>1, <3>1, <3>4, SubSeqProperties
    <3> QED
      BY <1>1, <3>2, <3>5
  <2> HIDE DEF four
  <2>3. cp \in Nat /\ cp <= 65535
    BY <2>2, CodepointIs
  <2> HIDE DEF cp
  <2>4. bytes \in Text /\ Len(bytes) <= 3
    BY <2>3, Utf8Is
  <2>5. next \in Nat /\ next <= Len(text)
    BY <1>1, <1>4
  <2> HIDE DEF bytes, next
  <2>6. 4 \in Nat /\ Len(bytes) <= 4
    BY <2>4, TextLen
  <2>7. JsonInv'
    BY <1>2, <2>1, <2>4, <2>5, <2>6, PutJson
  <2>8. doing' = "string"
    BY <1>2, <2>1 DEF Put
  <2> QED
    BY <2>7, <2>8
<1>5. CASE ~(pos + 6 <= Len(text))
  <2>1. doing' = "undefined" /\ UNCHANGED <<text, pos, frames, cur, str, strCap, nodes, live, todo>>
    BY <1>5 DEF StringCode
  <2>2. JsonInv'
    BY <2>1 DEF JsonInv, TypeJson, CursorInv, FramesInv, Keyless
  <2>3. CutInside(text)
    <3>1. text[pos + 1] = Backslash /\ text[pos + 1 + 1] = Letter_u
      BY <1>2, <1>3 DEF At
    <3>2. pos + 1 \in 1 .. Len(text) - 1 /\ pos + 1 + 5 > Len(text)
      BY <1>1, <1>3, <1>5
    <3> QED
      BY <3>1, <3>2 DEF CutInside
  <2> QED
    BY <2>1, <2>2, <2>3
<1> QED
  BY <1>4, <1>5

\* A key starts with an empty block that has room.
LEMMA ParseKeyJson ==
  ASSUME JsonInv, ParseKey
  PROVE  JsonInv'
<1>1. text \in Text /\ pos \in Nat /\ pos <= Len(text)
  BY DEF JsonInv, TypeJson, CursorInv
<1> DEFINE at == Skip(pos)
<1>2. at \in Nat /\ at <= Len(text)
  BY <1>1, SkipIs
<1>3. CASE At(at) # Quote
  BY <1>3, ExitJson DEF ParseKey
<1>4. CASE At(at) = Quote
  <2>0. doing = "key"
    BY DEF ParseKey
  <2>1. frames # <<>> /\ nodes[Innermost].type = "object"
    BY <2>0 DEF JsonInv, FramesInv, Keyless
  <2> DEFINE n == Len(nodes[Innermost].keys) + 1
  <2>2. /\ live' = live \cup {KeyOf(Innermost, n)}
        /\ str' = <<>> /\ strCap' = StringCap /\ cur' = 0
        /\ pos' = at + 1 /\ doing' = "string"
        /\ UNCHANGED <<text, frames, nodes, todo>>
    BY <1>4, <2>1, TopIs DEF ParseKey
  <2>3. Innermost \in Nat /\ n \in Nat
    <3>1. Innermost \in 1 .. Len(nodes) /\ nodes[Innermost] \in Node
      BY <2>1, TopIs
    <3>2. nodes[Innermost].keys \in Seq(Text)
      BY <3>1 DEF Node
    <3> QED
      BY <3>1, <3>2, LenProperties
  <2>4. at + 1 \in Nat /\ at + 1 <= Len(text)
    BY <1>1, <1>2, <1>4, AtIs DEF Quote
  <2>5. <<>> \in Text /\ Len(<<>>) = 0
    BY EmptySeq DEF Text
  <2> HIDE DEF at, n
  <2>6. TypeJson'
    <3>1. live' \subseteq Blocks
      BY <2>2, <2>3, BlocksAre DEF JsonInv, TypeJson
    <3>2. cur' \in 0 .. Len(nodes')
      BY <2>2, NodesAre DEF JsonInv
    <3> QED
      BY <2>2, <2>4, <2>5, <3>1, <3>2, JsonAssumption DEF JsonInv, TypeJson
  <2>7. CursorInv'
    BY <2>2, <2>4, <2>5, JsonAssumption DEF CursorInv
  <2>8. FramesInv'
    BY <2>1, <2>2 DEF JsonInv, FramesInv, Innermost
  <2> QED
    BY <2>6, <2>7, <2>8 DEF JsonInv
<1> QED
  BY <1>3, <1>4

\* One node changed in its text or keys.
LEMMA SameTables ==
  ASSUME JsonInv, NEW i \in 1 .. Len(nodes), NEW node \in Node, nodes' = [nodes EXCEPT ![i] = node],
         node.type = nodes[i].type, node.kids = nodes[i].kids,
         UNCHANGED <<text, frames, cur, str, strCap, live, todo>>,
         pos' \in Nat, pos' <= Len(text), doing' \in {"store", "value", "exit"}
  PROVE  JsonInv'
<1>1. /\ nodes' \in Seq(Node) /\ Len(nodes') = Len(nodes) /\ DOMAIN nodes' = DOMAIN nodes
      /\ \A j \in 1 .. Len(nodes) : nodes'[j].type = nodes[j].type /\ nodes'[j].kids = nodes[j].kids
  BY NodeChanged DEF JsonInv
<1>2. TypeJson'
  BY <1>1 DEF JsonInv, TypeJson
<1>3. CursorInv'
  BY DEF CursorInv
<1>4. FramesInv'
  <2>1. ~Keyless'
    BY DEF Keyless
  <2>2. \A j \in DOMAIN frames : frames[j].node \in 1 .. Len(nodes)
    BY NodesAre DEF JsonInv
  <2> QED
    BY <1>1, <2>1, <2>2 DEF JsonInv, FramesInv
<1> QED
  BY <1>2, <1>3, <1>4 DEF JsonInv

\* A node with its text set, or one more key.
LEMMA TextSet ==
  ASSUME NEW node \in Node, NEW s \in Text
  PROVE  /\ [node EXCEPT !.text = s] \in Node /\ [node EXCEPT !.text = s].type = node.type
         /\ [node EXCEPT !.text = s].kids = node.kids /\ [node EXCEPT !.text = s].keys = node.keys
         /\ [node EXCEPT !.text = s].text = s
BY DEF Node

\* An object with one more key.
LEMMA KeyAppended ==
  ASSUME NEW node \in Node, NEW s \in Text
  PROVE  /\ [node EXCEPT !.keys = Append(@, s)] \in Node /\ [node EXCEPT !.keys = Append(@, s)].type = node.type
         /\ [node EXCEPT !.keys = Append(@, s)].kids = node.kids
         /\ [node EXCEPT !.keys = Append(@, s)].keys = Append(node.keys, s)
         /\ Len(Append(node.keys, s)) = Len(node.keys) + 1
         /\ DOMAIN Append(node.keys, s) = 1 .. Len(node.keys) + 1
         /\ DOMAIN node.keys = 1 .. Len(node.keys) /\ Len(node.keys) \in Nat
<1>1. node.keys \in Seq(Text)
  BY DEF Node
<1> DEFINE more == Append(node.keys, s)
<1>2. more \in Seq(Text) /\ Len(more) = Len(node.keys) + 1
  BY <1>1, AppendProperties
<1>3. DOMAIN more = 1 .. Len(more) /\ DOMAIN node.keys = 1 .. Len(node.keys) /\ Len(node.keys) \in Nat
  BY <1>1, <1>2, LenProperties
<1> HIDE DEF more
<1>4. LET new == [node EXCEPT !.keys = more]
      IN  new \in Node /\ new.type = node.type /\ new.kids = node.kids /\ new.keys = more
  BY <1>2 DEF Node
<1> QED
  BY <1>2, <1>3, <1>4 DEF more

\* The closing quote, read one position on.
LEMMA StringEndIs ==
  ASSUME JsonInv, StringEnd
  PROVE  /\ doing = "string" /\ UNCHANGED <<text, frames, cur, str, strCap, live, todo>>
         /\ pos' \in Nat /\ pos' <= Len(text)
         /\ CString(str) \in Text
         /\ cur # 0 => /\ nodes' = [nodes EXCEPT ![cur].text = CString(str)] /\ doing' = "store"
                       /\ cur \in 1 .. Len(nodes) /\ nodes[cur] \in Node
         /\ cur = 0 => /\ nodes' = [nodes EXCEPT ![Innermost].keys = Append(@, CString(str))]
                       /\ doing' \in {"value", "exit"}
                       /\ frames # <<>> /\ Innermost \in 1 .. Len(nodes) /\ nodes[Innermost] \in Node
<1>1. text \in Text /\ pos \in Nat /\ pos <= Len(text) /\ str \in Text
  BY DEF JsonInv, TypeJson, CursorInv
<1>2. doing = "string" /\ At(pos) = Quote /\ UNCHANGED <<text, frames, cur, str, strCap, live, todo>>
  BY DEF StringEnd
<1>3. pos + 1 \in Nat /\ pos + 1 <= Len(text)
  BY <1>1, <1>2, AtIs DEF Quote
<1>4. CString(str) \in Text
  BY <1>1, CStringIs
<1>5. CASE cur # 0
  <2>1. nodes' = [nodes EXCEPT ![cur].text = CString(str)] /\ doing' = "store" /\ pos' = pos + 1
    BY <1>5 DEF StringEnd
  <2>2. cur \in 1 .. Len(nodes) /\ nodes[cur] \in Node
    BY <1>5, NodesAre DEF JsonInv, TypeJson
  <2> QED
    BY <1>2, <1>3, <1>4, <1>5, <2>1, <2>2
<1>6. CASE cur = 0
  <2>1. frames # <<>> /\ Innermost \in 1 .. Len(nodes) /\ nodes[Innermost] \in Node /\ Last(frames).node = Innermost
    <3>1. frames # <<>>
      BY <1>2, <1>6 DEF JsonInv, FramesInv, Keyless
    <3> QED
      BY <3>1, TopIs
  <2> DEFINE at == Skip(pos + 1)
  <2>2. at \in Nat /\ at <= Len(text)
    BY <1>1, <1>3, SkipIs
  <2>3. /\ nodes' = [nodes EXCEPT ![Innermost].keys = Append(@, CString(str))]
        /\ IF At(at) = Colon THEN pos' = at + 1 /\ doing' = "value" ELSE pos' = at /\ doing' = "exit"
    BY <1>6, <2>1 DEF StringEnd
  <2> HIDE DEF at
  <2>4. pos' \in Nat /\ pos' <= Len(text)
    <3>1. At(at) = Colon => at + 1 <= Len(text)
      BY <1>1, <2>2, AtIs DEF Colon
    <3> QED
      BY <2>2, <2>3, <3>1
  <2> QED
    BY <1>2, <1>4, <1>6, <2>1, <2>3, <2>4
<1> QED
  BY <1>5, <1>6

\* A string is complete, for a value or for a key.
LEMMA StringEndJson ==
  ASSUME JsonInv, StringEnd
  PROVE  JsonInv'
<1> DEFINE s == CString(str)
<1>1. /\ UNCHANGED <<text, frames, cur, str, strCap, live, todo>>
      /\ pos' \in Nat /\ pos' <= Len(text) /\ s \in Text
      /\ cur # 0 => /\ nodes' = [nodes EXCEPT ![cur].text = s] /\ doing' = "store"
                    /\ cur \in 1 .. Len(nodes) /\ nodes[cur] \in Node
      /\ cur = 0 => /\ nodes' = [nodes EXCEPT ![Innermost].keys = Append(@, s)]
                    /\ doing' \in {"value", "exit"}
                    /\ Innermost \in 1 .. Len(nodes) /\ nodes[Innermost] \in Node
  BY StringEndIs
<1> HIDE DEF s
<1>2. CASE cur # 0
  <2> DEFINE node == [nodes[cur] EXCEPT !.text = s]
  <2>1. node \in Node /\ node.type = nodes[cur].type /\ node.kids = nodes[cur].kids
    BY <1>1, <1>2, TextSet
  <2>2. nodes' = [nodes EXCEPT ![cur] = node]
    BY <1>1, <1>2
  <2> HIDE DEF node
  <2> QED
    BY <1>1, <1>2, <2>1, <2>2, SameTables
<1>3. CASE cur = 0
  <2> DEFINE node == [nodes[Innermost] EXCEPT !.keys = Append(@, s)]
  <2>1. node \in Node /\ node.type = nodes[Innermost].type /\ node.kids = nodes[Innermost].kids
    BY <1>1, <1>3, KeyAppended
  <2>2. nodes' = [nodes EXCEPT ![Innermost] = node]
    BY <1>1, <1>3
  <2> HIDE DEF node
  <2> QED
    BY <1>1, <1>3, <2>1, <2>2, SameTables
<1> QED
  BY <1>2, <1>3

\* A step of the parser.
LEMMA ParseJson ==
  ASSUME JsonInv, Parse
  PROVE  /\ JsonInv' /\ UNCHANGED <<text, todo>>
         /\ doing \in Parsing /\ doing' \in Parsing \cup {"exit", "undefined"}
         /\ doing' = "undefined" => CutInside(text)
<1>1. CASE \E type \in DOMAIN Open : ParseOpen(type)
  BY <1>1, OpenJson DEF ParseOpen, Leaf, Parsing
<1>2. CASE ParseString
  BY <1>2, ParseStringJson DEF ParseString, Parsing
<1>3. CASE ParseLiteral
  BY <1>3, ParseLiteralJson DEF ParseLiteral, Leaf, Exit, Parsing
<1>4. CASE ParseNumber
  BY <1>4, ParseNumberJson DEF ParseNumber, Leaf, Parsing
<1>5. CASE StoreRoot
  BY <1>5, StoreRootJson DEF StoreRoot, Parsing
<1>6. CASE StoreMember
  BY <1>6, StoreMemberJson DEF StoreMember, Parsing
<1>7. CASE ParseKey
  BY <1>7, ParseKeyJson DEF ParseKey, Exit, Parsing
<1>8. CASE StringChar
  BY <1>8, StringCharJson DEF StringChar, Put, Parsing
<1>9. CASE StringEscape
  BY <1>9, StringEscapeJson DEF StringEscape, Put, Exit, Parsing
<1>10. CASE StringCode
  BY <1>10, StringCodeJson DEF StringCode, Put, Parsing
<1>11. CASE StringCut
  BY <1>11, ExitJson DEF StringCut, Exit, Parsing
<1>12. CASE StringEnd
  BY <1>12, StringEndJson DEF StringEnd, Parsing
<1> QED
  BY <1>1, <1>2, <1>3, <1>4, <1>5, <1>6, <1>7, <1>8, <1>9, <1>10, <1>11, <1>12 DEF Parse

--------------------------------------------------------------------------------
(* The values that were made lie one in another *)

\* The shape is that of the kids.
LEMMA ShapeOfKids ==
  ASSUME NEW ns, NEW ns2, NEW e, Shape(ns, e), DOMAIN ns2 = DOMAIN ns, Len(ns2) = Len(ns),
         \A i \in DOMAIN ns : ns2[i].kids = ns[i].kids
  PROVE  Shape(ns2, e)
BY DEF Shape

\* What Spans says, pointwise.
LEMMA KidsIn ==
  ASSUME NEW kids, NEW e, NEW n \in Nat, NEW i \in 1 .. n, Spans(kids, e, i, n)
  PROVE  /\ e[i] \in i + 1 .. n + 1
         /\ \A k \in DOMAIN kids : kids[k] \in i + 1 .. n /\ kids[k] \in 1 .. n /\ e[kids[k]] <= e[i]
         /\ \A k, l \in DOMAIN kids : k < l => e[kids[k]] <= kids[l]
         /\ \A x \in i + 1 .. e[i] - 1 : \E k \in DOMAIN kids : kids[k] <= x /\ x < e[kids[k]]
<1>1. \A y \in i + 1 .. n : y \in 1 .. n
  OBVIOUS
<1> QED
  BY <1>1, Zenon DEF Spans

\* What is made later does not change what is in a value.
LEMMA SpansKept ==
  ASSUME NEW kids, NEW e, NEW e2, NEW n \in Nat, NEW m \in Nat, n <= m, NEW i \in 1 .. n,
         Spans(kids, e, i, n), e2[i] = e[i], \A k \in DOMAIN kids : e2[kids[k]] = e[kids[k]]
  PROVE  Spans(kids, e2, i, m)
<1>1. /\ e[i] \in i + 1 .. n + 1
      /\ \A k \in DOMAIN kids : kids[k] \in i + 1 .. n /\ e[kids[k]] <= e[i]
      /\ \A k, l \in DOMAIN kids : k < l => e[kids[k]] <= kids[l]
      /\ \A x \in i + 1 .. e[i] - 1 : \E k \in DOMAIN kids : kids[k] <= x /\ x < e[kids[k]]
  BY DEF Spans
<1>2. e2[i] \in i + 1 .. m + 1 /\ \A k \in DOMAIN kids : kids[k] \in i + 1 .. m
  BY <1>1
<1>3. \A k \in DOMAIN kids : e2[kids[k]] <= e2[i]
  BY <1>1
<1>4. \A k, l \in DOMAIN kids : k < l => e2[kids[k]] <= kids[l]
  BY <1>1
<1>5. \A x \in i + 1 .. e2[i] - 1 : \E k \in DOMAIN kids : kids[k] <= x /\ x < e2[kids[k]]
  BY <1>1
<1> QED
  BY <1>2, <1>3, <1>4, <1>5 DEF Spans

\* A value without parts is added behind the others.
Extended(e, n) == [i \in 1 .. n + 1 |-> IF i = n + 1 THEN n + 2 ELSE e[i]]

\* A value without parts is added behind the others.
LEMMA ShapeGrows ==
  ASSUME NEW ns, NEW ns2, NEW e, NEW n \in Nat, Shape(ns, e), Len(ns) = n, DOMAIN ns = 1 .. n,
         Len(ns2) = n + 1, DOMAIN ns2 = 1 .. n + 1,
         \A i \in 1 .. n : ns2[i].kids = ns[i].kids, ns2[n + 1].kids = <<>>
  PROVE  Shape(ns2, Extended(e, n))
<1> DEFINE e2 == Extended(e, n)
<1>1. e \in [1 .. n -> Nat] /\ \A i \in 1 .. n : Spans(ns[i].kids, e, i, n)
  BY DEF Shape
<1>2. /\ e2 \in [1 .. n + 1 -> Nat] /\ e2[n + 1] = n + 2
      /\ \A i \in 1 .. n : e2[i] = e[i]
  BY <1>1 DEF Extended
<1> HIDE DEF e2
<1>3. ASSUME NEW i \in 1 .. n
      PROVE  Spans(ns2[i].kids, e2, i, n + 1)
  <2> DEFINE kids == ns[i].kids
  <2>1. ns2[i].kids = kids /\ Spans(kids, e, i, n) /\ e2[i] = e[i]
    BY <1>1, <1>2
  <2> HIDE DEF kids
  <2>2. \A k \in DOMAIN kids : kids[k] \in 1 .. n
    BY <2>1 DEF Spans
  <2>3. \A k \in DOMAIN kids : e2[kids[k]] = e[kids[k]]
    BY <1>2, <2>2
  <2>4. n + 1 \in Nat /\ n <= n + 1
    OBVIOUS
  <2> QED
    BY <2>1, <2>3, <2>4, SpansKept
<1>4. Spans(<<>>, e2, n + 1, n + 1)
  <2>1. DOMAIN <<>> = {}
    OBVIOUS
  <2>2. n + 1 + 1 .. e2[n + 1] - 1 = {} /\ e2[n + 1] \in n + 1 + 1 .. n + 1 + 1
    BY <1>2
  <2> QED
    BY <2>1, <2>2 DEF Spans
<1>5. \A i \in 1 .. n + 1 : Spans(ns2[i].kids, e2, i, n + 1)
  <2> TAKE i \in 1 .. n + 1
  <2>1. i \in 1 .. n \/ i = n + 1
    OBVIOUS
  <2> QED
    BY <1>3, <1>4, <2>1
<1> QED
  BY <1>2, <1>5 DEF Shape, e2

\* The value c, the last that is complete, goes into the value t, which was open.
StoredIn(ns, ns2, e, e2, n, t, c) ==
  /\ n \in Nat /\ t \in 1 .. n /\ c \in 1 .. n
  /\ Len(ns) = n /\ DOMAIN ns = 1 .. n /\ Len(ns2) = n /\ DOMAIN ns2 = 1 .. n
  /\ \A i \in 1 .. n : i # t => ns2[i].kids = ns[i].kids
  /\ ns[t].kids \in Seq(Nat) /\ ns2[t].kids = Append(ns[t].kids, c)
  /\ \A i \in 1 .. n : \A k \in DOMAIN ns[i].kids : ns[i].kids[k] # t
  /\ e[t] = c /\ e[c] = n + 1
  /\ e2 \in [1 .. n -> Nat] /\ e2[t] = n + 1 /\ \A i \in 1 .. n : i # t => e2[i] = e[i]

\* The last value of a call is stored: the value it goes into now reaches to the end.
LEMMA ShapeStores ==
  ASSUME NEW ns, NEW ns2, NEW e, NEW e2, NEW n, NEW t, NEW c, Shape(ns, e),
         StoredIn(ns, ns2, e, e2, n, t, c)
  PROVE  Shape(ns2, e2)
<1>0. /\ n \in Nat /\ t \in 1 .. n /\ c \in 1 .. n
      /\ Len(ns) = n /\ DOMAIN ns = 1 .. n /\ Len(ns2) = n /\ DOMAIN ns2 = 1 .. n
      /\ \A i \in 1 .. n : i # t => ns2[i].kids = ns[i].kids
      /\ ns[t].kids \in Seq(Nat) /\ ns2[t].kids = Append(ns[t].kids, c)
      /\ \A i \in 1 .. n : \A k \in DOMAIN ns[i].kids : ns[i].kids[k] # t
      /\ e[t] = c /\ e[c] = n + 1
      /\ e2 \in [1 .. n -> Nat] /\ e2[t] = n + 1 /\ \A i \in 1 .. n : i # t => e2[i] = e[i]
  BY DEF StoredIn
<1> USE <1>0
<1>1. e \in [1 .. n -> Nat] /\ \A i \in 1 .. n : Spans(ns[i].kids, e, i, n)
  BY <1>0 DEF Shape
<1>2. /\ e2 \in [1 .. n -> Nat] /\ e2[t] = n + 1
      /\ \A i \in 1 .. n : i # t => e2[i] = e[i]
  BY <1>0
<1>3. \A i \in 1 .. n : \A k \in DOMAIN ns[i].kids :
        ns[i].kids[k] \in 1 .. n /\ e2[ns[i].kids[k]] = e[ns[i].kids[k]]
  <2>1. \A i \in 1 .. n : \A k \in DOMAIN ns[i].kids : ns[i].kids[k] \in 1 .. n
    BY <1>0, <1>1, KidsIn, Zenon
  <2> QED
    BY <1>0, <1>2, <2>1
<1>4. ASSUME NEW i \in 1 .. n, i # t
      PROVE  Spans(ns2[i].kids, e2, i, n)
  <2>1. ns2[i].kids = ns[i].kids
    BY <1>0, <1>4
  <2>2. e2[i] = e[i]
    BY <1>0, <1>4
  <2>3. n <= n
    BY <1>0
  <2> QED
    BY <1>1, <1>3, <2>1, <2>2, <2>3, <1>0, SpansKept
<1>5. Spans(ns2[t].kids, e2, t, n)
  <2> DEFINE kids == ns[t].kids  more == Append(kids, c)  m == Len(kids)
  <2>1. Spans(kids, e, t, n)
    BY <1>1
  <2>2. /\ m \in Nat /\ DOMAIN kids = 1 .. m
        /\ DOMAIN more = 1 .. m + 1 /\ more[m + 1] = c
        /\ \A k \in 1 .. m : more[k] = kids[k]
    <3>1. /\ more \in Seq(Nat) /\ Len(more) = m + 1 /\ more[m + 1] = c
          /\ \A k \in 1 .. m : more[k] = kids[k]
      BY AppendProperties
    <3>2. DOMAIN more = 1 .. Len(more) /\ DOMAIN kids = 1 .. m /\ m \in Nat
      BY <3>1, LenProperties
    <3> QED
      BY <3>1, <3>2
  <2>3. \A k \in 1 .. m : kids[k] \in 1 .. n /\ e2[kids[k]] = e[kids[k]] /\ e[kids[k]] \in Nat
    BY <1>1, <1>3, <2>2, SMTT(30)
  <2>4. ns2[t].kids = more
    OBVIOUS
  <2> HIDE DEF kids, more, m
  <2>5. /\ t < c /\ \A k \in 1 .. m : kids[k] \in t + 1 .. n /\ e[kids[k]] <= c
        /\ \A k, l \in 1 .. m : k < l => e[kids[k]] <= kids[l]
        /\ \A x \in t + 1 .. c - 1 : \E k \in 1 .. m : kids[k] <= x /\ x < e[kids[k]]
    <3>1. \A k, l \in 1 .. m : k < l => e[kids[k]] <= kids[l]
      BY <2>1, <2>2, KidsIn, Zenon
    <3>2. \A x \in t + 1 .. c - 1 : \E k \in 1 .. m : kids[k] <= x /\ x < e[kids[k]]
      BY <2>1, <2>2, KidsIn, Zenon
    <3>3. \A k \in 1 .. m : kids[k] \in t + 1 .. n /\ e[kids[k]] <= c
      <4>1. \A k \in DOMAIN kids : kids[k] \in t + 1 .. n /\ e[kids[k]] <= e[t]
        BY <2>1, KidsIn, Zenon
      <4> QED
        BY <2>2, <4>1
    <3>4. c \in t + 1 .. n + 1
      BY <2>1, KidsIn, Zenon
    <3> QED
      BY <3>1, <3>2, <3>3, <3>4
  <2>6. \A k \in 1 .. m + 1 : k = m + 1 \/ k \in 1 .. m
    BY <2>2
  <2>7. c # t /\ e2[c] = n + 1 /\ c \in t + 1 .. n /\ e2[t] \in t + 1 .. n + 1
    BY <1>2, <2>5
  <2>8. \A k \in 1 .. m : e2[more[k]] <= c /\ e2[more[k]] = e[kids[k]] /\ more[k] = kids[k]
    BY <2>2, <2>3, <2>5
  <2>9. \A k \in DOMAIN more : more[k] \in t + 1 .. n /\ e2[more[k]] <= e2[t]
    <3> TAKE k \in DOMAIN more
    <3>1. CASE k = m + 1
      BY <1>2, <2>2, <2>7, <3>1
    <3>2. CASE k \in 1 .. m
      <4>1. e[kids[k]] \in Nat /\ e[kids[k]] <= c
        BY <2>3, <2>5, <3>2
      <4>2. e[kids[k]] <= n + 1
        BY <4>1
      <4> QED
        BY <1>2, <2>5, <2>8, <3>2, <4>2
    <3> QED
      BY <2>2, <2>6, <3>1, <3>2
  <2>10. \A k, l \in DOMAIN more : k < l => e2[more[k]] <= more[l]
    <3> TAKE k, l \in DOMAIN more
    <3> HAVE k < l
    <3>1. k \in 1 .. m
      BY <2>2
    <3>2. CASE l = m + 1
      BY <2>2, <2>8, <3>1, <3>2
    <3>3. CASE l \in 1 .. m
      BY <2>5, <2>8, <3>1, <3>3
    <3> QED
      BY <2>2, <2>6, <3>2, <3>3
  <2>11. \A x \in t + 1 .. e2[t] - 1 : \E k \in DOMAIN more : more[k] <= x /\ x < e2[more[k]]
    <3> TAKE x \in t + 1 .. e2[t] - 1
    <3>1. x \in Int /\ x < n + 1 /\ t + 1 <= x
      BY <1>2
    <3>2. CASE x < c
      <4>1. x \in t + 1 .. c - 1
        BY <3>1, <3>2
      <4>2. PICK k \in 1 .. m : kids[k] <= x /\ x < e[kids[k]]
        BY <2>5, <4>1
      <4>3. k \in DOMAIN more
        BY <2>2
      <4> QED
        BY <2>8, <4>2, <4>3
    <3>3. CASE c <= x
      <4>1. m + 1 \in DOMAIN more
        BY <2>2
      <4> QED
        BY <2>2, <2>7, <3>1, <3>3, <4>1
    <3> QED
      BY <3>1, <3>2, <3>3
  <2> QED
    BY <2>4, <2>7, <2>9, <2>10, <2>11 DEF Spans
<1> QED
  BY <1>2, <1>4, <1>5 DEF Shape

\* Which values are open, by the calls.
LEMMA OpenAre ==
  ASSUME JsonInv
  PROVE  /\ OpenNodes \subseteq 1 .. Len(nodes) /\ Len(nodes) \in Nat /\ DOMAIN nodes = 1 .. Len(nodes)
         /\ Len(frames) \in Nat /\ DOMAIN frames = 1 .. Len(frames)
         /\ \A j \in 1 .. Len(frames) : frames[j].node \in OpenNodes
         /\ \A i \in OpenNodes : \E j \in 1 .. Len(frames) : i = frames[j].node
         /\ frames # <<>> => Len(frames) \in 1 .. Len(frames) /\ Innermost \in OpenNodes
         /\ \A j, l \in 1 .. Len(frames) : j < l => frames[j].node < frames[l].node
         /\ \A j \in 1 .. Len(frames) : nodes[frames[j].node].type \in {"object", "array"}
<1>1. /\ Len(nodes) \in Nat /\ DOMAIN nodes = 1 .. Len(nodes)
      /\ Len(frames) \in Nat /\ DOMAIN frames = 1 .. Len(frames)
      /\ \A j \in 1 .. Len(frames) : frames[j].node \in 1 .. Len(nodes)
      /\ frames # <<>> => Len(frames) \in 1 .. Len(frames)
  BY NodesAre DEF JsonInv
<1>2. /\ \A j, l \in 1 .. Len(frames) : j < l => frames[j].node < frames[l].node
      /\ \A j \in 1 .. Len(frames) : nodes[frames[j].node].type \in {"object", "array"}
  BY <1>1 DEF JsonInv, FramesInv
<1>3. OpenNodes = {frames[j].node : j \in 1 .. Len(frames)}
  BY <1>1 DEF OpenNodes
<1> QED
  BY <1>1, <1>2, <1>3 DEF Innermost

\* What NestInv says of the calls, pointwise.
LEMMA NestIs ==
  ASSUME JsonInv, NestInv
  PROVE  \E e : /\ Shape(nodes, e) /\ e \in [1 .. Len(nodes) -> Nat]
                /\ \A j \in 1 .. Len(frames) - 1 : frames[j + 1].node = e[frames[j].node]
                /\ frames # <<>> =>
                     frames[1].node = 1 /\ e[Innermost] = IF Pending THEN cur ELSE Len(nodes) + 1
                /\ frames = <<>> /\ nodes # <<>> => cur = 1
                /\ Pending \/ (frames = <<>> /\ nodes # <<>>) => e[cur] = Len(nodes) + 1
<1>1. PICK e : Shape(nodes, e) /\ Nested(e)
  BY DEF NestInv
<1>2. e \in [1 .. Len(nodes) -> Nat]
  BY <1>1, OpenAre DEF Shape
<1> QED
  BY <1>1, <1>2 DEF Nested

\* A value that is read is behind all others, and in the innermost that is open.
LEMMA NestFresh ==
  ASSUME JsonInv, NestInv, doing = "value", NEW node \in Node, node.kids = <<>>,
         nodes' = Append(nodes, node), cur' = Fresh, frames' = frames, doing' \in {"store", "string"}
  PROVE  NestInv'
<1> DEFINE n == Len(nodes)
<1>1. PICK e : /\ Shape(nodes, e) /\ e \in [1 .. n -> Nat]
               /\ \A j \in 1 .. Len(frames) - 1 : frames[j + 1].node = e[frames[j].node]
               /\ frames # <<>> => frames[1].node = 1 /\ e[Innermost] = IF Pending THEN cur ELSE n + 1
  BY NestIs
<1>2. /\ nodes' \in Seq(Node) /\ Len(nodes') = n + 1 /\ DOMAIN nodes' = 1 .. n + 1
      /\ \A i \in 1 .. n : nodes'[i] = nodes[i]
      /\ nodes'[n + 1] = node
  BY NodesGrow DEF JsonInv, Fresh
<1>3. n \in Nat /\ DOMAIN nodes = 1 .. n /\ OpenNodes \subseteq 1 .. n
  BY OpenAre
<1>4. cur' = n + 1 /\ ~Pending /\ Pending'
  <2>1. n + 1 # 0
    BY <1>3
  <2> QED
    BY <2>1 DEF Fresh, Pending
<1>0. PICK e2 : e2 = Extended(e, n)
  OBVIOUS
<1>5. Shape(nodes', e2)
  <2> HIDE DEF n
  <2>1. Len(nodes) = n
    BY DEF n
  <2> QED
    BY <1>0, <1>1, <1>2, <1>3, <2>1, ShapeGrows
<1>6. e2[n + 1] = n + 2 /\ \A i \in 1 .. n : e2[i] = e[i]
  BY <1>0, <1>3 DEF Extended
<1>7. Innermost' = Innermost /\ OpenNodes' = OpenNodes
  BY DEF Innermost, OpenNodes
<1>8. Nested(e2)'
  <2>1. \A j \in 1 .. Len(frames) - 1 : frames[j + 1].node = e2[frames[j].node]
    <3> TAKE j \in 1 .. Len(frames) - 1
    <3>1. j \in 1 .. Len(frames)
      BY OpenAre
    <3>2. frames[j].node \in 1 .. n
      BY <1>3, <3>1, OpenAre
    <3> QED
      BY <1>1, <1>6, <3>2
  <2>2. frames # <<>> => frames[1].node = 1 /\ e2[Innermost] = n + 1
    <3> HAVE frames # <<>>
    <3>1. Innermost \in 1 .. n
      BY <1>3, OpenAre
    <3> QED
      BY <1>1, <1>4, <1>6, <3>1
  <2>3. frames = <<>> => n = 0
    <3>1. frames = <<>> => nodes = <<>>
      BY DEF NestInv
    <3> QED
      BY <3>1, EmptySeq
  <2>4. e2[cur'] = Len(nodes') + 1
    BY <1>2, <1>3, <1>4, <1>6
  <2>5. frames' = <<>> => cur' = 1
    BY <1>4, <2>3
  <2> QED
    BY <1>2, <1>4, <1>7, <2>1, <2>2, <2>4, <2>5 DEF Nested
<1>9. \A i \in DOMAIN nodes' : \A k \in DOMAIN nodes'[i].kids : nodes'[i].kids[k] \notin OpenNodes'
  <2> TAKE i \in DOMAIN nodes'
  <2>1. CASE i \in 1 .. n
    BY <1>2, <1>3, <1>7, <2>1 DEF NestInv
  <2>2. CASE i = n + 1
    <3>1. DOMAIN nodes'[i].kids = {}
      BY <1>2, <2>2
    <3> QED
      BY <3>1
  <2> QED
    BY <1>2, <1>3, <2>1, <2>2
<1>10. cur' \in DOMAIN nodes' \ OpenNodes'
  BY <1>2, <1>3, <1>4, <1>7
<1> QED
  BY <1>5, <1>8, <1>9, <1>10 DEF NestInv

\* An object or array that is opened is behind all others, and in the innermost so far.
LEMMA NestOpens ==
  ASSUME JsonInv, NestInv, doing = "value", NEW node \in Node, node.kids = <<>>, NEW frame,
         frame.node = Fresh, nodes' = Append(nodes, node), cur' = cur, frames' = Append(frames, frame),
         Len(frames') = Len(frames) + 1, frames'[Len(frames) + 1] = frame, frames' # <<>>,
         DOMAIN frames' = 1 .. Len(frames) + 1,
         \A j \in 1 .. Len(frames) : frames'[j] = frames[j], doing' \in {"key", "value"}
  PROVE  NestInv' /\ OpenNodes' = OpenNodes \cup {Fresh} /\ Innermost' = Fresh
<1> DEFINE n == Len(nodes)  m == Len(frames)
<1>1. PICK e : /\ Shape(nodes, e) /\ e \in [1 .. n -> Nat]
               /\ \A j \in 1 .. m - 1 : frames[j + 1].node = e[frames[j].node]
               /\ frames # <<>> => frames[1].node = 1 /\ e[Innermost] = IF Pending THEN cur ELSE n + 1
  BY NestIs
<1>2. /\ nodes' \in Seq(Node) /\ Len(nodes') = n + 1 /\ DOMAIN nodes' = 1 .. n + 1
      /\ \A i \in 1 .. n : nodes'[i] = nodes[i]
      /\ nodes'[n + 1] = node
  BY NodesGrow DEF JsonInv, Fresh
<1>3. /\ n \in Nat /\ DOMAIN nodes = 1 .. n /\ OpenNodes \subseteq 1 .. n
      /\ m \in Nat /\ \A j \in 1 .. m : frames[j].node \in 1 .. n
  BY OpenAre
<1>4. Fresh = n + 1 /\ ~Pending /\ ~Pending'
  BY DEF Fresh, Pending
<1>0. PICK e2 : e2 = Extended(e, n)
  OBVIOUS
<1>5. Shape(nodes', e2)
  <2> HIDE DEF n
  <2>1. Len(nodes) = n
    BY DEF n
  <2> QED
    BY <1>0, <1>1, <1>2, <1>3, <2>1, ShapeGrows
<1>6. e2[n + 1] = n + 2 /\ \A i \in 1 .. n : e2[i] = e[i]
  BY <1>0, <1>3 DEF Extended
<1>7. Innermost' = n + 1
  BY <1>4 DEF Innermost
<1>8. OpenNodes' = OpenNodes \cup {n + 1}
  <2>1. OpenNodes' = {frames'[j].node : j \in 1 .. m + 1}
    BY DEF OpenNodes
  <2>2. OpenNodes = {frames[j].node : j \in 1 .. m}
    BY OpenAre DEF OpenNodes
  <2>3. 1 .. m + 1 = 1 .. m \cup {m + 1}
    BY <1>3
  <2> QED
    BY <1>4, <2>1, <2>2, <2>3
<1>9. Nested(e2)'
  <2>1. \A j \in 1 .. m : frames'[j + 1].node = e2[frames'[j].node]
    <3> TAKE j \in 1 .. m
    <3>1. frames[j].node \in 1 .. n /\ frames'[j] = frames[j]
      BY <1>3
    <3>2. CASE j = m
      <4>1. frames # <<>> /\ Innermost = frames[j].node
        BY <1>3, <3>2, EmptySeq DEF Innermost
      <4> QED
        BY <1>1, <1>4, <1>6, <3>1, <3>2, <4>1
    <3>3. CASE j # m
      <4>1. j \in 1 .. m - 1 /\ j + 1 \in 1 .. m
        BY <1>3, <3>3
      <4> QED
        BY <1>1, <1>6, <3>1, <4>1
    <3> QED
      BY <3>2, <3>3
  <2>2. frames'[1].node = 1
    <3>1. CASE frames = <<>>
      <4>1. nodes = <<>>
        BY <3>1 DEF NestInv
      <4>2. n = 0 /\ m = 0
        BY <3>1, <4>1, EmptySeq
      <4> QED
        BY <1>4, <4>2
    <3>2. CASE frames # <<>>
      <4>1. 1 \in 1 .. m
        BY <3>2, OpenAre
      <4> QED
        BY <1>1, <3>2, <4>1
    <3> QED
      BY <3>1, <3>2
  <2>3. e2[Innermost'] = Len(nodes') + 1
    BY <1>2, <1>3, <1>6, <1>7
  <2>4. \A j \in 1 .. Len(frames') - 1 : frames'[j + 1].node = e2[frames'[j].node]
    BY <1>3, <2>1
  <2> QED
    BY <1>4, <2>2, <2>3, <2>4 DEF Nested
<1>10. \A i \in DOMAIN nodes' : \A k \in DOMAIN nodes'[i].kids : nodes'[i].kids[k] \notin OpenNodes'
  <2> TAKE i \in DOMAIN nodes'
  <2>1. CASE i \in 1 .. n
    <3> TAKE k \in DOMAIN nodes'[i].kids
    <3>1. nodes'[i] = nodes[i] /\ nodes[i].kids[k] \notin OpenNodes
      BY <1>2, <1>3, <2>1 DEF NestInv
    <3>2. nodes[i].kids[k] \in 1 .. n
      BY <1>1, <1>2, <1>3, <2>1, KidsIn DEF Shape
    <3> QED
      BY <1>3, <1>8, <3>1, <3>2
  <2>2. CASE i = n + 1
    <3>1. DOMAIN nodes'[i].kids = {}
      BY <1>2, <2>2
    <3> QED
      BY <3>1
  <2> QED
    BY <1>2, <1>3, <2>1, <2>2
<1>11. NestInv'
  BY <1>4, <1>5, <1>9, <1>10 DEF NestInv
<1> QED
  BY <1>4, <1>7, <1>8, <1>11

\* The calls and the kids stay as they are.
LEMMA NestKept ==
  ASSUME JsonInv, NestInv, DOMAIN nodes' = DOMAIN nodes, Len(nodes') = Len(nodes),
         \A i \in DOMAIN nodes : nodes'[i].kids = nodes[i].kids, frames' = frames,
         \/ Pending /\ Pending' /\ cur' = cur
         \/ ~Pending /\ ~Pending' /\ frames # <<>> /\ doing' # "done"
         \/ Pending /\ frames = <<>> /\ doing' = "done" /\ cur' = cur
  PROVE  NestInv'
<1>1. PICK e : /\ Shape(nodes, e) /\ e \in [1 .. Len(nodes) -> Nat]
               /\ \A j \in 1 .. Len(frames) - 1 : frames[j + 1].node = e[frames[j].node]
               /\ frames # <<>> =>
                    frames[1].node = 1 /\ e[Innermost] = IF Pending THEN cur ELSE Len(nodes) + 1
               /\ frames = <<>> /\ nodes # <<>> => cur = 1
               /\ Pending \/ (frames = <<>> /\ nodes # <<>>) => e[cur] = Len(nodes) + 1
  BY NestIs
<1>2. Shape(nodes', e)
  BY <1>1, ShapeOfKids
<1>3. Innermost' = Innermost /\ OpenNodes' = OpenNodes
  BY DEF Innermost, OpenNodes
<1>4. Pending => cur \in DOMAIN nodes \ OpenNodes /\ nodes # <<>>
  <2>1. Pending => cur \in DOMAIN nodes \ OpenNodes
    BY DEF NestInv
  <2>2. DOMAIN <<>> = {}
    OBVIOUS
  <2> QED
    BY <2>1, <2>2
<1>5. doing' = "done" => ~Pending'
  BY DEF Pending
<1>6. Nested(e)'
  <2>1. CASE Pending /\ Pending' /\ cur' = cur
    BY <1>1, <1>3, <1>4, <2>1 DEF Nested
  <2>2. CASE ~Pending /\ ~Pending' /\ frames # <<>> /\ doing' # "done"
    BY <1>1, <1>3, <2>2 DEF Nested
  <2>3. CASE Pending /\ frames = <<>> /\ doing' = "done" /\ cur' = cur
    <3>1. Len(frames) - 1 = -1
      BY <2>3, EmptySeq
    <3> QED
      BY <1>1, <1>3, <1>4, <1>5, <2>3, <3>1 DEF Nested
  <2> QED
    BY <2>1, <2>2, <2>3
<1>7. \A i \in DOMAIN nodes' : \A k \in DOMAIN nodes'[i].kids : nodes'[i].kids[k] \notin OpenNodes'
  BY <1>3 DEF NestInv
<1>8. /\ Pending' \/ doing' = "done" => cur' \in DOMAIN nodes' \ OpenNodes'
      /\ doing' = "done" => frames' = <<>>
      /\ frames' = <<>> /\ doing' \in {"value", "key"} => nodes' = <<>>
  <2>1. Pending' => doing' \notin {"value", "key", "done"}
    BY DEF Pending
  <2> QED
    BY <1>3, <1>4, <2>1
<1> QED
  BY <1>2, <1>6, <1>7, <1>8 DEF NestInv

\* The value cur goes into the innermost that is open, which stays open or is complete.
LEMMA NestStores ==
  ASSUME JsonInv, NestInv, NEW cap, NEW next, Stored(cap, next), frames # <<>>, doing = "store",
         doing' # "exit"
  PROVE  /\ NestInv' /\ cur \in 1 .. Len(nodes) \ OpenNodes
         /\ \/ doing' \in {"key", "value"} /\ OpenNodes' = OpenNodes /\ Innermost' = Innermost
            \/ doing' = "store" /\ OpenNodes' = OpenNodes \ {Innermost}
<1> DEFINE n == Len(nodes)  m == Len(frames)  t == Innermost
<1>1. PICK e : /\ Shape(nodes, e) /\ e \in [1 .. n -> Nat]
               /\ \A j \in 1 .. m - 1 : frames[j + 1].node = e[frames[j].node]
               /\ frames[1].node = 1 /\ e[t] = cur
               /\ e[cur] = n + 1
  <2>1. Pending
    BY DEF Pending
  <2> QED
    BY <2>1, NestIs
<1>2. /\ n \in Nat /\ DOMAIN nodes = 1 .. n /\ OpenNodes \subseteq 1 .. n
      /\ m \in 1 .. m /\ m \in Nat /\ \A j \in 1 .. m : frames[j].node \in OpenNodes
      /\ \A i \in OpenNodes : \E j \in 1 .. m : i = frames[j].node
      /\ \A j, l \in 1 .. m : j < l => frames[j].node < frames[l].node
      /\ t \in OpenNodes /\ t = frames[m].node
  BY OpenAre DEF Innermost
<1>3. cur \in 1 .. n /\ cur \notin OpenNodes
  BY <1>2 DEF NestInv, Pending
<1>4. /\ Len(nodes') = n /\ DOMAIN nodes' = 1 .. n
      /\ \A j \in 1 .. n : j # t => nodes'[j] = nodes[j]
      /\ nodes'[t].kids = Append(nodes[t].kids, cur)
  BY KidAppended DEF Stored
<1>5. t \in 1 .. n /\ nodes[t].kids \in Seq(Nat)
  BY TopIs DEF Node
<1>6. \A i \in 1 .. n : \A k \in DOMAIN nodes[i].kids :
        nodes[i].kids[k] \notin OpenNodes /\ nodes[i].kids[k] # t
  BY <1>2 DEF NestInv
<1> DEFINE sizes == n = Len(nodes) /\ m = Len(frames) /\ t = Innermost
<1>0. sizes
  OBVIOUS
<1> HIDE DEF n, m, t
<1>7. PICK e2 : e2 = [e EXCEPT ![t] = n + 1]
  OBVIOUS
<1>8. e2 \in [1 .. n -> Nat] /\ e2[t] = n + 1 /\ \A i \in 1 .. n : i # t => e2[i] = e[i]
  <2>1. e \in [1 .. n -> Nat]
    BY <1>1, <1>2
  <2>2. t \in 1 .. n /\ n + 1 \in Nat
    BY <1>2, <1>5
  <2> QED
    BY <1>7, <2>1, <2>2
<1>9. Shape(nodes', e2)
  <2>1. \A i \in 1 .. n : \A k \in DOMAIN nodes[i].kids : nodes[i].kids[k] # t
    BY <1>6
  <2>2. \A i \in 1 .. n : i # t => nodes'[i].kids = nodes[i].kids
    BY <1>4
  <2>3. StoredIn(nodes, nodes', e, e2, n, t, cur)
    BY <1>0, <1>1, <1>2, <1>3, <1>4, <1>5, <1>8, <2>1, <2>2 DEF StoredIn
  <2> QED
    BY <1>1, <2>3, ShapeStores, Zenon
<1>10. e2[cur] = n + 1
  BY <1>1, <1>2, <1>3, <1>8
\* What the new kid is not.
<1>11. \A i \in 1 .. n : \A k \in DOMAIN nodes'[i].kids : nodes'[i].kids[k] \notin OpenNodes
  <2> TAKE i \in 1 .. n
  <2>1. CASE i # t
    BY <1>4, <1>6, <2>1
  <2>2. CASE i = t
    <3> DEFINE kids == nodes[t].kids  more == Append(kids, cur)
    <3>1. more \in Seq(Nat) /\ Len(more) = Len(kids) + 1 /\ Len(kids) \in Nat /\ DOMAIN kids = 1 .. Len(kids)
          /\ more[Len(kids) + 1] = cur /\ \A k \in 1 .. Len(kids) : more[k] = kids[k]
      BY <1>3, <1>5, AppendProperties, LenProperties
    <3>2. DOMAIN more = 1 .. Len(more)
      BY <3>1, LenProperties
    <3>3. \A k \in DOMAIN kids : kids[k] \notin OpenNodes
      BY <1>6, <2>2
    <3>4. nodes'[i].kids = more
      BY <1>4, <2>2
    <3> HIDE DEF more, kids
    <3> QED
      BY <1>3, <3>1, <3>2, <3>3, <3>4
  <2> QED
    BY <2>1, <2>2
<1>12. \A j \in 1 .. m - 1 : j \in 1 .. m /\ frames[j].node # t /\ frames[j].node \in 1 .. n
  <2>1. m \in Nat /\ m \in 1 .. m
    BY <1>2
  <2>2. \A j \in 1 .. m - 1 : j \in 1 .. m /\ j < m
    BY <2>1
  <2>3. \A j \in 1 .. m - 1 : frames[j].node < t /\ frames[j].node \in 1 .. n
    BY <1>2, <2>1, <2>2
  <2> QED
    BY <2>2, <2>3
\* The calls around the innermost.
<1>13. \A j \in 1 .. m - 1 : frames[j + 1].node = e2[frames[j].node]
  BY <1>1, <1>8, <1>12
<1>14. CASE frames' = [frames EXCEPT ![m].cap = cap]
  <2>1. /\ Len(frames') = m /\ DOMAIN frames' = 1 .. m
        /\ \A j \in 1 .. m : frames'[j].node = frames[j].node
    <3>1. cap \in Nat
      BY TopIs, TableTakes DEF Stored
    <3> QED
      BY <1>0, <1>2, <1>4, <1>14, <3>1, CapSet
  <2>2. frames' # <<>> /\ m # m - 1
    BY <1>2, <2>1, EmptySeq
  <2>3. Innermost' = t
    BY <1>0, <1>2, <2>1 DEF Innermost
  <2>4. OpenNodes' = OpenNodes
    <3>1. OpenNodes = {frames[j].node : j \in 1 .. m}
      BY <1>0, OpenAre DEF OpenNodes
    <3> QED
      BY <2>1, <3>1 DEF OpenNodes
  <2>5. frames' # Front(frames)
    <3>1. frames' = Front(frames) => Len(frames') = m - 1
      BY <1>0, <1>2, <1>4, FrontIs
    <3> QED
      BY <1>2, <2>1, <3>1
  <2>6. doing' \in {"key", "value"} /\ ~Pending'
    BY <2>5 DEF Stored, Pending
  <2>7. Nested(e2)'
    <3>1. \A j \in 1 .. m - 1 : frames'[j + 1].node = e2[frames'[j].node]
      <4> TAKE j \in 1 .. m - 1
      <4>1. j \in 1 .. m /\ j + 1 \in 1 .. m
        BY <1>2
      <4> QED
        BY <1>13, <2>1, <4>1
    <3>2. frames'[1].node = 1
      BY <1>1, <1>2, <2>1
    <3>3. e2[Innermost'] = Len(nodes') + 1
      BY <1>4, <1>8, <2>3
    <3> QED
      BY <2>1, <2>2, <2>6, <3>1, <3>2, <3>3 DEF Nested
  <2>8. NestInv'
    BY <1>4, <1>9, <1>11, <2>2, <2>4, <2>6, <2>7 DEF NestInv
  <2> QED
    BY <1>0, <1>3, <2>3, <2>4, <2>6, <2>8
<1>15. CASE frames' = Front(frames) /\ doing' = "store" /\ cur' = t
  <2>1. /\ Len(frames') = m - 1 /\ DOMAIN frames' = 1 .. m - 1
        /\ \A j \in 1 .. m - 1 : frames'[j] = frames[j]
    BY <1>0, <1>2, <1>4, <1>15, FrontIs
  <2>2. OpenNodes' = OpenNodes \ {t}
    <3>1. OpenNodes' = {frames[j].node : j \in 1 .. m - 1}
      BY <2>1 DEF OpenNodes
    <3>2. \A j \in 1 .. m : j = m \/ j \in 1 .. m - 1
      BY <1>2
    <3>3. \A i \in OpenNodes : i # t => i \in OpenNodes'
      BY <1>2, <3>1, <3>2
    <3>4. \A i \in OpenNodes' : i \in OpenNodes /\ i # t
      BY <1>2, <1>12, <3>1
    <3> QED
      BY <3>3, <3>4
  <2>3. Pending'
    BY <1>15 DEF Pending
  <2>4. Nested(e2)'
    <3>1. \A j \in 1 .. m - 1 - 1 : frames'[j + 1].node = e2[frames'[j].node]
      <4> TAKE j \in 1 .. m - 1 - 1
      <4>1. j \in 1 .. m - 1 /\ j + 1 \in 1 .. m - 1
        BY <1>2
      <4> QED
        BY <1>13, <2>1, <4>1
    <3>2. CASE m = 1
      <4>1. frames' = <<>>
        <5>1. frames' \in Seq([node : DOMAIN nodes', cap : Nat])
          BY <1>0, <1>2, <1>4, <1>15, FrontIs
        <5> QED
          BY <2>1, <3>2, <5>1, EmptySeq
      <4>2. cur' = 1
        BY <1>1, <1>2, <1>15, <3>2
      <4>3. e2[cur'] = Len(nodes') + 1
        BY <1>4, <1>8, <1>15
      <4> QED
        BY <2>1, <2>3, <3>1, <4>1, <4>2, <4>3 DEF Nested
    <3>3. CASE m # 1
      <4>1. m - 1 \in 1 .. m - 1 /\ 1 \in 1 .. m - 1 /\ m - 1 + 1 = m
        BY <1>2, <3>3
      <4>2. frames' # <<>>
        BY <2>1, <4>1, EmptySeq
      <4>3. Innermost' = frames[m - 1].node
        BY <1>0, <2>1, <4>1 DEF Innermost
      <4>4. e2[Innermost'] = cur'
        BY <1>2, <1>13, <1>15, <4>1, <4>3
      <4>5. frames'[1].node = 1
        BY <1>1, <2>1, <4>1
      <4>6. e2[cur'] = Len(nodes') + 1
        BY <1>4, <1>8, <1>15
      <4> QED
        BY <2>1, <2>3, <3>1, <4>2, <4>4, <4>5, <4>6 DEF Nested
    <3> QED
      BY <3>2, <3>3
  <2>5. \A i \in DOMAIN nodes' : \A k \in DOMAIN nodes'[i].kids : nodes'[i].kids[k] \notin OpenNodes'
    BY <1>4, <1>11, <2>2
  <2>6. cur' \in DOMAIN nodes' \ OpenNodes'
    BY <1>4, <1>5, <1>15, <2>2
  <2>7. NestInv'
    BY <1>9, <1>15, <2>4, <2>5, <2>6 DEF NestInv
  <2> QED
    BY <1>0, <1>3, <1>15, <2>2, <2>7
<1> QED
  BY <1>0, <1>14, <1>15 DEF Stored

\* The blocks of one value more.
LEMMA BlocksGrow ==
  ASSUME NEW ns, NEW ns2, NEW n \in Nat, DOMAIN ns = 1 .. n, DOMAIN ns2 = 1 .. n + 1,
         \A i \in 1 .. n : ns2[i] = ns[i]
  PROVE  AllBlocks(ns2) = AllBlocks(ns) \cup BlocksOf(ns2, n + 1)
<1>1. \A i \in 1 .. n : BlocksOf(ns2, i) = BlocksOf(ns, i)
  BY DEF BlocksOf
<1>2. \A i \in 1 .. n + 1 : i \in 1 .. n \/ i = n + 1
  OBVIOUS
<1>3. \A i \in 1 .. n : i \in 1 .. n + 1
  OBVIOUS
<1>4. n + 1 \in 1 .. n + 1
  OBVIOUS
<1>5. ASSUME NEW b \in AllBlocks(ns2)
      PROVE  b \in AllBlocks(ns) \cup BlocksOf(ns2, n + 1)
  <2>1. PICK i \in 1 .. n + 1 : b \in BlocksOf(ns2, i)
    BY DEF AllBlocks
  <2> QED
    BY <1>1, <1>2, <2>1 DEF AllBlocks
<1>6. ASSUME NEW b \in AllBlocks(ns) \cup BlocksOf(ns2, n + 1)
      PROVE  b \in AllBlocks(ns2)
  <2>1. \E i \in 1 .. n + 1 : b \in BlocksOf(ns2, i)
    BY <1>1, <1>3, <1>4 DEF AllBlocks
  <2> QED
    BY <2>1 DEF AllBlocks
<1> QED
  BY <1>5, <1>6

\* One more value, and what is allocated for it.
LEMMA BlocksMore ==
  ASSUME JsonInv, NEW node \in Node, nodes' = Append(nodes, node)
  PROVE  AllBlocks(nodes') = AllBlocks(nodes) \cup BlocksOf(nodes', Fresh)
<1> DEFINE n == Len(nodes)
<1>1. n \in Nat /\ DOMAIN nodes = 1 .. n
  BY OpenAre
<1>2. DOMAIN nodes' = 1 .. n + 1 /\ \A i \in 1 .. n : nodes'[i] = nodes[i]
  BY NodesGrow DEF JsonInv
<1>3. Fresh = n + 1
  BY DEF Fresh
<1> HIDE DEF n
<1> QED
  BY <1>1, <1>2, <1>3, BlocksGrow

\* The blocks of a value with one part more.
LEMMA BlocksChange ==
  ASSUME NEW ns, NEW ns2, NEW t \in DOMAIN ns, NEW X, DOMAIN ns2 = DOMAIN ns,
         \A i \in DOMAIN ns : i # t => BlocksOf(ns2, i) = BlocksOf(ns, i),
         BlocksOf(ns2, t) = BlocksOf(ns, t) \cup X
  PROVE  AllBlocks(ns2) = AllBlocks(ns) \cup X
<1>1. ASSUME NEW b \in AllBlocks(ns2)
      PROVE  b \in AllBlocks(ns) \cup X
  <2>1. PICK i \in DOMAIN ns : b \in BlocksOf(ns2, i)
    BY DEF AllBlocks
  <2> QED
    BY <2>1 DEF AllBlocks
<1>2. ASSUME NEW b \in AllBlocks(ns) \cup X
      PROVE  b \in AllBlocks(ns2)
  <2>1. \E i \in DOMAIN ns : b \in BlocksOf(ns2, i)
    BY DEF AllBlocks
  <2> QED
    BY <2>1 DEF AllBlocks
<1> QED
  BY <1>1, <1>2

\* What is allocated for a value that has no parts yet.
LEMMA BlocksOfNew ==
  ASSUME NEW ns, NEW i, ns[i].keys = <<>>, ns[i].kids = <<>>
  PROVE  BlocksOf(ns, i) = {Own(i)} \cup (IF ns[i].type = "string" THEN {TextOf(i)} ELSE {})
<1>1. DOMAIN <<>> = {}
  OBVIOUS
<1>2. {KeyOf(i, k) : k \in DOMAIN ns[i].keys} = {}
  BY <1>1
<1> QED
  BY <1>2 DEF BlocksOf

\* A value that is complete at once, or a string that starts.
LEMMA FreshParse ==
  ASSUME JsonInv, ParseInv, doing = "value", NEW node \in Node, node.kids = <<>>, node.keys = <<>>,
         nodes' = Append(nodes, node), cur' = Fresh, frames' = frames, doing' \in {"store", "string"},
         live' = live \cup ({Own(Fresh)} \cup (IF node.type = "string" THEN {TextOf(Fresh)} ELSE {})),
         doing' = "string" => node.type = "string"
  PROVE  ParseInv'
<1> DEFINE n == Len(nodes)
<1>1. NestInv /\ KeysInv /\ HeapInv
  BY DEF ParseInv, Parsing
<1>2. NestInv'
  BY <1>1, NestFresh
<1>3. /\ Len(nodes') = n + 1 /\ DOMAIN nodes' = 1 .. n + 1
      /\ \A i \in 1 .. n : nodes'[i] = nodes[i]
      /\ nodes'[n + 1] = node
  BY NodesGrow DEF JsonInv, Fresh
<1>4. n \in Nat /\ DOMAIN nodes = 1 .. n /\ OpenNodes \subseteq 1 .. n
  BY OpenAre
<1>5. /\ cur' = n + 1 /\ cur' # 0 /\ ~Keyless /\ ~Keyless'
      /\ Innermost' = Innermost /\ OpenNodes' = OpenNodes
  <2>1. n + 1 # 0
    BY <1>4
  <2> QED
    BY <2>1 DEF Fresh, Keyless, Innermost, OpenNodes
<1>6. KeysInv'
  <2>1. ASSUME NEW i \in 1 .. n + 1
        PROVE  /\ nodes'[i].type # "object" => nodes'[i].keys = <<>>
               /\ nodes'[i].type = "object" =>
                    Len(nodes'[i].keys) = IF i \in OpenNodes THEN Len(nodes'[i].kids) + 1
                                          ELSE Len(nodes'[i].kids)
    <3>1. CASE i \in 1 .. n
      BY <1>1, <1>3, <1>4, <1>5, <3>1 DEF KeysInv
    <3>2. CASE i = n + 1
      <4>1. i \notin OpenNodes
        BY <1>4, <3>2
      <4> QED
        BY <1>3, <3>2, <4>1
    <3> QED
      BY <1>4, <3>1, <3>2
  <2> QED
    BY <1>3, <1>5, <2>1 DEF KeysInv
<1>7. HeapInv'
  <2>1. AllBlocks(nodes') = AllBlocks(nodes) \cup BlocksOf(nodes', n + 1)
    BY BlocksMore DEF Fresh
  <2>2. BlocksOf(nodes', n + 1) =
          {Own(n + 1)} \cup (IF node.type = "string" THEN {TextOf(n + 1)} ELSE {})
    <3>1. nodes'[n + 1].keys = <<>> /\ nodes'[n + 1].kids = <<>> /\ nodes'[n + 1].type = node.type
      BY <1>3
    <3> HIDE DEF n
    <3>2. BlocksOf(nodes', n + 1) =
            {Own(n + 1)} \cup (IF nodes'[n + 1].type = "string" THEN {TextOf(n + 1)} ELSE {})
      BY <3>1, BlocksOfNew, Zenon
    <3> QED
      BY <3>1, <3>2
  <2>3. KeyInHand = {} /\ KeyInHand' = {} /\ Tables' = Tables
    BY <1>5 DEF KeyInHand, Tables
  <2>4. live' = live \cup BlocksOf(nodes', n + 1)
    BY <2>2 DEF Fresh
  <2> HIDE DEF n
  <2> QED
    BY <1>1, <2>1, <2>3, <2>4 DEF HeapInv
<1> QED
  BY <1>2, <1>6, <1>7 DEF ParseInv

\* An object or array that is opened.
LEMMA OpenParse ==
  ASSUME JsonInv, ParseInv, doing = "value", NEW node \in Node, node.kids = <<>>, node.keys = <<>>,
         node.type \in {"object", "array"}, NEW frame,
         frame.node = Fresh, nodes' = Append(nodes, node), cur' = cur, frames' = Append(frames, frame),
         Len(frames') = Len(frames) + 1, frames'[Len(frames) + 1] = frame, frames' # <<>>,
         DOMAIN frames' = 1 .. Len(frames) + 1,
         \A j \in 1 .. Len(frames) : frames'[j] = frames[j],
         doing' = (IF node.type = "object" THEN "key" ELSE "value"),
         live' = live \cup {Own(Fresh), Table(Fresh)}
  PROVE  ParseInv'
<1> DEFINE n == Len(nodes)
<1>1. NestInv /\ KeysInv /\ HeapInv
  BY DEF ParseInv, Parsing
<1>2. NestInv' /\ OpenNodes' = OpenNodes \cup {Fresh} /\ Innermost' = Fresh
  BY <1>1, NestOpens
<1>3. /\ Len(nodes') = n + 1 /\ DOMAIN nodes' = 1 .. n + 1
      /\ \A i \in 1 .. n : nodes'[i] = nodes[i]
      /\ nodes'[n + 1] = node
  BY NodesGrow DEF JsonInv, Fresh
<1>4. n \in Nat /\ DOMAIN nodes = 1 .. n /\ OpenNodes \subseteq 1 .. n /\ Fresh = n + 1
  BY OpenAre DEF Fresh
<1>5. /\ ~Keyless /\ (Keyless' <=> node.type = "object")
  BY DEF Keyless
<1> HIDE DEF n
<1>6. KeysInv'
  <2>1. ASSUME NEW i \in 1 .. n + 1
        PROVE  /\ nodes'[i].type # "object" => nodes'[i].keys = <<>>
               /\ nodes'[i].type = "object" =>
                    Len(nodes'[i].keys) = IF i \in OpenNodes' /\ ~(Keyless' /\ i = Innermost')
                                          THEN Len(nodes'[i].kids) + 1 ELSE Len(nodes'[i].kids)
    <3>1. CASE i \in 1 .. n
      <4>1. i # n + 1
        BY <1>4, <3>1
      <4>2. i \in OpenNodes' <=> i \in OpenNodes
        BY <1>2, <1>4, <4>1
      <4> QED
        BY <1>1, <1>2, <1>3, <1>4, <1>5, <3>1, <4>1, <4>2 DEF KeysInv
    <3>2. CASE i = n + 1
      BY <1>2, <1>3, <1>4, <1>5, <3>2
    <3> QED
      BY <1>4, <3>1, <3>2
  <2>2. doing' # "string"
    OBVIOUS
  <2> QED
    BY <1>3, <2>1, <2>2 DEF KeysInv
<1>7. HeapInv'
  <2>1. AllBlocks(nodes') = AllBlocks(nodes) \cup BlocksOf(nodes', n + 1)
    BY <1>4, BlocksMore
  <2>2. BlocksOf(nodes', n + 1) = {Own(n + 1)}
    <3>1. nodes'[n + 1].keys = <<>> /\ nodes'[n + 1].kids = <<>> /\ nodes'[n + 1].type # "string"
      BY <1>3
    <3>2. BlocksOf(nodes', n + 1) =
            {Own(n + 1)} \cup (IF nodes'[n + 1].type = "string" THEN {TextOf(n + 1)} ELSE {})
      BY <3>1, BlocksOfNew, Zenon
    <3> QED
      BY <3>1, <3>2
  <2>3. KeyInHand = {} /\ KeyInHand' = {}
    BY DEF KeyInHand
  <2>4. Tables' = Tables \cup {Table(n + 1)}
    BY <1>2, <1>4 DEF Tables
  <2> QED
    BY <1>1, <1>4, <2>1, <2>2, <2>3, <2>4 DEF HeapInv
<1> QED
  BY <1>2, <1>6, <1>7 DEF ParseInv

\* A value goes into the innermost.
LEMMA StoreMemberParse ==
  ASSUME JsonInv, ParseInv, StoreMember
  PROVE  ParseInv'
<1>1. PICK cap, next : Stored(cap, next) /\ frames # <<>> /\ doing = "store"
  BY StoreMemberIs
<1>2. NestInv /\ KeysInv /\ HeapInv
  BY <1>1 DEF ParseInv, Parsing
<1>3. CASE doing' = "exit"
  BY <1>3 DEF ParseInv, Parsing
<1>4. CASE doing' # "exit"
  <2> DEFINE n == Len(nodes)  t == Innermost
  <2>1. /\ NestInv'
        /\ \/ doing' \in {"key", "value"} /\ OpenNodes' = OpenNodes /\ Innermost' = t
           \/ doing' = "store" /\ OpenNodes' = OpenNodes \ {t}
    BY <1>1, <1>2, <1>4, NestStores
  <2>2. /\ Len(nodes') = n /\ DOMAIN nodes' = 1 .. n
        /\ \A j \in 1 .. n :
             /\ nodes'[j].type = nodes[j].type /\ nodes'[j].keys = nodes[j].keys
             /\ j # t => nodes'[j] = nodes[j]
        /\ nodes'[t].kids = Append(nodes[t].kids, cur)
        /\ Append(nodes[t].kids, cur) \in Seq(Nat)
        /\ Len(nodes'[t].kids) = Len(nodes[t].kids) + 1
    BY <1>1, KidAppended DEF Stored
  <2>3. /\ n \in Nat /\ DOMAIN nodes = 1 .. n /\ OpenNodes \subseteq 1 .. n /\ t \in OpenNodes
    BY <1>1, OpenAre
  <2>4. t \in 1 .. n /\ Len(nodes[t].kids) \in Nat /\ nodes[t].type \in {"object", "array"}
    BY <1>1, TopIs
  <2>5. ~Keyless /\ (doing' = "key" => nodes[t].type = "object")
        /\ (doing' = "value" => nodes[t].type # "object") /\ doing' # "string"
    BY <1>1, <1>4 DEF Stored, Keyless
  <2>6. Keyless' <=> doing' = "key"
    BY <2>5 DEF Keyless
  <2> HIDE DEF n, t
  <2>7. KeysInv'
    <3>1. ASSUME NEW i \in 1 .. n
          PROVE  /\ nodes'[i].type # "object" => nodes'[i].keys = <<>>
                 /\ nodes'[i].type = "object" =>
                      Len(nodes'[i].keys) = IF i \in OpenNodes' /\ ~(Keyless' /\ i = Innermost')
                                            THEN Len(nodes'[i].kids) + 1 ELSE Len(nodes'[i].kids)
      <4>1. /\ nodes[i].type # "object" => nodes[i].keys = <<>>
            /\ nodes[i].type = "object" =>
                 Len(nodes[i].keys) = IF i \in OpenNodes THEN Len(nodes[i].kids) + 1 ELSE Len(nodes[i].kids)
        BY <1>2, <2>3, <2>5 DEF KeysInv
      <4>2. CASE i = t
        BY <2>1, <2>2, <2>3, <2>5, <2>6, <4>1, <4>2
      <4>3. CASE i # t
        BY <2>1, <2>2, <2>6, <4>1, <4>3
      <4> QED
        BY <4>2, <4>3
    <3> QED
      BY <2>2, <2>5, <3>1 DEF KeysInv
  <2>8. HeapInv'
    <3>1. BlocksOf(nodes', t) = BlocksOf(nodes, t) \cup {Table(t)}
      <4>1. nodes'[t].kids # <<>>
        BY <2>2, <2>4, EmptySeq
      <4>2. nodes'[t].type = nodes[t].type /\ nodes'[t].keys = nodes[t].keys
        BY <2>2, <2>4
      <4> QED
        BY <4>1, <4>2 DEF BlocksOf
    <3>2. \A i \in DOMAIN nodes : i # t => BlocksOf(nodes', i) = BlocksOf(nodes, i)
      BY <2>2, <2>3 DEF BlocksOf
    <3>3. t \in DOMAIN nodes /\ DOMAIN nodes' = DOMAIN nodes
      BY <2>2, <2>3, <2>4
    <3>4. AllBlocks(nodes') = AllBlocks(nodes) \cup {Table(t)}
      BY <3>1, <3>2, <3>3, BlocksChange
    <3>5. KeyInHand = {} /\ KeyInHand' = {}
      BY <1>1, <2>5 DEF KeyInHand
    <3>6. {Table(t)} \cup Tables' = Tables
      BY <2>1, <2>3 DEF Tables
    <3>7. live' = live
      BY <1>1 DEF Stored
    <3> QED
      BY <1>2, <3>4, <3>5, <3>6, <3>7 DEF HeapInv
  <2> QED
    BY <2>1, <2>7, <2>8 DEF ParseInv
<1> QED
  BY <1>3, <1>4

\* The last value is complete: all that is allocated is in the tree.
LEMMA StoreRootParse ==
  ASSUME JsonInv, ParseInv, StoreRoot
  PROVE  ParseInv'
<1>1. /\ doing = "store" /\ frames = <<>> /\ doing' = "done"
      /\ UNCHANGED <<text, frames, cur, str, strCap, nodes, live, todo>>
  BY DEF StoreRoot
<1>2. NestInv /\ KeysInv /\ HeapInv
  BY <1>1 DEF ParseInv, Parsing
<1>3. Pending /\ ~Keyless /\ ~Keyless'
  BY <1>1 DEF Pending, Keyless
<1>4. NestInv'
  BY <1>1, <1>2, <1>3, NestKept
<1>5. KeysInv'
  BY <1>1, <1>2, <1>3 DEF KeysInv, OpenNodes
<1>6. HeapInv'
  BY <1>1, <1>2 DEF HeapInv, Tables, OpenNodes, KeyInHand
<1> QED
  BY <1>4, <1>5, <1>6 DEF ParseInv

\* A string goes on.
LEMMA PutParse ==
  ASSUME JsonInv, ParseInv, doing = "string", NEW bytes, NEW need, NEW next, Put(bytes, need, next)
  PROVE  ParseInv'
<1>1. UNCHANGED <<text, doing, frames, cur, nodes, live, todo>>
  BY DEF Put
<1>2. NestInv /\ KeysInv /\ HeapInv
  BY DEF ParseInv, Parsing
<1>3. (Pending' <=> Pending) /\ (Keyless' <=> Keyless)
  BY <1>1 DEF Pending, Keyless
<1>4. NestInv'
  BY <1>1, <1>2, <1>3 DEF NestInv, Nested, OpenNodes, Innermost
<1>5. KeysInv'
  BY <1>1, <1>2, <1>3 DEF KeysInv, OpenNodes, Innermost
<1>6. HeapInv'
  BY <1>1, <1>2 DEF HeapInv, Tables, OpenNodes, KeyInHand, Innermost
<1> QED
  BY <1>4, <1>5, <1>6 DEF ParseInv

\* After exit nothing is claimed of the values.
LEMMA ExitParse ==
  ASSUME Exit
  PROVE  ParseInv'
BY DEF Exit, ParseInv, Parsing

\* A key that is read has its block, and is not yet counted.
LEMMA ParseKeyParse ==
  ASSUME JsonInv, ParseInv, ParseKey
  PROVE  ParseInv'
<1>1. CASE At(Skip(pos)) # Quote
  BY <1>1, ExitParse DEF ParseKey
<1>2. CASE At(Skip(pos)) = Quote
  <2>1. doing = "key"
    BY DEF ParseKey
  <2>2. frames # <<>> /\ Last(frames).node = Innermost
    <3>1. frames # <<>>
      BY <2>1 DEF JsonInv, FramesInv, Keyless
    <3> QED
      BY <3>1, TopIs
  <2>3. /\ live' = live \cup {KeyOf(Innermost, Len(nodes[Innermost].keys) + 1)}
        /\ cur' = 0 /\ doing' = "string" /\ UNCHANGED <<text, frames, nodes, todo>>
    BY <1>2, <2>2 DEF ParseKey
  <2>4. NestInv /\ KeysInv /\ HeapInv
    BY <2>1 DEF ParseInv, Parsing
  <2>5. ~Pending /\ ~Pending' /\ Keyless /\ Keyless'
    BY <2>1, <2>3 DEF Pending, Keyless
  <2>6. NestInv'
    BY <2>2, <2>3, <2>4, <2>5, NestKept
  <2>7. KeysInv'
    BY <2>3, <2>4, <2>5 DEF KeysInv, OpenNodes, Innermost
  <2>8. HeapInv'
    <3>1. KeyInHand = {} /\ KeyInHand' = {KeyOf(Innermost, Len(nodes[Innermost].keys) + 1)}
      BY <2>1, <2>3 DEF KeyInHand, Innermost
    <3>2. Tables' = Tables
      BY <2>3 DEF Tables, OpenNodes
    <3> QED
      BY <2>3, <2>4, <3>1, <3>2 DEF HeapInv
  <2> QED
    BY <2>6, <2>7, <2>8 DEF ParseInv
<1> QED
  BY <1>1, <1>2

\* The string is complete: a key goes into the innermost object, a text to its value.
LEMMA StringEndParse ==
  ASSUME JsonInv, ParseInv, StringEnd
  PROVE  ParseInv'
<1> DEFINE s == CString(str)  n == Len(nodes)
<1>1. /\ doing = "string" /\ UNCHANGED <<text, frames, cur, str, strCap, live, todo>>
      /\ s \in Text
      /\ cur # 0 => /\ nodes' = [nodes EXCEPT ![cur].text = s] /\ doing' = "store"
                    /\ cur \in 1 .. n /\ nodes[cur] \in Node
      /\ cur = 0 => /\ nodes' = [nodes EXCEPT ![Innermost].keys = Append(@, s)]
                    /\ doing' \in {"value", "exit"}
                    /\ frames # <<>> /\ Innermost \in 1 .. n /\ nodes[Innermost] \in Node
  BY StringEndIs
<1>2. NestInv /\ KeysInv /\ HeapInv
  BY <1>1 DEF ParseInv, Parsing
<1>3. /\ n \in Nat /\ DOMAIN nodes = 1 .. n /\ OpenNodes \subseteq 1 .. n
      /\ OpenNodes' = OpenNodes /\ Innermost' = Innermost /\ Tables' = Tables
  BY <1>1, OpenAre DEF OpenNodes, Innermost, Tables
<1> HIDE DEF s, n
\* The value is complete.
<1>4. CASE cur # 0
  <2> DEFINE node == [nodes[cur] EXCEPT !.text = s]
  <2>1. node \in Node /\ node.type = nodes[cur].type /\ node.kids = nodes[cur].kids /\ node.keys = nodes[cur].keys
    BY <1>1, <1>4, TextSet
  <2>2. nodes' = [nodes EXCEPT ![cur] = node]
    BY <1>1, <1>4
  <2> HIDE DEF node
  <2>3. /\ Len(nodes') = Len(nodes) /\ DOMAIN nodes' = DOMAIN nodes
        /\ \A j \in 1 .. n : /\ nodes'[j].type = nodes[j].type /\ nodes'[j].kids = nodes[j].kids
                             /\ nodes'[j].keys = nodes[j].keys
    <3>1. cur \in 1 .. Len(nodes)
      BY <1>1, <1>4 DEF n
    <3>2. /\ Len(nodes') = Len(nodes) /\ DOMAIN nodes' = DOMAIN nodes
          /\ \A j \in 1 .. Len(nodes) : nodes'[j] = IF j = cur THEN node ELSE nodes[j]
      BY <2>1, <2>2, <3>1, NodeChanged DEF JsonInv
    <3> QED
      BY <2>1, <3>2 DEF n
  <2>4. Pending /\ Pending' /\ ~Keyless /\ ~Keyless'
    BY <1>1, <1>4 DEF Pending, Keyless
  <2>5. NestInv'
    BY <1>1, <1>2, <1>3, <2>3, <2>4, NestKept
  <2>6. KeysInv'
    BY <1>1, <1>2, <1>3, <1>4, <2>3, <2>4 DEF KeysInv
  <2>7. HeapInv'
    <3>1. \A i \in DOMAIN nodes : BlocksOf(nodes', i) = BlocksOf(nodes, i)
      BY <1>3, <2>3 DEF BlocksOf
    <3>2. AllBlocks(nodes') = AllBlocks(nodes)
      BY <2>3, <3>1 DEF AllBlocks
    <3>3. KeyInHand = {} /\ KeyInHand' = {}
      BY <1>1, <1>4 DEF KeyInHand
    <3> QED
      BY <1>1, <1>2, <1>3, <3>2, <3>3 DEF HeapInv
  <2> QED
    BY <2>5, <2>6, <2>7 DEF ParseInv
\* The key is one of the innermost.
<1>5. CASE cur = 0 /\ doing' = "value"
  <2> DEFINE t == Innermost  keys == nodes[t].keys  more == Append(keys, s)
             node == [nodes[t] EXCEPT !.keys = Append(@, s)]
  <2>1. /\ node \in Node /\ node.type = nodes[t].type /\ node.kids = nodes[t].kids /\ node.keys = more
        /\ Len(more) = Len(keys) + 1 /\ DOMAIN more = 1 .. Len(keys) + 1
        /\ DOMAIN keys = 1 .. Len(keys) /\ Len(keys) \in Nat
    BY <1>1, <1>5, KeyAppended
  <2>2. nodes' = [nodes EXCEPT ![t] = node]
    BY <1>1, <1>5
  <2>3. t \in 1 .. n /\ t \in OpenNodes /\ nodes[t].type = "object"
    <3>1. Keyless
      BY <1>1, <1>5 DEF Keyless
    <3> QED
      BY <1>1, <1>5, <3>1, OpenAre DEF JsonInv, FramesInv
  <2> DEFINE same == t = Innermost
  <2>0. same
    OBVIOUS
  <2> HIDE DEF node, t
  <2>4. /\ Len(nodes') = Len(nodes) /\ DOMAIN nodes' = DOMAIN nodes
        /\ \A j \in 1 .. n : nodes'[j] = IF j = t THEN node ELSE nodes[j]
        /\ \A j \in 1 .. n : nodes'[j].type = nodes[j].type /\ nodes'[j].kids = nodes[j].kids
    <3>1. t \in 1 .. Len(nodes)
      BY <2>3 DEF n
    <3>2. /\ Len(nodes') = Len(nodes) /\ DOMAIN nodes' = DOMAIN nodes
          /\ \A j \in 1 .. Len(nodes) : nodes'[j] = IF j = t THEN node ELSE nodes[j]
      BY <2>1, <2>2, <3>1, NodeChanged DEF JsonInv
    <3> QED
      BY <2>1, <3>2 DEF n
  <2>5. ~Pending /\ ~Pending' /\ Keyless /\ ~Keyless'
    BY <1>1, <1>5 DEF Pending, Keyless
  <2>6. NestInv'
    BY <1>1, <1>2, <1>3, <1>5, <2>4, <2>5, NestKept
  <2> HIDE DEF keys, more
  <2>7. nodes[t].keys = keys /\ nodes'[t].keys = more
    BY <2>1, <2>3, <2>4 DEF keys
  <2>8. KeysInv'
    <3>1. ASSUME NEW i \in 1 .. n
          PROVE  /\ nodes'[i].type # "object" => nodes'[i].keys = <<>>
                 /\ nodes'[i].type = "object" =>
                      Len(nodes'[i].keys) = IF i \in OpenNodes THEN Len(nodes'[i].kids) + 1
                                            ELSE Len(nodes'[i].kids)
      <4>1. /\ nodes[i].type # "object" => nodes[i].keys = <<>>
            /\ nodes[i].type = "object" =>
                 Len(nodes[i].keys) = IF i \in OpenNodes /\ i # t THEN Len(nodes[i].kids) + 1
                                      ELSE Len(nodes[i].kids)
        BY <1>2, <1>3, <2>0, <2>5 DEF KeysInv
      <4>2. CASE i = t
        <5>1. Len(keys) = Len(nodes[t].kids)
          BY <2>3, <2>7, <4>1, <4>2
        <5> QED
          BY <2>1, <2>3, <2>4, <2>7, <4>2, <5>1
      <4>3. CASE i # t
        BY <2>4, <4>1, <4>3
      <4> QED
        BY <4>2, <4>3
    <3> QED
      BY <1>3, <1>5, <2>4, <2>5, <3>1 DEF KeysInv
  <2>9. HeapInv'
    <3>0. PICK key : key = KeyOf(t, Len(keys) + 1)
      OBVIOUS
    <3>1. BlocksOf(nodes', t) = BlocksOf(nodes, t) \cup {key}
      <4>1. 1 .. Len(keys) + 1 = 1 .. Len(keys) \cup {Len(keys) + 1}
        BY <2>1
      <4>2. {KeyOf(t, k) : k \in DOMAIN more} = {KeyOf(t, k) : k \in DOMAIN keys} \cup {key}
        BY <2>1, <3>0, <4>1
      <4>3. nodes'[t].type = nodes[t].type /\ nodes'[t].kids = nodes[t].kids
        BY <2>3, <2>4
      <4> QED
        BY <2>7, <4>2, <4>3 DEF BlocksOf
    <3>2. \A i \in DOMAIN nodes : i # t => BlocksOf(nodes', i) = BlocksOf(nodes, i)
      BY <1>3, <2>4 DEF BlocksOf
    <3>3. t \in DOMAIN nodes /\ DOMAIN nodes' = DOMAIN nodes
      BY <1>3, <2>3, <2>4
    <3>4. AllBlocks(nodes') = AllBlocks(nodes) \cup {key}
      <4> SUFFICES ASSUME NEW X, BlocksOf(nodes', t) = BlocksOf(nodes, t) \cup X
                   PROVE  AllBlocks(nodes') = AllBlocks(nodes) \cup X
        BY <3>1
      <4> QED
        BY <3>2, <3>3, BlocksChange
    <3>5. KeyInHand = {key} /\ KeyInHand' = {}
      BY <1>1, <1>5, <2>0, <2>7, <3>0 DEF KeyInHand
    <3> QED
      BY <1>1, <1>2, <1>3, <3>4, <3>5 DEF HeapInv
  <2> QED
    BY <2>6, <2>8, <2>9 DEF ParseInv
<1>6. CASE doing' = "exit"
  BY <1>6 DEF ParseInv, Parsing
<1> QED
  BY <1>1, <1>4, <1>5, <1>6

\* A value that is complete at once has one block.
LEMMA LeafParse ==
  ASSUME JsonInv, ParseInv, doing = "value", NEW node \in Node, NEW next,
         node.kids = <<>>, node.keys = <<>>, node.type # "string", Leaf(node, next)
  PROVE  ParseInv'
<1>1. /\ nodes' = Append(nodes, node) /\ live' = live \cup {Own(Fresh)}
      /\ cur' = Fresh /\ frames' = frames /\ doing' = "store"
  BY DEF Leaf
<1>2. live' = live \cup ({Own(Fresh)} \cup (IF node.type = "string" THEN {TextOf(Fresh)} ELSE {}))
  BY <1>1
<1>3. doing' \in {"store", "string"} /\ doing' # "string"
  BY <1>1
<1> QED
  BY <1>1, <1>2, <1>3, FreshParse

\* A bracket is read: a block for the value, and one for its table.
LEMMA ParseOpenParse ==
  ASSUME JsonInv, ParseInv, NEW type \in DOMAIN Open, ParseOpen(type)
  PROVE  ParseInv'
<1> DEFINE next == Skip(Skip(pos) + 1)  node == Made(type)
<1>1. type \in {"object", "array"}
  BY DEF Open
<1>2. node \in Node /\ node.type = type /\ node.kids = <<>> /\ node.keys = <<>>
  BY <1>1, MadeIs
<1>3. doing = "value"
  BY DEF ParseOpen
<1>4. CASE At(next) = Closed[type]
  <2>1. Leaf(node, next + 1)
    BY <1>4 DEF ParseOpen
  <2>2. node.type # "string"
    BY <1>1, <1>2
  <2> HIDE DEF node
  <2> QED
    BY <1>2, <1>3, <2>1, <2>2, LeafParse
<1>5. CASE At(next) # Closed[type]
  <2> DEFINE frame == [node |-> Fresh, cap |-> TableCap]
  <2>1. /\ nodes' = Append(nodes, node)
        /\ live' = live \cup {Own(Fresh), Table(Fresh)}
        /\ frames' = Append(frames, frame)
        /\ doing' = IF type = "object" THEN "key" ELSE "value"
        /\ cur' = cur
    BY <1>5 DEF ParseOpen
  <2>2. frame.node = Fresh
    OBVIOUS
  <2> HIDE DEF frame, node
  <2>3. /\ Len(frames') = Len(frames) + 1 /\ frames'[Len(frames) + 1] = frame /\ frames' # <<>>
        /\ DOMAIN frames' = 1 .. Len(frames) + 1
        /\ \A j \in 1 .. Len(frames) : frames'[j] = frames[j]
    <3> DEFINE S == [node : DOMAIN nodes, cap : Nat] \cup {frame}
    <3>1. frames \in Seq([node : DOMAIN nodes, cap : Nat])
      BY DEF JsonInv, TypeJson
    <3>2. [node : DOMAIN nodes, cap : Nat] \subseteq S /\ frame \in S
      OBVIOUS
    <3> HIDE DEF S
    <3>3. frames \in Seq(S)
      <4> DEFINE R == [node : DOMAIN nodes, cap : Nat]
      <4>1. frames \in Seq(R) /\ R \subseteq S
        BY <3>1, <3>2
      <4> HIDE DEF R
      <4> QED
        BY <4>1, SeqMonotonic
    <3>4. /\ frames' \in Seq(S) /\ Len(frames') = Len(frames) + 1
          /\ frames'[Len(frames) + 1] = frame /\ frames' # <<>>
          /\ \A j \in 1 .. Len(frames) : frames'[j] = frames[j]
      BY <2>1, <3>2, <3>3, AppendProperties
    <3>5. DOMAIN frames' = 1 .. Len(frames')
      BY <3>4, LenProperties
    <3> QED
      BY <3>4, <3>5
  <2>4. doing' = IF node.type = "object" THEN "key" ELSE "value"
    BY <1>2, <2>1
  <2>5. node.type \in {"object", "array"}
    BY <1>1, <1>2
  <2> QED
    BY <1>2, <1>3, <2>1, <2>2, <2>3, <2>4, <2>5, OpenParse
<1> QED
  BY <1>4, <1>5

\* A step of the parser keeps the account of the values and their blocks.
LEMMA ParseParse ==
  ASSUME JsonInv, ParseInv, Parse
  PROVE  ParseInv'
<1>1. CASE \E type \in DOMAIN Open : ParseOpen(type)
  BY <1>1, ParseOpenParse
<1>2. CASE ParseString
  <2> DEFINE node == Made("string")
  <2>1. node \in Node /\ node.type = "string" /\ node.kids = <<>> /\ node.keys = <<>>
    BY MadeIs
  <2>2. /\ doing = "value" /\ nodes' = Append(nodes, node) /\ cur' = Fresh /\ frames' = frames
        /\ live' = live \cup {Own(Fresh), TextOf(Fresh)} /\ doing' = "string"
    BY <1>2 DEF ParseString
  <2> HIDE DEF node
  <2>3. live' = live \cup ({Own(Fresh)} \cup (IF node.type = "string" THEN {TextOf(Fresh)} ELSE {}))
    BY <2>1, <2>2
  <2>4. doing' \in {"store", "string"}
    BY <2>2
  <2> QED
    BY <2>1, <2>2, <2>3, <2>4, FreshParse
<1>3. CASE ParseLiteral
  <2>1. PICK type \in DOMAIN Literals : (\E next : Leaf(Made(type), next)) \/ Exit
    BY <1>3 DEF ParseLiteral
  <2>2. type \in {"true", "false", "null"} /\ doing = "value"
    BY <1>3 DEF Literals, ParseLiteral
  <2> DEFINE node == Made(type)
  <2>3. node \in Node /\ node.type # "string" /\ node.kids = <<>> /\ node.keys = <<>>
    BY <2>2, MadeIs
  <2>4. (\E next : Leaf(node, next)) \/ Exit
    BY <2>1
  <2> HIDE DEF node
  <2> QED
    BY <2>2, <2>3, <2>4, LeafParse, ExitParse
<1>4. CASE ParseNumber
  <2> DEFINE at == Skip(pos)  digits == SubSeq(text, at + 1, NumberEnd(at))
             kept == Atof(IF Len(digits) >= NumberCap THEN SubSeq(digits, 1, NumberCap - 1) ELSE digits)
             node == [Made("number") EXCEPT !.text = kept]
  <2>1. Leaf(node, NumberEnd(at)) /\ doing = "value"
    BY <1>4 DEF ParseNumber
  <2> HIDE DEF kept
  <2>2. /\ node.type # "string" /\ node.kids = <<>> /\ node.keys = <<>>
    BY DEF Made
  <2> HIDE DEF node, at
  <2>3. nodes' = Append(nodes, node)
    BY <2>1 DEF Leaf
  <2>4. node \in Node
    <3>1. JsonInv'
      BY <1>4, ParseNumberJson
    <3>2. nodes' \in Seq(Node) /\ Len(nodes) \in Nat /\ nodes \in Seq(Node)
      BY <3>1, NodesAre DEF JsonInv, TypeJson
    <3> DEFINE S == Node \cup {node}
    <3>3. nodes \in Seq(S) /\ node \in S
      <4>1. Node \subseteq S /\ node \in S
        OBVIOUS
      <4> HIDE DEF S
      <4> QED
        BY <3>2, <4>1, SeqMonotonic
    <3> HIDE DEF S
    <3>4. Len(nodes') = Len(nodes) + 1 /\ nodes'[Len(nodes) + 1] = node
      BY <2>3, <3>3, AppendProperties
    <3>5. Len(nodes) + 1 \in 1 .. Len(nodes')
      BY <3>2, <3>4
    <3> QED
      BY <3>2, <3>4, <3>5, ElementOfSeq
  <2> QED
    BY <2>1, <2>2, <2>4, LeafParse
<1>5. CASE StoreRoot
  BY <1>5, StoreRootParse
<1>6. CASE StoreMember
  BY <1>6, StoreMemberParse
<1>7. CASE ParseKey
  BY <1>7, ParseKeyParse
<1>8. CASE StringChar
  BY <1>8, PutParse DEF StringChar
<1>9. CASE StringEscape
  BY <1>9, PutParse, ExitParse DEF StringEscape
<1>10. CASE StringCode
  <2>1. doing' = "undefined" => ParseInv'
    BY DEF ParseInv, Parsing
  <2> QED
    BY <1>10, <2>1, PutParse DEF StringCode
<1>11. CASE StringCut
  BY <1>11, ExitParse DEF StringCut
<1>12. CASE StringEnd
  BY <1>12, StringEndParse
<1> QED
  BY <1>1, <1>2, <1>3, <1>4, <1>5, <1>6, <1>7, <1>8, <1>9, <1>10, <1>11, <1>12 DEF Parse

--------------------------------------------------------------------------------
(* json_free: what is still to be freed shares out what is allocated *)

\* No entry is for no block.
LEMMA SplitsNone == \A ns, e : Splits(ns, e, <<>>, {})
<1> TAKE ns, e
<1>1. <<>> \in Seq(Entries(ns)) /\ DOMAIN <<>> = {}
  OBVIOUS
<1> QED
  BY <1>1 DEF Splits

\* One entry is for the blocks it covers.
LEMMA SplitsOne ==
  ASSUME NEW ns, NEW e, NEW b \in Entries(ns)
  PROVE  Splits(ns, e, <<b>>, Cover(ns, e, b))
<1> DEFINE s == <<b>>
<1>1. s \in Seq(Entries(ns)) /\ DOMAIN s = {1} /\ s[1] = b
  OBVIOUS
<1> HIDE DEF s
<1>2. Splits(ns, e, s, Cover(ns, e, b))
  BY <1>1 DEF Splits
<1> QED
  BY <1>2 DEF s

\* Two lists of entries for different blocks, one behind the other.
LEMMA SplitsBoth ==
  ASSUME NEW ns, NEW e, NEW s, NEW t, NEW A, NEW B, Splits(ns, e, s, A), Splits(ns, e, t, B), A \cap B = {}
  PROVE  Splits(ns, e, s \o t, A \cup B)
<1> DEFINE S == Entries(ns)  m == Len(s)  n == Len(t)  u == s \o t
           C(b) == Cover(ns, e, b)
<1>1. s \in Seq(S) /\ t \in Seq(S)
  BY DEF Splits
<1>2. m \in Nat /\ n \in Nat /\ DOMAIN s = 1 .. m /\ DOMAIN t = 1 .. n
  BY <1>1, LenProperties
<1>3. /\ u \in Seq(S) /\ Len(u) = m + n
      /\ \A k \in 1 .. m : u[k] = s[k]
      /\ \A k \in 1 .. n : u[m + k] = t[k]
  BY <1>1, <1>2, ConcatProperties
<1>4. DOMAIN u = 1 .. m + n
  BY <1>3, LenProperties
<1> HIDE DEF S, m, n, u, C
<1>5. \A k \in 1 .. m + n : (k \in 1 .. m /\ u[k] = s[k]) \/ (k - m \in 1 .. n /\ u[k] = t[k - m])
  <2> TAKE k \in 1 .. m + n
  <2>1. k \in 1 .. m \/ (k - m \in 1 .. n /\ m + (k - m) = k)
    BY <1>2
  <2> QED
    BY <1>3, <2>1
<1>6. A = UNION {C(s[k]) : k \in 1 .. m} /\ B = UNION {C(t[k]) : k \in 1 .. n}
  BY <1>2 DEF Splits, C
<1>7. A \cup B = UNION {C(u[k]) : k \in 1 .. m + n}
  <2>1. \A x \in UNION {C(u[k]) : k \in 1 .. m + n} : x \in A \cup B
    BY <1>5, <1>6
  <2>2. \A x \in A : x \in UNION {C(u[k]) : k \in 1 .. m + n}
    <3> TAKE x \in A
    <3>1. PICK k \in 1 .. m : x \in C(s[k])
      BY <1>6
    <3>2. k \in 1 .. m + n /\ u[k] = s[k]
      BY <1>2, <1>3
    <3> QED
      BY <3>1, <3>2
  <2>3. \A x \in B : x \in UNION {C(u[k]) : k \in 1 .. m + n}
    <3> TAKE x \in B
    <3>1. PICK k \in 1 .. n : x \in C(t[k])
      BY <1>6
    <3>2. m + k \in 1 .. m + n /\ u[m + k] = t[k]
      BY <1>2, <1>3
    <3> QED
      BY <3>1, <3>2
  <2> QED
    BY <2>1, <2>2, <2>3
<1>8. /\ \A k, l \in 1 .. m : k # l => C(s[k]) \cap C(s[l]) = {}
      /\ \A k, l \in 1 .. n : k # l => C(t[k]) \cap C(t[l]) = {}
      /\ \A k \in 1 .. m, l \in 1 .. n : C(s[k]) \cap C(t[l]) = {}
  <2>1. \A k, l \in 1 .. m : k # l => C(s[k]) \cap C(s[l]) = {}
    BY <1>2 DEF Splits, C
  <2>2. \A k, l \in 1 .. n : k # l => C(t[k]) \cap C(t[l]) = {}
    BY <1>2 DEF Splits, C
  <2>3. \A k \in 1 .. m : C(s[k]) \subseteq A
    BY <1>6
  <2>4. \A l \in 1 .. n : C(t[l]) \subseteq B
    BY <1>6
  <2> QED
    BY <2>1, <2>2, <2>3, <2>4
<1>9. \A k, l \in 1 .. m + n : k # l => C(u[k]) \cap C(u[l]) = {}
  <2> TAKE k, l \in 1 .. m + n
  <2> HAVE k # l
  <2>1. k - m # l - m
    BY <1>2
  <2> QED
    BY <1>5, <1>8, <2>1
<1> QED
  BY <1>3, <1>4, <1>7, <1>9 DEF Splits, S, u, C

\* Without the first entry the list is for the blocks that this does not cover.
LEMMA SplitsRest ==
  ASSUME NEW ns, NEW e, NEW s, NEW B, Splits(ns, e, s, B), s # <<>>
  PROVE  /\ Head(s) \in Entries(ns) /\ Cover(ns, e, Head(s)) \subseteq B
         /\ Splits(ns, e, Tail(s), B \ Cover(ns, e, Head(s)))
<1> DEFINE S == Entries(ns)  n == Len(s)  t == Tail(s)
           C(b) == Cover(ns, e, b)
<1>1. s \in Seq(S)
  BY DEF Splits
<1>2. n \in Nat \ {0} /\ DOMAIN s = 1 .. n
  BY <1>1, LenProperties, EmptySeq
<1>3. Head(s) = s[1] /\ s[1] \in S
  <2>1. 1 \in 1 .. n
    BY <1>2
  <2> QED
    BY <1>1, <2>1, ElementOfSeq, HeadTailProperties
<1>4. /\ t \in Seq(S) /\ Len(t) = n - 1
      /\ \A k \in 1 .. n - 1 : t[k] = s[k + 1]
  BY <1>1, HeadTailProperties
<1>5. DOMAIN t = 1 .. n - 1
  BY <1>4, LenProperties
<1> HIDE DEF S, n, t, C
<1>6. /\ B = UNION {C(s[k]) : k \in 1 .. n}
      /\ \A k, l \in 1 .. n : k # l => C(s[k]) \cap C(s[l]) = {}
  BY <1>2 DEF Splits, C
<1>7. 1 \in 1 .. n /\ \A k \in 1 .. n - 1 : k + 1 \in 1 .. n /\ k + 1 # 1
  BY <1>2
<1>8. \A k \in 1 .. n : k = 1 \/ (k - 1 \in 1 .. n - 1 /\ (k - 1) + 1 = k)
  BY <1>2
<1>9. C(s[1]) \subseteq B
  BY <1>6, <1>7
<1>10. B \ C(s[1]) = UNION {C(t[k]) : k \in 1 .. n - 1}
  <2>1. \A x \in UNION {C(t[k]) : k \in 1 .. n - 1} : x \in B /\ x \notin C(s[1])
    <3> TAKE x \in UNION {C(t[k]) : k \in 1 .. n - 1}
    <3>1. PICK k \in 1 .. n - 1 : x \in C(t[k])
      OBVIOUS
    <3>2. k + 1 \in 1 .. n /\ k + 1 # 1 /\ t[k] = s[k + 1]
      BY <1>4, <1>7
    <3>3. x \in C(s[k + 1]) /\ C(s[1]) \cap C(s[k + 1]) = {}
      BY <1>6, <1>7, <3>1, <3>2
    <3> QED
      BY <1>6, <3>2, <3>3
  <2>2. \A x \in B \ C(s[1]) : x \in UNION {C(t[k]) : k \in 1 .. n - 1}
    <3> TAKE x \in B \ C(s[1])
    <3>1. PICK k \in 1 .. n : x \in C(s[k])
      BY <1>6
    <3>2. k # 1
      BY <3>1
    <3>3. k - 1 \in 1 .. n - 1 /\ (k - 1) + 1 = k
      BY <1>8, <3>2
    <3>4. t[k - 1] = s[k]
      BY <1>4, <3>3
    <3> QED
      BY <3>1, <3>3, <3>4
  <2> QED
    BY <2>1, <2>2
<1>11. \A k, l \in 1 .. n - 1 : k # l => C(t[k]) \cap C(t[l]) = {}
  <2> TAKE k, l \in 1 .. n - 1
  <2> HAVE k # l
  <2>1. k + 1 # l + 1 /\ k + 1 \in 1 .. n /\ l + 1 \in 1 .. n
    BY <1>2
  <2> QED
    BY <1>4, <1>6, <2>1
<1>12. Splits(ns, e, t, B \ C(s[1]))
  BY <1>4, <1>5, <1>10, <1>11 DEF Splits, S, C
<1> QED
  BY <1>3, <1>9, <1>12 DEF S, C, t

\* FlattenSeq there and here are one operator.
LEMMA SameFlat == \A s : Numbers!FlattenSeq(s) = FlattenSeq(s)
BY DEF FlattenSeq, Numbers!FlattenSeq

\* FlattenSeq puts one sequence behind the other.
LEMMA FlatIs ==
  ASSUME NEW S, NEW seqs \in Seq(Seq(S))
  PROVE  \E f : /\ f \in [0 .. Len(seqs) -> Seq(S)] /\ f[0] = <<>>
                /\ \A n \in 1 .. Len(seqs) : f[n] = f[n - 1] \o seqs[n]
                /\ FlattenSeq(seqs) = f[Len(seqs)]
<1>1. PICK f : Numbers!Accumulates(f, seqs, S, Len(seqs)) /\ Numbers!FlattenSeq(seqs) = f[Len(seqs)]
  BY Numbers!FlattenIs
<1> QED
  BY <1>1, SameFlat DEF Numbers!Accumulates

\* Many lists for different blocks, one behind the other.
LEMMA SplitsFlat ==
  ASSUME NEW ns, NEW e, NEW n \in Nat, NEW seqs \in Seq(Seq(Entries(ns))), NEW A, NEW C, Len(seqs) = n,
         \A k \in 1 .. n : Splits(ns, e, seqs[k], A[k]),
         \A k, l \in 1 .. n : k # l => A[k] \cap A[l] = {},
         \A b : b \in C <=> \E k \in 1 .. n : b \in A[k]
  PROVE  Splits(ns, e, FlattenSeq(seqs), C)
<1>1. PICK f : /\ f \in [0 .. n -> Seq(Entries(ns))] /\ f[0] = <<>>
               /\ \A k \in 1 .. n : f[k] = f[k - 1] \o seqs[k]
               /\ FlattenSeq(seqs) = f[n]
  BY FlatIs
<1> DEFINE B(k) == UNION {A[j] : j \in 1 .. k}
           Wrong == {k \in 0 .. n : ~Splits(ns, e, f[k], B(k))}
<1>2. Wrong = {}
  <2> SUFFICES ASSUME Wrong # {} PROVE FALSE
    OBVIOUS
  <2>1. Wrong \in SUBSET Nat
    OBVIOUS
  <2>2. PICK k \in Wrong : \A j \in Wrong : k <= j
    BY <2>1, Numbers!LeastNatural
  <2>3. k \in 0 .. n /\ ~Splits(ns, e, f[k], B(k))
    OBVIOUS
  <2>4. CASE k = 0
    <3>1. B(k) = {}
      BY <2>4
    <3>2. f[k] = <<>>
      BY <1>1, <2>4
    <3> HIDE DEF B
    <3> QED
      BY <2>3, <3>1, <3>2, SplitsNone
  <2>5. CASE k # 0
    <3>1. k - 1 \in 0 .. n /\ ~(k <= k - 1) /\ k \in 1 .. n
      BY <2>3, <2>5
    <3>2. k - 1 \notin Wrong
      <4> HIDE DEF Wrong
      <4> QED
        BY <2>2, <3>1
    <3>3. Splits(ns, e, f[k - 1], B(k - 1))
      BY <3>1, <3>2
    <3>4. B(k) = B(k - 1) \cup A[k]
      <4>1. 1 .. k = 1 .. k - 1 \cup {k}
        BY <3>1
      <4> QED
        BY <4>1
    <3>5. B(k - 1) \cap A[k] = {}
      <4> SUFFICES ASSUME NEW x \in B(k - 1), x \in A[k] PROVE FALSE
        OBVIOUS
      <4>1. PICK j \in 1 .. k - 1 : x \in A[j]
        OBVIOUS
      <4>2. j \in 1 .. n /\ j # k
        BY <3>1, <4>1
      <4> QED
        BY <3>1, <4>1, <4>2
    <3>6. Splits(ns, e, seqs[k], A[k])
      BY <3>1
    <3> HIDE DEF B
    <3>7. Splits(ns, e, f[k - 1] \o seqs[k], B(k - 1) \cup A[k])
      BY <3>3, <3>5, <3>6, SplitsBoth
    <3> QED
      BY <1>1, <2>3, <3>1, <3>4, <3>7
  <2> QED
    BY <2>4, <2>5
<1>3. n \in 0 .. n
  OBVIOUS
<1>4. Splits(ns, e, f[n], B(n))
  BY <1>2, <1>3
<1>5. B(n) = C
  OBVIOUS
<1> QED
  BY <1>1, <1>4, <1>5

--------------------------------------------------------------------------------
(* json_free: a value, its blocks and those of the values in it *)

Whole(ns, e, i) == UNION {BlocksOf(ns, j) : j \in i .. e[i] - 1}

\* What each kind of entry covers.
LEMMA CoverIs ==
  ASSUME NEW ns, NEW e, NEW i
  PROVE  /\ Cover(ns, e, Own(i)) = Whole(ns, e, i)
         /\ Cover(ns, e, Marked(i)) = {Own(i)}
         /\ Cover(ns, e, TextOf(i)) = {TextOf(i)}
         /\ Cover(ns, e, Table(i)) = {Table(i)}
         /\ \A k : Cover(ns, e, KeyOf(i, k)) = {KeyOf(i, k)}
BY DEF Cover, Whole, Own, Marked, TextOf, Table, KeyOf

\* Each kind of entry is one.
LEMMA EntryIs ==
  ASSUME NEW ns, NEW i \in DOMAIN ns, i \in Nat
  PROVE  /\ Own(i) \in Entries(ns) /\ Marked(i) \in Entries(ns)
         /\ TextOf(i) \in Entries(ns) /\ Table(i) \in Entries(ns)
         /\ \A k \in Nat : KeyOf(i, k) \in Entries(ns)
BY DEF Entries, Blocks, Own, Marked, TextOf, Table, KeyOf

\* Each block tells the value it is for.
LEMMA BlockOwner == \A ns, i : \A b \in BlocksOf(ns, i) : b[2] = i
BY DEF BlocksOf, Own, TextOf, Table, KeyOf

\* Blocks of different kinds, and of different values, are different.
LEMMA BlocksApart ==
  \A i, j, k, l :
    /\ Own(i) # TextOf(j) /\ Own(i) # Table(j) /\ Own(i) # KeyOf(j, k) /\ Own(i) # Marked(j)
    /\ TextOf(i) # Table(j) /\ TextOf(i) # KeyOf(j, k) /\ Table(i) # KeyOf(j, k)
    /\ KeyOf(i, k) = KeyOf(j, l) => i = j /\ k = l
    /\ Own(i) = Own(j) => i = j
BY DEF Own, TextOf, Table, KeyOf, Marked

\* A block is in a value if the value it is for is.
LEMMA InWhole ==
  ASSUME NEW ns, NEW e, NEW i, NEW b
  PROVE  b \in Whole(ns, e, i) <=> b[2] \in i .. e[i] - 1 /\ b \in BlocksOf(ns, b[2])
<1>1. ASSUME b \in Whole(ns, e, i) PROVE b[2] \in i .. e[i] - 1 /\ b \in BlocksOf(ns, b[2])
  <2>1. PICK j \in i .. e[i] - 1 : b \in BlocksOf(ns, j)
    BY <1>1 DEF Whole
  <2> QED
    BY <2>1, BlockOwner
<1>2. ASSUME b[2] \in i .. e[i] - 1, b \in BlocksOf(ns, b[2]) PROVE b \in Whole(ns, e, i)
  BY <1>2 DEF Whole
<1> QED
  BY <1>1, <1>2

\* The values in a value, and itself, make up the whole without overlap.
LEMMA WholeTiled ==
  ASSUME NEW ns, NEW n \in Nat, NEW e, DOMAIN ns = 1 .. n, Len(ns) = n, Shape(ns, e), NEW i \in DOMAIN ns,
         NEW kids \in Seq(Nat), kids = ns[i].kids
  PROVE  /\ \A k \in DOMAIN kids : kids[k] \in DOMAIN ns
         /\ Whole(ns, e, i) = BlocksOf(ns, i) \cup UNION {Whole(ns, e, kids[k]) : k \in DOMAIN kids}
         /\ \A k \in DOMAIN kids : Whole(ns, e, kids[k]) \cap BlocksOf(ns, i) = {}
         /\ \A k, l \in DOMAIN kids : k # l => Whole(ns, e, kids[k]) \cap Whole(ns, e, kids[l]) = {}
<1>1. i \in 1 .. n /\ Spans(kids, e, i, n)
  BY DEF Shape
<1>2. /\ e[i] \in i + 1 .. n + 1
      /\ \A k \in DOMAIN kids : kids[k] \in i + 1 .. n /\ kids[k] \in 1 .. n /\ e[kids[k]] <= e[i]
      /\ \A k, l \in DOMAIN kids : k < l => e[kids[k]] <= kids[l]
      /\ \A x \in i + 1 .. e[i] - 1 : \E k \in DOMAIN kids : kids[k] <= x /\ x < e[kids[k]]
  BY <1>1, KidsIn, Zenon
<1>3. \A k \in DOMAIN kids : e[kids[k]] \in Nat
  BY <1>2 DEF Shape
<1>4. ASSUME NEW b
      PROVE  b \in Whole(ns, e, i) <=>
               b \in BlocksOf(ns, i) \/ \E k \in DOMAIN kids : b \in Whole(ns, e, kids[k])
  <2>1. ASSUME b \in Whole(ns, e, i)
        PROVE  b \in BlocksOf(ns, i) \/ \E k \in DOMAIN kids : b \in Whole(ns, e, kids[k])
    <3>1. b[2] \in i .. e[i] - 1 /\ b \in BlocksOf(ns, b[2])
      BY <2>1, InWhole
    <3>2. b[2] = i \/ b[2] \in i + 1 .. e[i] - 1
      BY <1>1, <1>2, <3>1
    <3>3. CASE b[2] = i
      BY <3>1, <3>3
    <3>4. CASE b[2] \in i + 1 .. e[i] - 1
      <4>1. PICK k \in DOMAIN kids : kids[k] <= b[2] /\ b[2] < e[kids[k]]
        BY <1>2, <3>4
      <4>2. kids[k] \in Nat /\ e[kids[k]] \in Nat /\ b[2] \in Int
        BY <1>1, <1>2, <1>3, <3>4
      <4>3. b[2] \in kids[k] .. e[kids[k]] - 1
        BY <4>1, <4>2
      <4> QED
        BY <3>1, <4>3, InWhole
    <3> QED
      BY <3>2, <3>3, <3>4
  <2>2. ASSUME b \in BlocksOf(ns, i) PROVE b \in Whole(ns, e, i)
    <3>1. b[2] = i /\ i \in i .. e[i] - 1
      BY <1>1, <1>2, <2>2, BlockOwner
    <3> QED
      BY <2>2, <3>1, InWhole
  <2>3. ASSUME NEW k \in DOMAIN kids, b \in Whole(ns, e, kids[k]) PROVE b \in Whole(ns, e, i)
    <3>1. b[2] \in kids[k] .. e[kids[k]] - 1 /\ b \in BlocksOf(ns, b[2])
      BY <2>3, InWhole
    <3>2. PICK a, f, g, c : a = kids[k] /\ f = e[kids[k]] /\ g = e[i] /\ c = b[2]
      OBVIOUS
    <3>3. a \in i + 1 .. n /\ f \in Nat /\ g \in i + 1 .. n + 1 /\ f <= g /\ c \in a .. f - 1
      BY <1>2, <1>3, <3>1, <3>2
    <3>4. c \in i .. g - 1
      BY <1>1, <3>3
    <3> QED
      BY <3>1, <3>2, <3>4, InWhole
  <2> QED
    BY <2>1, <2>2, <2>3
<1>5. Whole(ns, e, i) = BlocksOf(ns, i) \cup UNION {Whole(ns, e, kids[k]) : k \in DOMAIN kids}
  BY <1>4
<1>6. ASSUME NEW k \in DOMAIN kids
      PROVE  Whole(ns, e, kids[k]) \cap BlocksOf(ns, i) = {}
  <2> SUFFICES ASSUME NEW b \in Whole(ns, e, kids[k]), b \in BlocksOf(ns, i) PROVE FALSE
    OBVIOUS
  <2>1. b[2] = i /\ b[2] \in kids[k] .. e[kids[k]] - 1
    BY BlockOwner, InWhole
  <2> QED
    BY <1>1, <1>2, <1>3, <2>1
<1>7. ASSUME NEW k \in DOMAIN kids, NEW l \in DOMAIN kids, k < l
      PROVE  Whole(ns, e, kids[k]) \cap Whole(ns, e, kids[l]) = {}
  <2> SUFFICES ASSUME NEW b \in Whole(ns, e, kids[k]), b \in Whole(ns, e, kids[l]) PROVE FALSE
    OBVIOUS
  <2>1. b[2] \in kids[l] .. e[kids[l]] - 1 /\ b[2] \in kids[k] .. e[kids[k]] - 1
    BY InWhole
  <2>2. e[kids[k]] <= kids[l] /\ e[kids[k]] \in Nat /\ kids[l] \in i + 1 .. n
    BY <1>2, <1>3, <1>7
  <2>3. PICK a, f, c : a = kids[l] /\ f = e[kids[k]] /\ c = b[2]
    OBVIOUS
  <2>4. f <= a /\ f \in Nat /\ a \in i + 1 .. n /\ a <= c /\ c \in Int /\ c <= f - 1
    BY <1>1, <1>2, <1>3, <2>1, <2>2, <2>3
  <2> QED
    BY <1>1, <2>4
<1>8. ASSUME NEW k \in DOMAIN kids, NEW l \in DOMAIN kids, k # l
      PROVE  Whole(ns, e, kids[k]) \cap Whole(ns, e, kids[l]) = {}
  <2>1. k < l \/ l < k
    BY <1>8, LenProperties
  <2> QED
    BY <1>7, <2>1
<1> QED
  BY <1>1, <1>2, <1>5, <1>6, <1>8

\* An entry of each kind, alone.
LEMMA SplitsSingle ==
  ASSUME NEW ns, NEW e, NEW i \in DOMAIN ns, i \in Nat
  PROVE  /\ Splits(ns, e, <<Own(i)>>, Whole(ns, e, i))
         /\ Splits(ns, e, <<Marked(i)>>, {Own(i)})
         /\ Splits(ns, e, <<TextOf(i)>>, {TextOf(i)})
         /\ Splits(ns, e, <<Table(i)>>, {Table(i)})
         /\ \A k \in Nat : Splits(ns, e, <<KeyOf(i, k)>>, {KeyOf(i, k)})
<1>1. /\ Own(i) \in Entries(ns) /\ Marked(i) \in Entries(ns)
      /\ TextOf(i) \in Entries(ns) /\ Table(i) \in Entries(ns)
      /\ \A k \in Nat : KeyOf(i, k) \in Entries(ns)
  BY EntryIs
<1>2. Splits(ns, e, <<Own(i)>>, Whole(ns, e, i))
  <2>1. Splits(ns, e, <<Own(i)>>, Cover(ns, e, Own(i)))
    BY <1>1, SplitsOne
  <2>2. Cover(ns, e, Own(i)) = Whole(ns, e, i)
    BY CoverIs
  <2> QED
    BY <2>1, <2>2
<1>3. Splits(ns, e, <<Marked(i)>>, {Own(i)})
  <2>1. Splits(ns, e, <<Marked(i)>>, Cover(ns, e, Marked(i)))
    BY <1>1, SplitsOne
  <2>2. Cover(ns, e, Marked(i)) = {Own(i)}
    BY CoverIs
  <2> QED
    BY <2>1, <2>2
<1>4. Splits(ns, e, <<TextOf(i)>>, {TextOf(i)})
  <2>1. Splits(ns, e, <<TextOf(i)>>, Cover(ns, e, TextOf(i)))
    BY <1>1, SplitsOne
  <2>2. Cover(ns, e, TextOf(i)) = {TextOf(i)}
    BY CoverIs
  <2> QED
    BY <2>1, <2>2
<1>5. Splits(ns, e, <<Table(i)>>, {Table(i)})
  <2>1. Splits(ns, e, <<Table(i)>>, Cover(ns, e, Table(i)))
    BY <1>1, SplitsOne
  <2>2. Cover(ns, e, Table(i)) = {Table(i)}
    BY CoverIs
  <2> QED
    BY <2>1, <2>2
<1>6. ASSUME NEW k \in Nat PROVE Splits(ns, e, <<KeyOf(i, k)>>, {KeyOf(i, k)})
  <2>1. Splits(ns, e, <<KeyOf(i, k)>>, Cover(ns, e, KeyOf(i, k)))
    BY <1>1, SplitsOne
  <2>2. Cover(ns, e, KeyOf(i, k)) = {KeyOf(i, k)}
    BY DEF Cover, KeyOf
  <2> QED
    BY <2>1, <2>2
<1> QED
  BY <1>2, <1>3, <1>4, <1>5, <1>6

\* What json_free does for a value before the value itself: all blocks of it and the
\* values in it, each once.
LEMMA PartsSplit ==
  ASSUME TypeJson, NEW e, Shape(nodes, e), KeysClosed(nodes), NEW i \in DOMAIN nodes
  PROVE  Splits(nodes, e, Parts(i), Whole(nodes, e, i) \ {Own(i)})
<1> DEFINE kids == nodes[i].kids
           keys == nodes[i].keys
           object == nodes[i].type = "object"
           m == Len(kids)
           S == Entries(nodes)
           H(k) == (IF object THEN <<KeyOf(i, k)>> ELSE <<>>) \o <<Own(kids[k])>>
           A == [k \in 1 .. m |-> (IF object THEN {KeyOf(i, k)} ELSE {}) \cup Whole(nodes, e, kids[k])]
           seqs == [k \in DOMAIN kids |-> H(k)]
           T == IF nodes[i].type = "string" THEN <<TextOf(i)>> ELSE <<>>
           B == IF kids # <<>> THEN <<Table(i)>> ELSE <<>>
           TT == IF nodes[i].type = "string" THEN {TextOf(i)} ELSE {}
           BB == IF kids # <<>> THEN {Table(i)} ELSE {}
           KK == {KeyOf(i, k) : k \in DOMAIN keys}
           W == UNION {Whole(nodes, e, kids[k]) : k \in DOMAIN kids}
<1>1. /\ Len(nodes) \in Nat /\ DOMAIN nodes = 1 .. Len(nodes) /\ i \in Nat
      /\ kids \in Seq(Nat) /\ keys \in Seq(Text)
  <2>1. nodes \in Seq(Node)
    BY DEF TypeJson
  <2>2. Len(nodes) \in Nat /\ DOMAIN nodes = 1 .. Len(nodes)
    BY <2>1, LenProperties
  <2>3. nodes[i] \in Node
    BY <2>1, <2>2, ElementOfSeq
  <2> QED
    BY <2>2, <2>3 DEF Node
<1>2. m \in Nat /\ DOMAIN kids = 1 .. m
  BY <1>1, LenProperties
<1>3. /\ \A k \in DOMAIN kids : kids[k] \in DOMAIN nodes
      /\ Whole(nodes, e, i) = BlocksOf(nodes, i) \cup W
      /\ \A k \in DOMAIN kids : Whole(nodes, e, kids[k]) \cap BlocksOf(nodes, i) = {}
      /\ \A k, l \in DOMAIN kids : k # l => Whole(nodes, e, kids[k]) \cap Whole(nodes, e, kids[l]) = {}
  BY <1>1, WholeTiled
<1>4. object => DOMAIN keys = 1 .. m
  <2>1. Len(keys) \in Nat /\ DOMAIN keys = 1 .. Len(keys)
    BY <1>1, LenProperties
  <2> QED
    BY <2>1 DEF KeysClosed
<1>5. ~object => DOMAIN keys = {}
  <2>1. Len(keys) \in Nat /\ DOMAIN keys = 1 .. Len(keys)
    BY <1>1, LenProperties
  <2>2. ~object => Len(keys) = 0
    BY DEF KeysClosed
  <2> QED
    BY <2>1, <2>2
<1>6. BlocksOf(nodes, i) = {Own(i)} \cup TT \cup KK \cup BB
  BY DEF BlocksOf
<1>7. Parts(i) = (T \o FlattenSeq(seqs)) \o B
  BY DEF Parts
<1>8. \A k \in 1 .. m : kids[k] \in DOMAIN nodes /\ kids[k] \in Nat
  BY <1>1, <1>2, <1>3
<1>9. Splits(nodes, e, T, TT)
  BY <1>1, SplitsSingle, SplitsNone
<1>10. Splits(nodes, e, B, BB)
  BY <1>1, SplitsSingle, SplitsNone
<1>11. ASSUME NEW k \in 1 .. m PROVE Splits(nodes, e, H(k), A[k])
  <2>1. Splits(nodes, e, <<Own(kids[k])>>, Whole(nodes, e, kids[k]))
    BY <1>8, SplitsSingle
  <2>2. Splits(nodes, e, <<KeyOf(i, k)>>, {KeyOf(i, k)})
    <3>1. k \in Nat
      BY <1>2
    <3> QED
      BY <1>1, <3>1, SplitsSingle
  <2> DEFINE U == IF object THEN <<KeyOf(i, k)>> ELSE <<>>
             UU == IF object THEN {KeyOf(i, k)} ELSE {}
  <2>3. Splits(nodes, e, U, UU)
    BY <2>2, SplitsNone
  <2>4. UU \cap Whole(nodes, e, kids[k]) = {}
    <3>1. object => KeyOf(i, k) \in BlocksOf(nodes, i)
      BY <1>4, <1>6
    <3> QED
      BY <1>2, <1>3, <3>1
  <2>5. A[k] = UU \cup Whole(nodes, e, kids[k])
    OBVIOUS
  <2> HIDE DEF U, UU, A
  <2>6. Splits(nodes, e, U \o <<Own(kids[k])>>, UU \cup Whole(nodes, e, kids[k]))
    BY <2>1, <2>3, <2>4, SplitsBoth
  <2> QED
    BY <2>5, <2>6 DEF U
<1>12. \A k, l \in 1 .. m : k # l => A[k] \cap A[l] = {}
  <2> SUFFICES ASSUME NEW k \in 1 .. m, NEW l \in 1 .. m, k # l, NEW b \in A[k], b \in A[l]
      PROVE FALSE
    OBVIOUS
  <2>1. /\ (object /\ b = KeyOf(i, k)) \/ b \in Whole(nodes, e, kids[k])
        /\ (object /\ b = KeyOf(i, l)) \/ b \in Whole(nodes, e, kids[l])
    OBVIOUS
  <2>2. object => KeyOf(i, k) \in BlocksOf(nodes, i) /\ KeyOf(i, l) \in BlocksOf(nodes, i)
    BY <1>4, <1>6
  <2>3. KeyOf(i, k) # KeyOf(i, l)
    BY BlocksApart
  <2> QED
    BY <1>2, <1>3, <2>1, <2>2, <2>3
<1>13. /\ seqs \in Seq(Seq(S)) /\ Len(seqs) = m
       /\ \A k \in 1 .. m : seqs[k] = H(k)
  <2>1. \A k \in 1 .. m : H(k) \in Seq(S)
    BY <1>11 DEF Splits
  <2> HIDE DEF H
  <2> QED
    BY <1>2, <2>1
<1>14. \A b : b \in KK \cup W <=> \E k \in 1 .. m : b \in A[k]
  <2> TAKE b
  <2>1. \A k \in 1 .. m : b \in A[k] <=> (object /\ b = KeyOf(i, k)) \/ b \in Whole(nodes, e, kids[k])
    OBVIOUS
  <2>2. b \in KK <=> object /\ \E k \in 1 .. m : b = KeyOf(i, k)
    BY <1>4, <1>5
  <2>3. b \in W <=> \E k \in 1 .. m : b \in Whole(nodes, e, kids[k])
    BY <1>2
  <2> HIDE DEF A, KK, W
  <2> QED
    BY <2>1, <2>2, <2>3
<1>15. W \cap BlocksOf(nodes, i) = {}
  BY <1>3
<1> HIDE DEF kids, keys, m, S, H, A, seqs, T, B, W
<1>16. Splits(nodes, e, FlattenSeq(seqs), KK \cup W)
  <2>1. seqs \in Seq(Seq(Entries(nodes)))
    BY <1>13 DEF S
  <2>2. \A k \in 1 .. m : Splits(nodes, e, seqs[k], A[k])
    BY <1>11, <1>13
  <2>3. m \in Nat /\ Len(seqs) = m
    BY <1>2, <1>13
  <2> HIDE DEF TT, BB, KK, object
  <2>4. ASSUME NEW X, NEW Y, \A k \in 1 .. m : Splits(nodes, e, seqs[k], X[k]),
               \A k, l \in 1 .. m : k # l => X[k] \cap X[l] = {},
               \A b : b \in Y <=> \E k \in 1 .. m : b \in X[k]
        PROVE  Splits(nodes, e, FlattenSeq(seqs), Y)
    BY <2>1, <2>3, <2>4, SplitsFlat, ZenonT(40)
  <2> DEFINE Y == KK \cup W
  <2>5. \A b : b \in Y <=> \E k \in 1 .. m : b \in A[k]
    BY <1>14
  <2> HIDE DEF Y
  <2>6. Splits(nodes, e, FlattenSeq(seqs), Y)
    BY <1>12, <2>2, <2>4, <2>5
  <2> QED
    BY <2>6 DEF Y
<1>17. /\ TT \cap (KK \cup W) = {} /\ (TT \cup (KK \cup W)) \cap BB = {}
       /\ (TT \cup (KK \cup W)) \cup BB = Whole(nodes, e, i) \ {Own(i)}
  <2>1. TT \subseteq BlocksOf(nodes, i) /\ BB \subseteq BlocksOf(nodes, i) /\ Own(i) \in BlocksOf(nodes, i)
    BY <1>6
  <2>2. TT \cap KK = {} /\ TT \cap BB = {} /\ KK \cap BB = {}
    BY BlocksApart
  <2>3. Own(i) \notin TT /\ Own(i) \notin KK /\ Own(i) \notin BB
    BY BlocksApart
  <2> HIDE DEF TT, KK, BB
  <2> QED
    BY <1>3, <1>6, <1>15, <2>1, <2>2, <2>3
<1>18. Splits(nodes, e, T \o FlattenSeq(seqs), TT \cup (KK \cup W))
  <2> HIDE DEF TT, KK, BB
  <2> QED
    BY <1>9, <1>16, <1>17, SplitsBoth
<1>19. Splits(nodes, e, (T \o FlattenSeq(seqs)) \o B, (TT \cup (KK \cup W)) \cup BB)
  <2> HIDE DEF TT, KK, BB
  <2> QED
    BY <1>10, <1>17, <1>18, SplitsBoth
<1> QED
  BY <1>7, <1>17, <1>19

\* An entry is a value, a value marked, or a block for itself.
LEMMA EntryKinds ==
  ASSUME NEW ns, NEW b \in Entries(ns)
  PROVE  /\ b \in Blocks
         /\ \/ b = Own(b[2]) /\ b # Marked(b[2]) /\ b[2] \in DOMAIN ns
            \/ b = Marked(b[2]) /\ b # Own(b[2]) /\ b[2] \in DOMAIN ns
            \/ b # Own(b[2]) /\ b # Marked(b[2]) /\ \A e : Cover(ns, e, b) = {b}
<1>1. b \in Blocks /\ (b[1] = "node" => b[2] \in DOMAIN ns /\ b[3] \in {0, 1})
  BY DEF Entries
<1>2. b = <<b[1], b[2], b[3]>>
  BY <1>1 DEF Blocks
<1>3. CASE b[1] = "node" /\ b[3] = 0
  <2>1. b = Own(b[2])
    BY <1>2, <1>3 DEF Own
  <2>2. b # Marked(b[2])
    BY <1>3 DEF Marked
  <2> QED
    BY <1>1, <1>3, <2>1, <2>2
<1>4. CASE b[1] = "node" /\ b[3] = 1
  <2>1. b = Marked(b[2])
    BY <1>2, <1>4 DEF Marked
  <2>2. b # Own(b[2])
    BY <1>4 DEF Own
  <2> QED
    BY <1>1, <1>4, <2>1, <2>2
<1>5. CASE b[1] # "node"
  <2>1. b # Own(b[2]) /\ b # Marked(b[2])
    BY <1>5 DEF Own, Marked
  <2>2. \A e : Cover(ns, e, b) = {b}
    BY <1>5 DEF Cover
  <2> QED
    BY <1>1, <2>1, <2>2
<1> QED
  BY <1>1, <1>3, <1>4, <1>5

\* json_free finds each block allocated, and leaves what is still to be freed.
LEMMA FreeFree ==
  ASSUME TypeJson, FreeInv, Free
  PROVE  /\ doing = "free" /\ doing' = "free" /\ TypeJson' /\ FreeInv'
         /\ UNCHANGED <<text, pos, frames, cur, str, strCap, nodes>>
<1>1. /\ doing = "free" /\ todo # <<>>
      /\ UNCHANGED <<text, pos, frames, cur, str, strCap, nodes>>
  BY DEF Free
<1>2. PICK e : Shape(nodes, e) /\ Splits(nodes, e, todo, live)
  BY <1>1 DEF FreeInv
<1>3. KeysClosed(nodes)
  BY <1>1 DEF FreeInv
<1> DEFINE b == Head(todo)
           t == Tail(todo)
           block == IF b = Marked(b[2]) THEN Own(b[2]) ELSE b
           C == Cover(nodes, e, b)
<1>4. b \in Entries(nodes) /\ C \subseteq live /\ Splits(nodes, e, t, live \ C)
  BY <1>1, <1>2, SplitsRest
<1>5. DOMAIN nodes = 1 .. Len(nodes) /\ Len(nodes) \in Nat
  BY LenProperties DEF TypeJson
<1>6. \/ /\ block \notin live /\ doing' = "undefined"
      \/ /\ block \in live /\ b = Own(b[2])
         /\ todo' = Parts(b[2]) \o <<Marked(b[2])>> \o t /\ UNCHANGED <<doing, live>>
      \/ /\ block \in live /\ b # Own(b[2])
         /\ todo' = t /\ live' = live \ {block} /\ UNCHANGED doing
  BY DEF Free
<1>7. b \in Blocks
  BY <1>4, EntryKinds
<1> HIDE DEF b, t, C
<1>8. /\ doing' = "free" /\ live' \subseteq live
      /\ Splits(nodes, e, todo', live')
  <2>1. CASE b = Own(b[2]) /\ b # Marked(b[2]) /\ b[2] \in DOMAIN nodes
    <3> DEFINE i == b[2]
               W == Whole(nodes, e, i)
    <3>1. C = W
      <4>1. C = Cover(nodes, e, Own(i))
        BY <2>1 DEF C
      <4> QED
        BY <4>1, CoverIs
    <3>2. Own(i) \in W
      <4>1. i \in Nat /\ i \in i .. e[i] - 1
        BY <1>2, <1>5, <2>1 DEF Shape, Spans
      <4>2. Own(i) \in BlocksOf(nodes, i)
        BY DEF BlocksOf
      <4> QED
        BY <4>1, <4>2 DEF Whole
    <3>3. block \in live
      BY <1>4, <2>1, <3>1, <3>2
    <3>4. Splits(nodes, e, Parts(i), W \ {Own(i)})
      BY <1>2, <1>3, <2>1, PartsSplit
    <3>10. i \in DOMAIN nodes /\ i \in Nat
      BY <1>5, <2>1
    <3> HIDE DEF i, W
    <3>5. Splits(nodes, e, <<Marked(i)>>, {Own(i)})
      BY <3>10, SplitsSingle
    <3>6. Splits(nodes, e, Parts(i) \o <<Marked(i)>>, (W \ {Own(i)}) \cup {Own(i)})
      <4>1. (W \ {Own(i)}) \cap {Own(i)} = {}
        OBVIOUS
      <4> QED
        BY <3>4, <3>5, <4>1, SplitsBoth
    <3>7. (W \ {Own(i)}) \cup {Own(i)} = W /\ W \cap (live \ C) = {} /\ W \cup (live \ C) = live
      BY <1>4, <3>1, <3>2
    <3>8. Splits(nodes, e, (Parts(i) \o <<Marked(i)>>) \o t, W \cup (live \ C))
      BY <1>4, <3>6, <3>7, SplitsBoth
    <3>9. todo' = (Parts(i) \o <<Marked(i)>>) \o t /\ UNCHANGED <<doing, live>>
      BY <1>6, <2>1, <3>3 DEF i
    <3> QED
      BY <1>1, <3>7, <3>8, <3>9
  <2>2. CASE b = Marked(b[2]) /\ b # Own(b[2]) /\ b[2] \in DOMAIN nodes
    <3>1. C = {Own(b[2])}
      <4>1. C = Cover(nodes, e, Marked(b[2]))
        BY <2>2 DEF C
      <4> QED
        BY <4>1, CoverIs
    <3>2. block = Own(b[2]) /\ C = {block} /\ block \in live
      BY <1>4, <2>2, <3>1
    <3> HIDE DEF block
    <3> QED
      BY <1>1, <1>4, <1>6, <2>2, <3>2
  <2>3. CASE b # Own(b[2]) /\ b # Marked(b[2]) /\ Cover(nodes, e, b) = {b}
    <3>1. block = b /\ C = {block} /\ block \in live
      BY <1>4, <2>3 DEF C
    <3> HIDE DEF block
    <3> QED
      BY <1>1, <1>4, <1>6, <2>3, <3>1
  <2> QED
    BY <1>4, <2>1, <2>2, <2>3, EntryKinds
<1>9. todo' \in Seq(Blocks)
  <2>1. todo' \in Seq(Entries(nodes)) /\ Entries(nodes) \subseteq Blocks
    BY <1>8 DEF Splits, Entries
  <2> QED
    BY <2>1, SeqMonotonic
<1>10. TypeJson'
  BY <1>1, <1>8, <1>9 DEF TypeJson
<1>11. FreeInv'
  BY <1>1, <1>2, <1>3, <1>8 DEF FreeInv
<1> QED
  BY <1>1, <1>8, <1>10, <1>11

--------------------------------------------------------------------------------
(* Before the first step of json_parse, and from its last to json_free *)

\* json_parse begins with nothing allocated.
LEMMA ParseFirst ==
  ASSUME TypeJson, nodes = <<>>, frames = <<>>, cur = 0, live = {}, NEW t \in Text, ParseStart(t)
  PROVE  JsonInv' /\ ParseInv' /\ doing' = "value"
<1>1. /\ text' = t /\ pos' = 0 /\ doing' = "value"
      /\ UNCHANGED <<frames, cur, str, strCap, nodes, live, todo>>
  BY DEF ParseStart
<1>2. nodes' = <<>> /\ frames' = <<>> /\ cur' = 0 /\ live' = {} /\ DOMAIN <<>> = {}
  BY <1>1
<1>3. TypeJson'
  <2>1. frames' \in Seq([node : DOMAIN nodes', cap : Nat]) /\ cur' \in 0 .. Len(nodes') /\ nodes' \in Seq(Node)
    BY <1>1 DEF TypeJson
  <2> QED
    BY <1>1, <2>1 DEF TypeJson
<1>4. CursorInv'
  BY <1>1, TextLen DEF CursorInv
<1>5. ~Keyless' /\ ~Pending' /\ OpenNodes' = {}
  BY <1>1, <1>2 DEF Keyless, Pending, OpenNodes
<1>6. FramesInv'
  BY <1>2, <1>5 DEF FramesInv
<1>7. NestInv'
  <2>1. \E e : Shape(<<>>, e)
    <3>1. Shape(<<>>, [x \in {} |-> 0])
      BY <1>2 DEF Shape
    <3> QED
      BY <3>1
  <2>2. \A e : Nested(e)'
    <3> TAKE e
    <3>1. \A j \in 1 .. Len(frames') - 1 : FALSE
      BY <1>2
    <3> QED
      BY <1>1, <1>2, <1>5, <3>1 DEF Nested
  <2> QED
    BY <1>1, <1>2, <1>5, <2>1, <2>2 DEF NestInv
<1>8. KeysInv'
  BY <1>1, <1>2 DEF KeysInv
<1>9. HeapInv'
  <2>1. AllBlocks(nodes') = {} /\ Tables' = {} /\ KeyInHand' = {}
    BY <1>1, <1>2, <1>5 DEF AllBlocks, Tables, KeyInHand
  <2> QED
    BY <1>2, <2>1 DEF HeapInv
<1> QED
  BY <1>1, <1>3, <1>4, <1>6, <1>7, <1>8, <1>9 DEF JsonInv, ParseInv

\* The tree that json_parse returned is all that is allocated.
LEMMA FreeFirst ==
  ASSUME TypeJson, ParseInv, doing = "done", FreeStart(1)
  PROVE  TypeJson' /\ FreeInv' /\ doing' = "free" /\ UNCHANGED <<text, pos, frames, cur, str, strCap, nodes, live>>
<1>1. /\ todo' = <<Own(1)>> /\ doing' = "free"
      /\ UNCHANGED <<text, pos, frames, cur, str, strCap, nodes, live>>
  BY DEF FreeStart
<1>2. NestInv /\ KeysInv /\ HeapInv
  BY DEF ParseInv, Parsing
<1>3. /\ DOMAIN nodes = 1 .. Len(nodes) /\ Len(nodes) \in Nat
      /\ \A i \in DOMAIN nodes : Len(nodes[i].keys) \in Nat
  <2>1. nodes \in Seq(Node)
    BY DEF TypeJson
  <2>2. DOMAIN nodes = 1 .. Len(nodes) /\ Len(nodes) \in Nat
    BY <2>1, LenProperties
  <2>3. ASSUME NEW i \in DOMAIN nodes PROVE nodes[i].keys \in Seq(Text)
    <3>1. nodes[i] \in Node
      BY <2>1, <2>2, ElementOfSeq
    <3> QED
      BY <3>1 DEF Node
  <2> QED
    BY <2>2, <2>3, LenProperties
<1>4. frames = <<>> /\ cur \in DOMAIN nodes
  BY <1>2 DEF NestInv
<1>5. OpenNodes = {} /\ DOMAIN frames = {}
  BY <1>4 DEF OpenNodes
<1>6. nodes # <<>>
  BY <1>4
<1>7. PICK e : Shape(nodes, e) /\ Nested(e)
  BY <1>2 DEF NestInv
<1>8. cur = 1 /\ e[1] = Len(nodes) + 1 /\ 1 \in DOMAIN nodes
  BY <1>4, <1>6, <1>7 DEF Nested
<1>9. live = AllBlocks(nodes)
  <2>1. Tables = {} /\ KeyInHand = {}
    BY <1>5 DEF Tables, KeyInHand
  <2> QED
    BY <1>2, <2>1 DEF HeapInv
<1>10. live = Whole(nodes, e, 1)
  <2>1. 1 .. e[1] - 1 = DOMAIN nodes
    BY <1>3, <1>8
  <2> QED
    BY <1>9, <2>1 DEF Whole, AllBlocks
<1>11. Splits(nodes, e, <<Own(1)>>, live)
  BY <1>8, <1>10, SplitsSingle
<1>12. KeysClosed(nodes)
  <2> SUFFICES ASSUME NEW i \in DOMAIN nodes
      PROVE  Len(nodes[i].keys) = IF nodes[i].type = "object" THEN Len(nodes[i].kids) ELSE 0
    BY DEF KeysClosed
  <2>1. /\ nodes[i].type # "object" => nodes[i].keys = <<>>
        /\ nodes[i].type = "object" => Len(nodes[i].keys) = Len(nodes[i].kids)
    BY <1>2, <1>5 DEF KeysInv
  <2>2. Len(<<>>) = 0
    OBVIOUS
  <2> QED
    BY <2>1, <2>2
<1>13. TypeJson'
  <2>1. Own(1) \in Blocks
    BY DEF Own, Blocks
  <2>2. todo' \in Seq(Blocks)
    BY <1>1, <2>1
  <2> QED
    BY <1>1, <2>2 DEF TypeJson
<1>14. FreeInv'
  BY <1>1, <1>7, <1>11, <1>12 DEF FreeInv
<1> QED
  BY <1>1, <1>13, <1>14

--------------------------------------------------------------------------------
(* main *)

\* Steps of main that leave the reader alone.
LEMMA ReaderIdle ==
  ASSUME ReaderInv, UNCHANGED jsonVars
  PROVE  ReaderInv'
<1>1. UNCHANGED <<text, pos, doing, frames, cur, str, strCap, nodes, live, todo>>
  BY DEF jsonVars
<1>2. TypeJson' /\ CursorInv'
  BY <1>1 DEF ReaderInv, JsonInv, TypeJson, CursorInv
<1>3. /\ OpenNodes' = OpenNodes /\ Keyless' = Keyless /\ Pending' = Pending
      /\ Innermost' = Innermost /\ Tables' = Tables /\ KeyInHand' = KeyInHand
  BY <1>1 DEF OpenNodes, Keyless, Pending, Innermost, Tables, KeyInHand
<1>4. FramesInv'
  BY <1>1, <1>3 DEF ReaderInv, JsonInv, FramesInv
<1>5. NestInv => NestInv'
  <2>1. \A e : Nested(e) => Nested(e)'
    BY <1>1, <1>3 DEF Nested
  <2> QED
    BY <1>1, <1>3, <2>1 DEF NestInv
<1>6. (KeysInv => KeysInv') /\ (HeapInv => HeapInv')
  BY <1>1, <1>3 DEF KeysInv, HeapInv
<1>7. ParseInv'
  BY <1>1, <1>5, <1>6 DEF ReaderInv, ParseInv
<1>8. FreeInv'
  BY <1>1 DEF ReaderInv, FreeInv
<1> QED
  BY <1>2, <1>4, <1>7, <1>8 DEF ReaderInv, JsonInv

\* While json_free runs, frames is as json_parse left it.
LEMMA FramesIdle ==
  ASSUME JsonInv, UNCHANGED <<text, pos, frames, cur, str, strCap, nodes>>, doing' = "free"
  PROVE  CursorInv' /\ FramesInv'
<1>1. ~Keyless'
  BY DEF Keyless
<1>2. CursorInv'
  BY DEF JsonInv, CursorInv
<1> QED
  BY <1>1, <1>2 DEF JsonInv, FramesInv

\* The statements of main that leave the reader alone and take or give back things.
LEMMA RequestNext ==
  ASSUME IInv, BuildParams \/ ReadEmail \/ BuildData \/ Sign \/ Encode \/ CurlInit \/ Cleanup
  PROVE  IInv'
<1>1. ReaderInv /\ MainTypes /\ StageInv /\ HeldInv
  BY DEF IInv
<1>2. UNCHANGED jsonVars
  BY DEF BuildParams, ReadEmail, BuildData, Sign, Encode, CurlInit, Cleanup, Holds, Returns
<1>3. UNCHANGED <<text, doing, frames, cur, nodes, live>>
  BY <1>2 DEF jsonVars
<1>4. ReaderInv'
  BY <1>1, <1>2, ReaderIdle
<1> USE DEF Holds, Returns, MainTypes, StageInv, HeldInv, Things
<1>5. CASE BuildParams
  BY <1>1, <1>3, <1>4, <1>5 DEF IInv, BuildParams
<1>6. CASE ReadEmail
  BY <1>1, <1>3, <1>4, <1>6 DEF IInv, ReadEmail
<1>7. CASE BuildData
  BY <1>1, <1>3, <1>4, <1>7 DEF IInv, BuildData
<1>8. CASE Sign
  BY <1>1, <1>3, <1>4, <1>8 DEF IInv, Sign
<1>9. CASE Encode
  BY <1>1, <1>3, <1>4, <1>9 DEF IInv, Encode
<1>10. CASE CurlInit
  BY <1>1, <1>3, <1>4, <1>10 DEF IInv, CurlInit
<1>11. CASE Cleanup
  BY <1>1, <1>3, <1>4, <1>11 DEF IInv, Cleanup
<1> QED
  BY <1>5, <1>6, <1>7, <1>8, <1>9, <1>10, <1>11

\* The answer comes, or fails to.
LEMMA AnswerNext ==
  ASSUME IInv, WriteCallback \/ Performed
  PROVE  IInv'
<1>1. ReaderInv /\ MainTypes /\ StageInv /\ HeldInv
  BY DEF IInv
<1>2. UNCHANGED jsonVars
  BY DEF WriteCallback, Performed
<1>3. UNCHANGED <<text, doing, frames, cur, nodes, live>>
  BY <1>2 DEF jsonVars
<1>4. ReaderInv'
  BY <1>1, <1>2, ReaderIdle
<1>5. CASE WriteCallback
  <2>1. resp' \in Text
    <3>1. PICK n \in {k \in Pieces : k <= Coming} \cup {Coming} :
            resp' = resp \o SubSeq(answer.body, Len(resp) + 1, Len(resp) + n)
      BY <1>5 DEF WriteCallback
    <3>2. answer.body \in Text /\ resp \in Text
      BY <1>1, AnswerAssumption DEF MainTypes
    <3> DEFINE l == Len(answer.body)
               r == Len(resp)
    <3>3. l \in Nat /\ r \in Nat
      BY <3>2, TextLen
    <3>4. Coming = l - r /\ Coming > 0
      BY <1>5 DEF WriteCallback, Coming
    <3> HIDE DEF l, r
    <3>5. n \in Nat /\ n <= l - r
      BY <3>1, <3>3, <3>4, PieceAssumption
    <3>6. r + 1 \in Nat \ {0} /\ r + n \in Nat /\ r + n <= l
      BY <3>3, <3>5
    <3>7. SubSeq(answer.body, r + 1, r + n) \in Text
      BY <3>2, <3>6, SubText DEF l
    <3> QED
      BY <3>1, <3>2, <3>7, ConcatProperties DEF Text, r
  <2>2. pc = "perform" /\ pc' = pc /\ held' = held \cup {"resp"} /\ UNCHANGED <<answer, res, said, status>>
    BY <1>5 DEF WriteCallback
  <2>3. MainTypes'
    BY <1>1, <2>1, <2>2 DEF MainTypes, Things
  <2>4. StageInv' /\ HeldInv'
    BY <1>1, <1>3, <2>2 DEF StageInv, HeldInv
  <2> QED
    BY <1>4, <2>3, <2>4 DEF IInv
<1>6. CASE Performed
  <2>1. pc = "perform" /\ pc' = "result" /\ res' \in {"CURLE_OK", "failed"} /\ UNCHANGED <<answer, resp, said, held, status>>
    BY <1>6 DEF Performed
  <2>3. MainTypes'
    BY <1>1, <2>1 DEF MainTypes
  <2>4. StageInv' /\ HeldInv'
    BY <1>1, <1>3, <2>1 DEF StageInv, HeldInv
  <2> QED
    BY <1>4, <2>3, <2>4 DEF IInv
<1> QED
  BY <1>5, <1>6

\* curl_easy_perform is back.
LEMMA ResultNext ==
  ASSUME IInv, Result
  PROVE  IInv'
<1>1. ReaderInv /\ MainTypes /\ StageInv /\ HeldInv
  BY DEF IInv
<1>2. pc = "result" /\ UNCHANGED <<answer, resp, res, held, status>>
  BY DEF Result
<1> DEFINE line == Unparsed(res, resp)
<1>3. CASE line # ""
  <2>1. said' = Append(said, line) /\ pc' = "cleanup" /\ UNCHANGED jsonVars
    BY <1>3 DEF Result
  <2>2. line \in Lines
    BY <1>3 DEF Unparsed, Lines
  <2>3. ReaderInv'
    BY <1>1, <2>1, ReaderIdle
  <2>4. said' \in Seq(Lines)
    BY <1>1, <2>1, <2>2, AppendProperties DEF MainTypes
  <2>5. MainTypes'
    BY <1>1, <1>2, <2>1, <2>4 DEF MainTypes
  <2>6. StageInv' /\ HeldInv'
    BY <1>1, <1>2, <2>1 DEF StageInv, HeldInv, jsonVars
  <2> QED
    BY <2>3, <2>5, <2>6 DEF IInv
<1>4. CASE line = ""
  <2>1. ParseStart(resp) /\ pc' = "parse" /\ UNCHANGED said
    BY <1>4 DEF Result
  <2>2. nodes = <<>> /\ frames = <<>> /\ cur = 0 /\ live = {} /\ resp \in Text /\ TypeJson
    BY <1>1, <1>2 DEF StageInv, MainTypes, ReaderInv, JsonInv
  <2>3. JsonInv' /\ ParseInv' /\ doing' = "value"
    BY <2>1, <2>2, ParseFirst
  <2>4. ReaderInv'
    BY <2>3 DEF ReaderInv, FreeInv
  <2>5. MainTypes'
    BY <1>1, <1>2, <2>1 DEF MainTypes
  <2>6. StageInv' /\ HeldInv'
    BY <1>1, <1>2, <2>1, <2>3 DEF StageInv, HeldInv, Parsing
  <2> QED
    BY <2>4, <2>5, <2>6 DEF IInv
<1> QED
  BY <1>3, <1>4

\* json_parse takes a step; where it reads past its text, this breaks off in an escape.
LEMMA ParseNext ==
  ASSUME IInv, ParseStep
  PROVE  IInv'
<1>1. ReaderInv /\ MainTypes /\ StageInv /\ HeldInv
  BY DEF IInv
<1>2. /\ pc = "parse" /\ Parse
      /\ pc' = CASE doing' = "exit" -> "exited" [] doing' = "undefined" -> "undefined" [] OTHER -> "parse"
      /\ status' = (IF doing' = "exit" THEN 1 ELSE status)
      /\ UNCHANGED <<answer, resp, res, said, held>>
  BY DEF ParseStep
<1>3. /\ JsonInv' /\ UNCHANGED <<text, todo>>
      /\ doing' \in Parsing \cup {"exit", "undefined"}
      /\ doing' = "undefined" => CutInside(text)
  BY <1>1, <1>2, ParseJson DEF ReaderInv
<1>4. ParseInv'
  BY <1>1, <1>2, ParseParse DEF ReaderInv
<1>5. ReaderInv'
  BY <1>3, <1>4 DEF ReaderInv, FreeInv, Parsing
<1>6. MainTypes'
  BY <1>1, <1>2 DEF MainTypes
<1>7. StageInv' /\ HeldInv'
  <2>1. CASE doing' = "exit"
    BY <1>1, <1>2, <2>1 DEF StageInv, HeldInv
  <2>2. CASE doing' = "undefined"
    <3>1. CutInside(text')
      BY <1>3, <2>2
    <3> QED
      BY <1>1, <1>2, <2>2, <3>1 DEF StageInv, HeldInv
  <2>3. CASE doing' \in Parsing
    <3>1. pc' = "parse"
      BY <1>2, <2>3 DEF Parsing
    <3> QED
      BY <1>1, <1>2, <2>3, <3>1 DEF StageInv, HeldInv
  <2> QED
    BY <1>3, <2>1, <2>2, <2>3
<1> QED
  BY <1>5, <1>6, <1>7 DEF IInv

\* main tells what the answer says, and calls json_free.
LEMMA VerdictNext ==
  ASSUME IInv, Verdict
  PROVE  IInv'
<1>1. ReaderInv /\ MainTypes /\ StageInv /\ HeldInv
  BY DEF IInv
<1>2. /\ pc = "parse" /\ doing = "done" /\ FreeStart(1) /\ pc' = "free"
      /\ UNCHANGED <<answer, resp, res, held, status>>
      /\ said' = Append(said, "success") \/ said' = Append(said, "application error")
  BY DEF Verdict
<1>3. TypeJson' /\ FreeInv' /\ doing' = "free" /\ UNCHANGED <<text, pos, frames, cur, str, strCap, nodes, live>>
  BY <1>1, <1>2, FreeFirst DEF ReaderInv, JsonInv
<1>4. CursorInv' /\ FramesInv'
  BY <1>1, <1>3, FramesIdle DEF ReaderInv
<1>5. ReaderInv'
  BY <1>3, <1>4 DEF ReaderInv, JsonInv, ParseInv, Parsing
<1>6. said' \in Seq(Lines)
  BY <1>1, <1>2, AppendProperties, ZenonT(40) DEF MainTypes, Lines
<1>7. MainTypes'
  BY <1>1, <1>2, <1>6 DEF MainTypes
<1>8. StageInv' /\ HeldInv'
  BY <1>1, <1>2, <1>3 DEF StageInv, HeldInv
<1> QED
  BY <1>5, <1>7, <1>8 DEF IInv

\* json_free takes a step, or is through: then nothing is allocated.
LEMMA FreeNext ==
  ASSUME IInv, FreeStep \/ FreeEnd
  PROVE  IInv'
<1>1. ReaderInv /\ MainTypes /\ StageInv /\ HeldInv
  BY DEF IInv
<1>2. CASE FreeStep
  <2>1. /\ pc = "free" /\ Free /\ pc' = (IF doing' = "undefined" THEN "undefined" ELSE "free")
        /\ UNCHANGED <<answer, resp, res, said, held, status>>
    BY <1>2 DEF FreeStep
  <2>2. TypeJson' /\ FreeInv' /\ doing' = "free" /\ UNCHANGED <<text, pos, frames, cur, str, strCap, nodes>>
    BY <1>1, <2>1, FreeFree DEF ReaderInv, JsonInv
  <2>3. CursorInv' /\ FramesInv'
    BY <1>1, <2>2, FramesIdle DEF ReaderInv
  <2>4. ReaderInv'
    BY <2>2, <2>3 DEF ReaderInv, JsonInv, ParseInv, Parsing
  <2>5. MainTypes'
    BY <1>1, <2>1 DEF MainTypes
  <2>6. StageInv' /\ HeldInv'
    BY <1>1, <2>1, <2>2 DEF StageInv, HeldInv
  <2> QED
    BY <2>4, <2>5, <2>6 DEF IInv
<1>3. CASE FreeEnd
  <2>1. /\ pc = "free" /\ doing = "free" /\ todo = <<>> /\ pc' = "cleanup"
        /\ UNCHANGED <<jsonVars, answer, resp, res, said, held, status>>
    BY <1>3 DEF FreeEnd
  <2>2. live = {}
    <3>1. PICK e : Splits(nodes, e, todo, live)
      BY <1>1, <2>1 DEF ReaderInv, FreeInv
    <3>2. DOMAIN todo = {}
      BY <2>1
    <3> QED
      BY <3>1, <3>2 DEF Splits
  <2>3. ReaderInv'
    BY <1>1, <2>1, ReaderIdle
  <2>4. MainTypes'
    BY <1>1, <2>1 DEF MainTypes
  <2>5. StageInv' /\ HeldInv'
    BY <1>1, <2>1, <2>2 DEF StageInv, HeldInv, jsonVars
  <2> QED
    BY <2>3, <2>4, <2>5 DEF IInv
<1> QED
  BY <1>2, <1>3

\* The invariant holds at the start.
LEMMA InitIInv == Init => IInv
<1> SUFFICES ASSUME Init PROVE IInv
  OBVIOUS
<1>1. /\ text = <<>> /\ pos = 0 /\ doing = "nothing" /\ frames = <<>> /\ cur = 0
      /\ str = <<>> /\ strCap = 0 /\ nodes = <<>> /\ live = {} /\ todo = <<>>
      /\ answer \in Answers /\ pc = "params" /\ resp = <<>> /\ res = "none" /\ said = <<>> /\ held = {} /\ status = -1
  BY DEF Init, InitJson
<1>2. TypeJson /\ CursorInv
  BY <1>1 DEF TypeJson, CursorInv, Text
<1>3. FramesInv
  BY <1>1 DEF FramesInv, Keyless
<1>4. ParseInv /\ FreeInv
  BY <1>1 DEF ParseInv, FreeInv, Parsing
<1>5. MainTypes /\ StageInv /\ HeldInv
  BY <1>1 DEF MainTypes, StageInv, HeldInv, Text
<1> QED
  BY <1>2, <1>3, <1>4, <1>5 DEF IInv, ReaderInv, JsonInv

\* Every step keeps the invariant.
LEMMA NextIInv == IInv /\ [Next]_vars => IInv'
<1> SUFFICES ASSUME IInv, [Next]_vars PROVE IInv'
  OBVIOUS
<1>1. CASE UNCHANGED vars
  <2>1. UNCHANGED <<jsonVars, pc, answer, resp, res, said, held, status>>
    BY <1>1 DEF vars, clientVars
  <2>2. ReaderInv'
    BY <2>1, ReaderIdle DEF IInv
  <2>3. MainTypes' /\ StageInv' /\ HeldInv'
    BY <2>1 DEF IInv, MainTypes, StageInv, HeldInv, jsonVars
  <2> QED
    BY <2>2, <2>3 DEF IInv
<1>2. CASE Next
  BY <1>2, RequestNext, AnswerNext, ResultNext, ParseNext, VerdictNext, FreeNext DEF Next, Own_steps, Waiting
<1> QED
  BY <1>1, <1>2

\* The invariant says of memory what is to be shown.
LEMMA IInvMemory == IInv => MemorySound
<1> SUFFICES ASSUME IInv PROVE MemorySound
  OBVIOUS
<1>1. TypeOK /\ StageInv /\ HeldInv /\ CursorInv /\ FramesInv
  BY DEF IInv, ReaderInv, JsonInv, MainTypes, TypeOK
<1>2. \A f \in Range(frames) : Len(nodes[f.node].kids) <= f.cap
  BY <1>1 DEF FramesInv, Range
<1>3. pc = "returned" =>
       /\ live = {}
       /\ IF "data" \in held \/ "params" \in held
          THEN held \subseteq {"params", "data"} /\ resp = <<>> /\ status = 1
          ELSE held = {}
  BY <1>1 DEF StageInv, HeldInv
<1> QED
  BY <1>1, <1>2, <1>3 DEF MemorySound, CursorInv, StageInv

\* The values made so far are a tree, nested as the calls under way; what is allocated
\* is what the tree, the tables being filled and a key being read take, or what
\* json_free has yet to do; and each statement of main holds what it has taken.
THEOREM Inductive == Spec => []IInv
BY InitIInv, NextIInv, PTL DEF Spec

\* No string or table of the example's JSON reader outgrows its block, no block is
\* freed twice or left behind, and no character is read past the answer unless it breaks
\* off inside \u: for every answer, however it is delivered, and for all first
\* capacities of strings, tables and numbers.
THEOREM Memory == Spec => []MemorySound
BY Inductive, IInvMemory, PTL

--------------------------------------------------------------------------------
(* A text that spells a value is read part by part *)

\* A character is the same whether the reader looks or the grammar.
LEMMA CharIs == \A p : Char(text, p) = At(p)
BY DEF Char, At

\* Only one position is the first one at which the characters are no longer in S.
LEMMA OneFirst ==
  ASSUME NEW p \in Nat, NEW n \in Nat, NEW S, NEW q \in p .. n, NEW r \in p .. n,
         At(q) \notin S, \A k \in p .. q - 1 : At(k) \in S,
         At(r) \notin S, \A k \in p .. r - 1 : At(k) \in S
  PROVE  q = r
<1>1. q \in Nat /\ r \in Nat /\ p <= q /\ p <= r
  OBVIOUS
<1>2. ASSUME q < r PROVE FALSE
  <2>1. q \in p .. r - 1
    BY <1>1, <1>2
  <2> QED
    BY <2>1
<1>3. ASSUME r < q PROVE FALSE
  <2>1. r \in p .. q - 1
    BY <1>1, <1>3
  <2> QED
    BY <2>1
<1> QED
  BY <1>1, <1>2, <1>3

\* skip_ws ends where the grammar has the end of the spaces.
LEMMA GapSkip ==
  ASSUME text \in Text, NEW p \in Nat, NEW q, Gap(text, p, q)
  PROVE  Skip(p) = q /\ q \in Nat /\ p <= q /\ q <= Len(text) /\ Gap(text, q, q)
<1>1. Len(text) \in Nat
  BY TextLen
<1>2. q \in p .. Len(text) /\ At(q) \notin Space /\ \A k \in p .. q - 1 : At(k) \in Space
  BY CharIs DEF Gap
<1>3. /\ Skip(p) \in p .. Len(text)
      /\ At(Skip(p)) \notin Space /\ \A k \in p .. Skip(p) - 1 : At(k) \in Space
  BY <1>2 DEF Skip
<1>4. Skip(p) = q
  BY <1>1, <1>2, <1>3, OneFirst
<1>5. q \in Nat /\ p <= q /\ q <= Len(text)
  BY <1>1, <1>2
<1>6. Gap(text, q, q)
  <2>1. q \in q .. Len(text) /\ \A k \in q .. q - 1 : FALSE
    BY <1>1, <1>5
  <2> QED
    BY <1>2, <2>1, CharIs DEF Gap
<1> QED
  BY <1>4, <1>5, <1>6

\* parse_number ends where the grammar has the end of the number.
LEMMA NumberStops ==
  ASSUME text \in Text, NEW p \in Nat, NEW q \in p .. Len(text),
         Char(text, q) \notin NumberChars, \A k \in p .. q - 1 : Char(text, k) \in NumberChars
  PROVE  NumberEnd(p) = q
<1>1. Len(text) \in Nat
  BY TextLen
<1>2. At(q) \notin NumberChars /\ \A k \in p .. q - 1 : At(k) \in NumberChars
  BY CharIs
<1>3. /\ NumberEnd(p) \in p .. Len(text)
      /\ At(NumberEnd(p)) \notin NumberChars /\ \A k \in p .. NumberEnd(p) - 1 : At(k) \in NumberChars
  BY <1>2 DEF NumberEnd
<1> QED
  BY <1>1, <1>2, <1>3, OneFirst

\* What is one of the values of a derivation.
LEMMA DerivedIs ==
  ASSUME NEW t, NEW d, Derives(t, d)
  PROVE  /\ Len(d.nodes) \in Nat /\ DOMAIN d.nodes = 1 .. Len(d.nodes) /\ 1 \in DOMAIN d.nodes
         /\ \A i \in DOMAIN d.nodes :
              /\ d.nodes[i] \in Node /\ d.from[i] \in Nat /\ d.to[i] \in Nat /\ d.next[i] \in Nat
              /\ IsLiteral(t, d, i) \/ IsNumber(t, d, i) \/ IsString(t, d, i) \/ IsTable(t, d, i)
              /\ Numbered(d, i)
              /\ Len(d.nodes[i].kids) \in Nat /\ DOMAIN d.nodes[i].kids = 1 .. Len(d.nodes[i].kids)
              /\ Len(d.nodes[i].keys) \in Nat /\ DOMAIN d.nodes[i].keys = 1 .. Len(d.nodes[i].keys)
         /\ Gap(t, 0, d.from[1]) /\ d.next[1] = Len(d.nodes) + 1
<1>1. /\ d.nodes \in Seq(Node) /\ d.nodes # <<>>
      /\ d.from \in [DOMAIN d.nodes -> Nat] /\ d.to \in [DOMAIN d.nodes -> Nat]
      /\ d.next \in [DOMAIN d.nodes -> Nat]
      /\ \A i \in DOMAIN d.nodes :
           /\ IsLiteral(t, d, i) \/ IsNumber(t, d, i) \/ IsString(t, d, i) \/ IsTable(t, d, i)
           /\ Numbered(d, i)
      /\ Gap(t, 0, d.from[1]) /\ d.next[1] = Len(d.nodes) + 1
  BY DEF Derives
<1>2. Len(d.nodes) \in Nat /\ DOMAIN d.nodes = 1 .. Len(d.nodes)
  BY <1>1, LenProperties
<1>3. Len(d.nodes) # 0
  BY <1>1, EmptySeq
<1>4. 1 \in 1 .. Len(d.nodes)
  BY <1>2, <1>3
<1>5. ASSUME NEW i \in DOMAIN d.nodes
      PROVE  /\ d.nodes[i] \in Node
             /\ Len(d.nodes[i].kids) \in Nat /\ DOMAIN d.nodes[i].kids = 1 .. Len(d.nodes[i].kids)
             /\ Len(d.nodes[i].keys) \in Nat /\ DOMAIN d.nodes[i].keys = 1 .. Len(d.nodes[i].keys)
  <2>1. d.nodes[i] \in Node
    BY <1>1, <1>2, ElementOfSeq
  <2>2. d.nodes[i].kids \in Seq(Nat) /\ d.nodes[i].keys \in Seq(Text)
    BY <2>1 DEF Node
  <2> QED
    BY <2>1, <2>2, LenProperties
<1> QED
  BY <1>1, <1>2, <1>4, <1>5

\* The reader stands in a text that d derives, and has made of it what d says.
Reading(d) == JsonInv /\ NestInv /\ KeysInv /\ Derives(text, d) /\ Follows(d)

\* What is open has room for more, and its next value is one of the derivation.
LEMMA InnermostIs ==
  ASSUME NEW d, Reading(d), frames # <<>>
  PROVE  LET i == Innermost
             k == Len(nodes[i].kids) + 1
         IN  /\ i \in 1 .. Len(nodes) /\ i \in OpenNodes /\ i \in DOMAIN d.nodes
             /\ nodes[i] \in Node /\ nodes[i].type \in {"object", "array"}
             /\ nodes[i].type = d.nodes[i].type /\ nodes[i].text = <<>>
             /\ Len(nodes[i].kids) \in Nat /\ k \in 1 .. Len(d.nodes[i].kids)
             /\ k \in DOMAIN d.nodes[i].kids
             /\ \A m \in DOMAIN nodes[i].kids : nodes[i].kids[m] = d.nodes[i].kids[m]
             /\ \A m \in DOMAIN nodes[i].keys : nodes[i].keys[m] = d.nodes[i].keys[m]
             /\ IsTable(text, d, i) /\ IsMember(text, d, i, k)
             /\ NextKid(d, i) = d.nodes[i].kids[k] /\ NextKid(d, i) \in DOMAIN d.nodes
             /\ NextKid(d, i) = (IF Pending THEN cur ELSE Len(nodes) + 1)
<1> DEFINE i == Innermost
           k == Len(nodes[i].kids) + 1
<1>1. i \in 1 .. Len(nodes) /\ nodes[i] \in Node /\ Len(nodes[i].kids) \in Nat
      /\ nodes[i].type \in {"object", "array"}
  BY TopIs DEF Reading
<1>2. i \in OpenNodes /\ DOMAIN nodes = 1 .. Len(nodes) /\ Len(nodes) \in Nat
  BY OpenAre DEF Reading
<1>3. Len(d.nodes) \in Nat /\ DOMAIN d.nodes = 1 .. Len(d.nodes) /\ Len(nodes) <= Len(d.nodes)
  BY DerivedIs DEF Reading, Follows
<1>4. i \in DOMAIN d.nodes
  BY <1>1, <1>2, <1>3
<1>5. /\ nodes[i].type = d.nodes[i].type /\ nodes[i].text = <<>>
      /\ Len(nodes[i].kids) < Len(d.nodes[i].kids)
      /\ \A m \in DOMAIN nodes[i].kids : nodes[i].kids[m] = d.nodes[i].kids[m]
      /\ \A m \in DOMAIN nodes[i].keys : nodes[i].keys[m] = d.nodes[i].keys[m]
  BY <1>1, <1>2 DEF Reading, Follows, Grown
<1>6. /\ Len(d.nodes[i].kids) \in Nat /\ DOMAIN d.nodes[i].kids = 1 .. Len(d.nodes[i].kids)
      /\ IsLiteral(text, d, i) \/ IsNumber(text, d, i) \/ IsString(text, d, i) \/ IsTable(text, d, i)
      /\ Numbered(d, i)
  BY <1>4, DerivedIs DEF Reading
<1>7. k \in 1 .. Len(d.nodes[i].kids) /\ k \in DOMAIN d.nodes[i].kids
  BY <1>1, <1>5, <1>6
<1>8. IsTable(text, d, i)
  <2>1. ~IsLiteral(text, d, i)
    <3>1. \A type \in DOMAIN Literals : Made(type).type \notin {"object", "array"}
      BY MadeIs DEF Literals
    <3> QED
      BY <1>1, <1>5, <3>1 DEF IsLiteral
  <2>2. ~IsNumber(text, d, i)
    BY <1>1, <1>5 DEF IsNumber, Made
  <2>3. ~IsString(text, d, i)
    BY <1>1, <1>5 DEF IsString, Made
  <2> QED
    BY <1>6, <2>1, <2>2, <2>3
<1>9. IsMember(text, d, i, k)
  BY <1>7, <1>8 DEF IsTable
<1>10. NextKid(d, i) = d.nodes[i].kids[k] /\ NextKid(d, i) \in DOMAIN d.nodes
  BY <1>6, <1>7 DEF NextKid, Numbered
<1>11. NextKid(d, i) = (IF Pending THEN cur ELSE Len(nodes) + 1)
  BY DEF Reading, Follows, Chained
<1> QED
  BY <1>1, <1>2, <1>4, <1>5, <1>7, <1>8, <1>9, <1>10, <1>11

\* The value to read is the one behind those made so far.
LEMMA FreshIs ==
  ASSUME NEW d, Reading(d), doing = "value"
  PROVE  /\ Fresh \in DOMAIN d.nodes /\ Skip(pos) = d.from[Fresh]
         /\ text \in Text /\ d.from[Fresh] \in Nat /\ d.from[Fresh] <= Len(text)
         /\ ~Pending /\ ~Keyless
<1>1. ~Pending /\ ~Keyless
  BY DEF Pending, Keyless
<1>2. Fresh \in DOMAIN d.nodes
  <2>1. CASE frames # <<>>
    BY <1>1, <2>1, InnermostIs DEF Fresh
  <2>2. CASE frames = <<>>
    <3>1. nodes = <<>>
      BY <2>2 DEF Reading, NestInv
    <3>2. Fresh = 1
      BY <3>1 DEF Fresh
    <3> QED
      BY <3>2, DerivedIs DEF Reading
  <2> QED
    BY <2>1, <2>2
<1>3. text \in Text /\ pos \in Nat /\ Gap(text, pos, d.from[Fresh])
  BY DEF Reading, JsonInv, TypeJson, Follows, Placed, Fresh
<1>4. Skip(pos) = d.from[Fresh] /\ d.from[Fresh] \in Nat /\ d.from[Fresh] <= Len(text)
  BY <1>3, GapSkip
<1> QED
  BY <1>1, <1>2, <1>3, <1>4

\* A value that is complete at once, or a string that starts.
LEMMA FreshFollows ==
  ASSUME NEW d, Reading(d), doing = "value", NEW node \in Node, nodes' = Append(nodes, node),
         cur' = Fresh, frames' = frames, text' = text, d.nodes[Fresh].kids = <<>>,
         \/ doing' = "store" /\ node = d.nodes[Fresh] /\ pos' = d.to[Fresh]
         \/ /\ doing' = "string" /\ node = Made("string") /\ d.nodes[Fresh].type = "string"
            /\ 1 \in DOMAIN d.string[Fresh].at
            /\ pos' = d.string[Fresh].at[1] /\ str' = d.string[Fresh].got[1]
  PROVE  Follows(d)'
<1> DEFINE n == Len(nodes)
<1>1. /\ Len(nodes') = n + 1 /\ DOMAIN nodes' = 1 .. n + 1
      /\ \A i \in 1 .. n : nodes'[i] = nodes[i]
      /\ nodes'[n + 1] = node
  BY NodesGrow DEF Reading, JsonInv, Fresh
<1>2. /\ n \in Nat /\ DOMAIN nodes = 1 .. n /\ OpenNodes \subseteq 1 .. n
      /\ \A j \in 1 .. Len(frames) : frames[j].node \in OpenNodes
      /\ Len(frames) \in Nat
      /\ frames # <<>> => Len(frames) \in 1 .. Len(frames) /\ Innermost \in OpenNodes
  BY OpenAre DEF Reading
<1>3. Fresh = n + 1 /\ n + 1 # 0 /\ n + 1 \notin OpenNodes
  BY <1>2 DEF Fresh
<1>4. Fresh \in DOMAIN d.nodes /\ ~Pending /\ DOMAIN d.nodes = 1 .. Len(d.nodes) /\ Len(d.nodes) \in Nat
      /\ Numbered(d, Fresh)
  BY FreshIs, DerivedIs DEF Reading
<1>5. Pending' /\ OpenNodes' = OpenNodes /\ Innermost' = Innermost
  BY <1>3 DEF Pending, OpenNodes, Innermost
<1>6. Len(nodes') <= Len(d.nodes)
  BY <1>1, <1>3, <1>4
<1>7. \A i \in DOMAIN nodes' : Grown(d, i)'
  <2> TAKE i \in DOMAIN nodes'
  <2>1. CASE i \in 1 .. n
    <3>1. Grown(d, i)
      BY <1>2, <2>1 DEF Reading, Follows
    <3>2. cur' # i
      BY <1>2, <1>3, <2>1
    <3> QED
      BY <1>1, <1>5, <2>1, <3>1, <3>2 DEF Grown
  <2>2. CASE i = n + 1
    BY <1>1, <1>3, <1>5, <2>2 DEF Grown
  <2> QED
    BY <1>1, <1>2, <2>1, <2>2
<1>8. Chained(d)'
  <2>1. \A i \in OpenNodes : nodes'[i] = nodes[i]
    BY <1>1, <1>2
  <2>2. \A j \in 1 .. Len(frames) - 1 : frames[j].node \in OpenNodes
    <3> TAKE j \in 1 .. Len(frames) - 1
    <3>1. j \in 1 .. Len(frames)
      BY <1>2
    <3> QED
      BY <1>2, <3>1
  <2>3. /\ \A j \in 1 .. Len(frames) - 1 :
             frames[j + 1].node = d.nodes[frames[j].node].kids[Len(nodes[frames[j].node].kids) + 1]
        /\ frames # <<>> => d.nodes[Innermost].kids[Len(nodes[Innermost].kids) + 1] = Len(nodes) + 1
    BY <1>4 DEF Reading, Follows, Chained, NextKid
  <2>4. /\ \A j \in 1 .. Len(frames) - 1 :
             frames[j + 1].node = d.nodes[frames[j].node].kids[Len(nodes'[frames[j].node].kids) + 1]
        /\ frames # <<>> => d.nodes[Innermost].kids[Len(nodes'[Innermost].kids) + 1] = cur'
    BY <1>2, <1>3, <2>1, <2>2, <2>3
  <2>6. d.next[cur'] = Len(nodes') + 1
    BY <1>1, <1>3, <1>4 DEF Numbered
  <2> QED
    BY <1>5, <2>4, <2>6 DEF Chained, NextKid
<1>9. Placed(d)'
  BY <1>3 DEF Placed, Spelling
<1> QED
  BY <1>6, <1>7, <1>8, <1>9 DEF Follows

--------------------------------------------------------------------------------
(* ... a value *)

\* Where a value starts, the reader does what its first character says.
LEMMA ValueStarts ==
  ASSUME doing = "value", Parse
  PROVE  \/ \E type \in DOMAIN Open : ParseOpen(type) /\ At(Skip(pos)) = Open[type]
         \/ ParseString /\ At(Skip(pos)) = Quote
         \/ ParseLiteral /\ \E type \in DOMAIN Literals : At(Skip(pos)) = Literals[type][1]
         \/ ParseNumber /\ At(Skip(pos)) \notin {123, 91, 34, 116, 102, 110}
<1>1. (\E type \in DOMAIN Open : ParseOpen(type)) \/ ParseString \/ ParseLiteral \/ ParseNumber
  BY DEF Parse, StoreRoot, StoreMember, ParseKey, StringChar, StringEscape, StringCode, StringCut, StringEnd
<1>2. \A type \in DOMAIN Open : ParseOpen(type) => At(Skip(pos)) = Open[type]
  BY DEF ParseOpen
<1>3. ParseString => At(Skip(pos)) = Quote
  BY DEF ParseString
<1>4. ParseLiteral => \E type \in DOMAIN Literals : At(Skip(pos)) = Literals[type][1]
  BY DEF ParseLiteral
<1>5. ParseNumber => At(Skip(pos)) \notin {123, 91, 34, 116, 102, 110}
  BY DEF ParseNumber, Open, Quote, Literals
<1> QED
  BY <1>1, <1>2, <1>3, <1>4, <1>5

\* The characters values start with.
LEMMA Starts ==
  /\ DOMAIN Open = {"object", "array"} /\ Open.object = 123 /\ Open.array = 91 /\ Quote = 34
  /\ DOMAIN Closed = {"object", "array"} /\ Closed.object = 125 /\ Closed.array = 93
  /\ DOMAIN Literals = {"true", "false", "null"}
  /\ Literals["true"][1] = 116 /\ Literals["false"][1] = 102 /\ Literals["null"][1] = 110
  /\ Len(Literals["true"]) = 4 /\ Len(Literals["false"]) = 5 /\ Len(Literals["null"]) = 4
  /\ \A type \in DOMAIN Literals : 1 \in DOMAIN Literals[type]
  /\ \A c \in NumberChars : c \notin {123, 91, 34, 116, 102, 110, 93}
BY DEF Open, Closed, Quote, Literals, NumberChars

\* true, false, null.
LEMMA LiteralFollows ==
  ASSUME NEW d, Reading(d), doing = "value", Parse, IsLiteral(text, d, Fresh)
  PROVE  doing' \notin {"exit", "undefined"} /\ Follows(d)'
<1> DEFINE at == Skip(pos)
<1>1. at = d.from[Fresh] /\ at \in Nat /\ Fresh \in DOMAIN d.nodes
  BY FreshIs
<1> HIDE DEF at
<1>2. PICK type \in DOMAIN Literals :
        /\ d.nodes[Fresh] = Made(type)
        /\ \A k \in DOMAIN Literals[type] : At(at + k - 1) = Literals[type][k]
        /\ d.to[Fresh] = at + Len(Literals[type])
  BY <1>1, CharIs DEF IsLiteral
<1>3. At(at) = Literals[type][1]
  <2>1. at + 1 - 1 = at
    BY <1>1
  <2> QED
    BY <1>2, <2>1, Starts
<1>4. ParseLiteral
  BY <1>3, ValueStarts, Starts DEF at
<1>5. Leaf(Made(type), d.to[Fresh])
  <2>1. PICK other \in DOMAIN Literals :
          /\ At(at) = Literals[other][1]
          /\ IF \A k \in DOMAIN Literals[other] : At(at + k - 1) = Literals[other][k]
             THEN Leaf(Made(other), at + Len(Literals[other]))
             ELSE Exit
    BY <1>4 DEF ParseLiteral, at
  <2>2. other = type
    <3>1. Literals[other][1] = Literals[type][1]
      BY <1>3, <2>1
    <3>2. \A a, b \in {"true", "false", "null"} : Literals[a][1] = Literals[b][1] => a = b
      BY Starts
    <3> QED
      BY <3>1, <3>2, Starts
  <2> QED
    BY <1>2, <2>1, <2>2
<1>6. /\ Made(type) \in Node /\ Made(type).kids = <<>>
      /\ nodes' = Append(nodes, Made(type)) /\ cur' = Fresh /\ pos' = d.to[Fresh] /\ doing' = "store"
      /\ frames' = frames /\ text' = text
  BY <1>5, MadeIs, Starts DEF Leaf
<1> QED
  BY <1>2, <1>6, FreshFollows

\* A number.
LEMMA NumberFollows ==
  ASSUME NEW d, Reading(d), doing = "value", Parse, IsNumber(text, d, Fresh)
  PROVE  doing' \notin {"exit", "undefined"} /\ Follows(d)'
<1> DEFINE at == Skip(pos)  q == d.to[Fresh]  digits == SubSeq(text, at + 1, q)
<1>1. at = d.from[Fresh] /\ at \in Nat /\ Fresh \in DOMAIN d.nodes /\ text \in Text
  BY FreshIs
<1>2. Len(text) \in Nat /\ q \in Nat
  BY <1>1, TextLen, DerivedIs DEF Reading
<1> HIDE DEF at, q
<1>3. /\ q \in at + 1 .. Len(text) /\ q - at < NumberCap
      /\ Char(text, q) \notin NumberChars /\ \A k \in at .. q - 1 : Char(text, k) \in NumberChars
      /\ d.nodes[Fresh] = [Made("number") EXCEPT !.text = Atof(digits)]
  BY <1>1 DEF IsNumber, q
<1>4. NumberEnd(at) = q
  <2>1. q \in at .. Len(text)
    BY <1>1, <1>2, <1>3
  <2> QED
    BY <1>1, <1>3, <2>1, NumberStops
<1>5. At(at) \in NumberChars
  <2>1. at \in at .. q - 1
    BY <1>1, <1>2, <1>3
  <2> QED
    BY <1>3, <2>1, CharIs
<1>6. ParseNumber
  BY <1>5, ValueStarts, Starts DEF at
<1>7. digits \in Text /\ Len(digits) = q - at
  <2>1. at + 1 \in Nat \ {0} /\ q <= Len(text)
    BY <1>1, <1>2, <1>3
  <2>2. digits \in Text
    BY <1>1, <1>2, <2>1, SubText
  <2>3. Len(digits) = IF at + 1 <= q THEN q - (at + 1) + 1 ELSE 0
    <3>1. \A k \in at + 1 .. q : text[k] \in 0 .. 255
      <4> TAKE k \in at + 1 .. q
      <4>1. k \in 1 .. Len(text)
        BY <1>1, <1>2, <2>1
      <4> QED
        BY <1>1, <4>1, TextLen
    <3>2. at + 1 \in Int /\ q \in Int
      BY <1>1, <1>2
    <3> QED
      BY <3>1, <3>2, SubSeqProperties
  <2> QED
    BY <1>1, <1>2, <1>3, <2>2, <2>3
<1>8. NumberCap \in Nat
  BY JsonAssumption
<1>9. Leaf([Made("number") EXCEPT !.text = Atof(digits)], q)
  <2>1. Leaf([Made("number") EXCEPT !.text =
                Atof(IF Len(digits) >= NumberCap THEN SubSeq(digits, 1, NumberCap - 1) ELSE digits)], q)
    BY <1>4, <1>6 DEF ParseNumber, at
  <2>2. ~(Len(digits) >= NumberCap)
    BY <1>1, <1>2, <1>3, <1>7, <1>8
  <2> QED
    BY <2>1, <2>2
<1> HIDE DEF digits
<1>10. LET node == [Made("number") EXCEPT !.text = Atof(digits)] IN node \in Node /\ node.kids = <<>>
  <2>1. Atof(digits) \in Text
    BY <1>7, AtofIs
  <2> QED
    BY <2>1, MadeIs, TextSet
<1>11. /\ nodes' = Append(nodes, d.nodes[Fresh]) /\ cur' = Fresh /\ pos' = d.to[Fresh] /\ doing' = "store"
       /\ frames' = frames /\ text' = text
  BY <1>3, <1>9 DEF Leaf, q
<1> QED
  BY <1>3, <1>10, <1>11, FreshFollows

\* A string starts.
LEMMA StringStarts ==
  ASSUME NEW d, Reading(d), doing = "value", Parse, IsString(text, d, Fresh)
  PROVE  doing' \notin {"exit", "undefined"} /\ Follows(d)'
<1> DEFINE at == Skip(pos)  s == d.string[Fresh]
<1>1. at = d.from[Fresh] /\ at \in Nat /\ Fresh \in DOMAIN d.nodes
  BY FreshIs
<1> HIDE DEF at
<1>2. /\ d.nodes[Fresh] = [Made("string") EXCEPT !.text = d.nodes[Fresh].text]
      /\ Spells(text, s, d.nodes[Fresh].text) /\ at = s.at[1] - 1
  BY <1>1 DEF IsString, Begins
<1>3. /\ s.at \in Seq(Nat \ {0}) /\ Len(s.at) > 0
      /\ At(s.at[1] - 1) = Quote /\ s.got[1] = <<>>
  BY <1>2, CharIs DEF Spells
<1>4. 1 \in DOMAIN s.at /\ s.at[1] \in Nat
  <2> DEFINE w == s.at
  <2>1. w \in Seq(Nat \ {0}) /\ Len(w) > 0
    BY <1>3
  <2> HIDE DEF w
  <2>2. 1 \in 1 .. Len(w) /\ DOMAIN w = 1 .. Len(w)
    BY <2>1, LenProperties
  <2>3. w[1] \in Nat \ {0}
    BY <2>1, <2>2, ElementOfSeq
  <2> QED
    BY <2>2, <2>3 DEF w
<1>5. ParseString
  BY <1>2, <1>3, ValueStarts, Starts DEF at
<1>6. /\ nodes' = Append(nodes, Made("string")) /\ cur' = Fresh /\ str' = <<>>
      /\ pos' = at + 1 /\ doing' = "string" /\ frames' = frames /\ text' = text
  BY <1>5 DEF ParseString, at
<1>7. pos' = s.at[1] /\ str' = s.got[1]
  BY <1>2, <1>3, <1>4, <1>6
<1>8. d.nodes[Fresh].type = "string" /\ d.nodes[Fresh].kids = <<>> /\ Made("string") \in Node
  <2>1. Made("string") \in Node /\ Made("string").type = "string" /\ Made("string").kids = <<>>
    BY MadeIs
  <2> QED
    BY <1>2, <2>1 DEF Node
<1> QED
  BY <1>4, <1>6, <1>7, <1>8, FreshFollows

\* No value starts with a bracket that closes one.
LEMMA NotClosed ==
  ASSUME NEW t, NEW d, Derives(t, d), NEW i \in DOMAIN d.nodes
  PROVE  Char(t, d.from[i]) # 93
<1>1. d.from[i] \in Nat /\ d.to[i] \in Nat
      /\ (IsLiteral(t, d, i) \/ IsNumber(t, d, i) \/ IsString(t, d, i) \/ IsTable(t, d, i))
  BY DerivedIs
<1>2. CASE IsLiteral(t, d, i)
  <2>1. PICK type \in DOMAIN Literals :
          \A k \in DOMAIN Literals[type] : Char(t, d.from[i] + k - 1) = Literals[type][k]
    BY <1>2 DEF IsLiteral
  <2>2. d.from[i] + 1 - 1 = d.from[i]
    BY <1>1
  <2>3. Char(t, d.from[i]) = Literals[type][1]
    BY <2>1, <2>2, Starts
  <2> QED
    BY <2>3, Starts
<1>3. CASE IsNumber(t, d, i)
  <2>1. /\ d.to[i] \in d.from[i] + 1 .. Len(t)
        /\ \A k \in d.from[i] .. d.to[i] - 1 : Char(t, k) \in NumberChars
    BY <1>3 DEF IsNumber
  <2>2. d.from[i] \in d.from[i] .. d.to[i] - 1
    BY <1>1, <2>1
  <2> QED
    BY <2>1, <2>2, Starts
<1>4. CASE IsString(t, d, i)
  BY <1>4 DEF IsString, Begins, Spells, Quote
<1>5. CASE IsTable(t, d, i)
  BY <1>5, Starts DEF IsTable
<1> QED
  BY <1>1, <1>2, <1>3, <1>4, <1>5

\* An array or object without values is made in one step.
LEMMA EmptyTable ==
  ASSUME NEW node \in Node, NEW type, node.type = type, node.text = <<>>,
         Len(node.kids) = 0, Len(node.keys) = 0
  PROVE  node = Made(type) /\ node.kids = <<>>
<1>1. node.kids \in Seq(Nat) /\ node.keys \in Seq(Text)
  BY DEF Node
<1>2. node.kids = <<>> /\ node.keys = <<>>
  BY <1>1, EmptySeq
<1> QED
  BY <1>2 DEF Made, Node

\* A bracket that opens, and what comes behind it.
LEMMA TableStarts ==
  ASSUME NEW d, Reading(d), doing = "value", Parse, IsTable(text, d, Fresh)
  PROVE  LET node == d.nodes[Fresh]
             next == Skip(d.from[Fresh] + 1)
         IN  /\ node \in Node /\ node.type \in {"object", "array"}
             /\ node.kids = <<>> =>
                  /\ Leaf(Made(node.type), d.to[Fresh]) /\ Made(node.type) = node
             /\ node.kids # <<>> =>
                  /\ nodes' = Append(nodes, Made(node.type))
                  /\ frames' = Append(frames, [node |-> Fresh, cap |-> TableCap])
                  /\ pos' = next /\ text' = text /\ cur' = cur
                  /\ doing' = (IF node.type = "object" THEN "key" ELSE "value")
                  /\ node.type = "object" => Gap(text, next, Begins(d.key[Fresh][1]))
                  /\ node.type = "array"  => Gap(text, next, d.from[Fresh + 1])
                  /\ 1 <= Len(node.kids) /\ node.kids[1] = Fresh + 1
<1> DEFINE i == Fresh  node == d.nodes[i]  next == Skip(d.from[i] + 1)  n == Len(node.kids)
<1>1. Skip(pos) = d.from[i] /\ d.from[i] \in Nat /\ i \in DOMAIN d.nodes /\ text \in Text
  BY FreshIs
<1>2. node \in Node /\ n \in Nat /\ DOMAIN node.kids = 1 .. n /\ Numbered(d, i) /\ d.to[i] \in Nat
  BY <1>1, DerivedIs DEF Reading
<1>3. /\ node.type \in {"object", "array"} /\ node.text = <<>>
      /\ Len(node.keys) = IF node.type = "object" THEN n ELSE 0
      /\ At(d.from[i]) = Open[node.type] /\ d.sep[i][0] = d.from[i]
      /\ \A k \in 1 .. n : IsMember(text, d, i, k)
      /\ n = 0 => Gap(text, d.from[i] + 1, d.to[i] - 1) /\ At(d.to[i] - 1) = Closed[node.type]
  BY Starts, CharIs DEF IsTable
<1>4. ParseOpen(node.type)
  <2>1. PICK type \in DOMAIN Open : ParseOpen(type) /\ At(Skip(pos)) = Open[type]
    BY <1>1, <1>3, ValueStarts, Starts
  <2>2. \A a, b \in {"object", "array"} : Open[a] = Open[b] => a = b
    BY Starts
  <2>3. type = node.type
    BY <1>1, <1>3, <2>1, <2>2, Starts
  <2> QED
    BY <2>1, <2>3
<1>5. IF At(next) = Closed[node.type]
      THEN Leaf(Made(node.type), next + 1)
      ELSE /\ nodes' = Append(nodes, Made(node.type))
           /\ frames' = Append(frames, [node |-> Fresh, cap |-> TableCap])
           /\ pos' = next
           /\ doing' = IF node.type = "object" THEN "key" ELSE "value"
           /\ UNCHANGED <<text, cur, str, strCap, todo>>
  BY <1>1, <1>4 DEF ParseOpen
<1>6. d.from[i] + 1 \in Nat
  BY <1>1
<1>7. ASSUME n = 0
      PROVE  Leaf(Made(node.type), d.to[i]) /\ Made(node.type) = node /\ node.kids = <<>>
  <2>1. next = d.to[i] - 1
    BY <1>1, <1>3, <1>6, <1>7, GapSkip
  <2>2. next + 1 = d.to[i]
    BY <1>2, <2>1
  <2>3. Leaf(Made(node.type), d.to[i])
    BY <1>3, <1>5, <1>7, <2>1, <2>2
  <2>4. Len(node.keys) = 0
    BY <1>3, <1>7
  <2> QED
    BY <1>2, <1>3, <1>7, <2>3, <2>4, EmptyTable
<1>8. ASSUME n # 0
      PROVE  /\ At(next) # Closed[node.type]
             /\ node.type = "object" => Gap(text, next, Begins(d.key[i][1]))
             /\ node.type = "array"  => Gap(text, next, d.from[i + 1])
             /\ 1 <= n /\ node.kids[1] = i + 1 /\ node.kids # <<>>
  <2>1. 1 <= n /\ 1 \in 1 .. n /\ 1 \in DOMAIN node.kids
    BY <1>2, <1>8
  <2>2. node.kids[1] = i + 1 /\ i + 1 \in DOMAIN d.nodes
    BY <1>2, <2>1 DEF Numbered
  <2>3. IsMember(text, d, i, 1) /\ d.sep[i][1 - 1] = d.from[i]
    BY <1>3, <2>1
  <2>4. CASE node.type = "object"
    <3>1. Gap(text, d.from[i] + 1, Begins(d.key[i][1])) /\ Spells(text, d.key[i][1], node.keys[1])
      BY <2>3, <2>4 DEF IsMember
    <3>2. At(Begins(d.key[i][1])) = Quote
      BY <3>1, CharIs DEF Spells, Begins
    <3>3. next = Begins(d.key[i][1]) /\ Gap(text, next, next)
      BY <1>1, <1>6, <3>1, GapSkip
    <3> QED
      BY <2>1, <2>2, <2>4, <3>2, <3>3, Starts
  <2>5. CASE node.type = "array"
    <3>1. Gap(text, d.from[i] + 1, d.from[i + 1])
      BY <2>2, <2>3, <2>5 DEF IsMember
    <3>2. At(d.from[i + 1]) # 93
      BY <2>2, NotClosed, CharIs DEF Reading
    <3>3. next = d.from[i + 1] /\ Gap(text, next, next)
      BY <1>1, <1>6, <3>1, GapSkip
    <3> QED
      BY <2>1, <2>2, <2>5, <3>2, <3>3, Starts
  <2> QED
    BY <1>3, <2>4, <2>5
<1>9. node.kids = <<>> => n = 0
  OBVIOUS
<1> QED
  BY <1>2, <1>3, <1>5, <1>7, <1>8, <1>9

\* One more call.
LEMMA FramesGrow ==
  ASSUME JsonInv, NEW frame, frames' = Append(frames, frame)
  PROVE  /\ Len(frames) \in Nat /\ DOMAIN frames' = 1 .. Len(frames) + 1 /\ frames' # <<>>
         /\ Len(frames') = Len(frames) + 1 /\ frames'[Len(frames) + 1] = frame
         /\ \A j \in 1 .. Len(frames) : frames'[j] = frames[j]
<1> DEFINE S == [node : DOMAIN nodes, cap : Nat] \cup {frame}
<1>1. frames \in Seq([node : DOMAIN nodes, cap : Nat]) /\ [node : DOMAIN nodes, cap : Nat] \subseteq S
  BY DEF JsonInv, TypeJson
<1>2. frame \in S
  OBVIOUS
<1> HIDE DEF S
<1>3. frames \in Seq(S)
  BY <1>1, SeqMonotonic
<1>4. /\ frames' \in Seq(S) /\ Len(frames') = Len(frames) + 1 /\ frames'[Len(frames) + 1] = frame
      /\ \A j \in 1 .. Len(frames) : frames'[j] = frames[j]
  BY <1>2, <1>3, AppendProperties
<1>5. Len(frames) \in Nat /\ DOMAIN frames' = 1 .. Len(frames') /\ Len(frames') # 0
  BY <1>3, <1>4, LenProperties
<1> QED
  BY <1>4, <1>5, EmptySeq

\* An object or array is opened.
LEMMA OpenFollows ==
  ASSUME NEW d, Reading(d), doing = "value", NEW type, type \in {"object", "array"},
         d.nodes[Fresh].type = type, d.nodes[Fresh].kids # <<>>,
         nodes' = Append(nodes, Made(type)),
         frames' = Append(frames, [node |-> Fresh, cap |-> TableCap]),
         text' = text, cur' = cur,
         doing' = (IF type = "object" THEN "key" ELSE "value"),
         type = "object" => Gap(text, pos', Begins(d.key[Fresh][1])),
         type = "array"  => Gap(text, pos', d.from[Fresh + 1]),
         1 <= Len(d.nodes[Fresh].kids), d.nodes[Fresh].kids[1] = Fresh + 1
  PROVE  Follows(d)'
<1> DEFINE n == Len(nodes)  m == Len(frames)
<1>1. /\ Len(nodes') = n + 1 /\ DOMAIN nodes' = 1 .. n + 1
      /\ \A i \in 1 .. n : nodes'[i] = nodes[i]
      /\ nodes'[n + 1] = Made(type)
      /\ Made(type).type = type /\ Made(type).text = <<>>
      /\ Made(type).keys = <<>> /\ Made(type).kids = <<>>
  BY MadeIs, NodesGrow DEF Reading, JsonInv, Fresh, Made
<1>2. /\ n \in Nat /\ DOMAIN nodes = 1 .. n /\ OpenNodes \subseteq 1 .. n
      /\ \A j \in 1 .. m : frames[j].node \in OpenNodes
      /\ m \in Nat
      /\ frames # <<>> => m \in 1 .. m /\ Innermost \in OpenNodes
      /\ OpenNodes = {frames[j].node : j \in 1 .. m}
  BY OpenAre DEF Reading, OpenNodes
<1>3. Fresh = n + 1 /\ n + 1 # 0 /\ n + 1 \notin OpenNodes
  <2>1. n + 1 # 0 /\ n + 1 \notin 1 .. n
    BY <1>2
  <2> QED
    BY <1>2, <2>1 DEF Fresh
<1>4. /\ Fresh \in DOMAIN d.nodes /\ ~Pending /\ DOMAIN d.nodes = 1 .. Len(d.nodes) /\ Len(d.nodes) \in Nat
      /\ Len(d.nodes[Fresh].kids) \in Nat
  BY FreshIs, DerivedIs DEF Reading
<1>5. /\ DOMAIN frames' = 1 .. m + 1 /\ frames' # <<>> /\ Len(frames') = m + 1
      /\ frames'[m + 1].node = Fresh
      /\ \A j \in 1 .. m : frames'[j] = frames[j]
  BY FramesGrow DEF Reading
<1>6. Innermost' = n + 1 /\ ~Pending' /\ OpenNodes' = OpenNodes \cup {n + 1}
  <2>1. Innermost' = n + 1
    BY <1>3, <1>5 DEF Innermost
  <2>2. ~Pending'
    BY <1>3 DEF Pending
  <2>3. OpenNodes' = {frames'[j].node : j \in 1 .. m + 1}
    BY <1>5 DEF OpenNodes
  <2>4. \A i : i \in OpenNodes' <=> i \in OpenNodes \/ i = n + 1
    <3> TAKE i
    <3>1. i \in OpenNodes' => i \in OpenNodes \/ i = n + 1
      <4> HAVE i \in OpenNodes'
      <4>1. PICK j \in 1 .. m + 1 : i = frames'[j].node
        BY <2>3
      <4>2. CASE j = m + 1
        BY <1>3, <1>5, <4>1, <4>2
      <4>3. CASE j # m + 1
        <5>1. j \in 1 .. m
          BY <1>2, <4>3
        <5> QED
          BY <1>2, <1>5, <4>1, <5>1
      <4> QED
        BY <4>2, <4>3
    <3>2. i \in OpenNodes => i \in OpenNodes'
      <4> HAVE i \in OpenNodes
      <4>1. PICK j \in 1 .. m : i = frames[j].node
        BY <1>2
      <4>2. j \in 1 .. m + 1 /\ i = frames'[j].node
        BY <1>2, <1>5, <4>1
      <4> QED
        BY <2>3, <4>2
    <3>3. n + 1 \in OpenNodes'
      <4>1. m + 1 \in 1 .. m + 1
        BY <1>2
      <4> QED
        BY <1>3, <1>5, <2>3, <4>1
    <3> QED
      BY <3>1, <3>2, <3>3
  <2> QED
    BY <2>1, <2>2, <2>4
<1>7. Len(nodes') <= Len(d.nodes)
  BY <1>1, <1>3, <1>4
<1>8. \A i \in DOMAIN nodes' : Grown(d, i)'
  <2> TAKE i \in DOMAIN nodes'
  <2>1. CASE i \in 1 .. n
    <3>1. Grown(d, i)
      BY <1>2, <2>1 DEF Reading, Follows
    <3>2. i # n + 1
      BY <1>2, <2>1
    <3> QED
      BY <1>1, <1>6, <2>1, <3>1, <3>2 DEF Grown
  <2>2. CASE i = n + 1
    <3>1. Len(nodes'[i].kids) = 0 /\ DOMAIN nodes'[i].kids = {} /\ DOMAIN nodes'[i].keys = {}
      BY <1>1, <2>2
    <3>2. Len(nodes'[i].kids) < Len(d.nodes[i].kids)
      BY <1>3, <1>4, <2>2, <3>1
    <3> QED
      BY <1>1, <1>3, <1>6, <2>2, <3>1, <3>2 DEF Grown
  <2> QED
    BY <1>1, <1>2, <2>1, <2>2
<1>9. Chained(d)'
  <2>1. /\ \A j \in 1 .. m - 1 :
             frames[j + 1].node = d.nodes[frames[j].node].kids[Len(nodes[frames[j].node].kids) + 1]
        /\ frames # <<>> => d.nodes[Innermost].kids[Len(nodes[Innermost].kids) + 1] = n + 1
    BY <1>4 DEF Reading, Follows, Chained, NextKid
  <2>2. ASSUME NEW j \in 1 .. m
        PROVE  frames'[j + 1].node = d.nodes[frames'[j].node].kids[Len(nodes'[frames'[j].node].kids) + 1]
    <3>1. frames'[j] = frames[j] /\ nodes'[frames[j].node] = nodes[frames[j].node]
      BY <1>1, <1>2, <1>5
    <3>2. CASE j = m
      <4>1. frames # <<>> /\ Innermost = frames[j].node
        BY <1>2, <3>2 DEF Innermost
      <4> QED
        BY <1>3, <1>5, <2>1, <3>1, <3>2, <4>1
    <3>3. CASE j # m
      <4>1. j \in 1 .. m - 1 /\ j + 1 \in 1 .. m
        BY <1>2, <3>3
      <4> QED
        BY <1>5, <2>1, <3>1, <4>1
    <3> QED
      BY <3>2, <3>3
  <2>3. d.nodes[n + 1].kids[Len(nodes'[n + 1].kids) + 1] = Len(nodes') + 1
    <3>1. Len(nodes'[n + 1].kids) = 0
      BY <1>1
    <3> QED
      BY <1>1, <1>3, <3>1
  <2>4. Len(frames') - 1 = m
    BY <1>2, <1>5
  <2> QED
    BY <1>5, <1>6, <2>2, <2>3, <2>4 DEF Chained, NextKid
<1>10. Placed(d)'
  <2>1. Len(nodes') + 1 = Fresh + 1
    BY <1>1, <1>3
  <2>2. Len(nodes'[Innermost'].kids) + 1 = 1 /\ Innermost' = Fresh
    <3>1. Len(nodes'[n + 1].kids) = 0
      BY <1>1
    <3> QED
      BY <1>3, <1>6, <3>1
  <2> QED
    BY <2>1, <2>2 DEF Placed, NextKey
<1> QED
  BY <1>7, <1>8, <1>9, <1>10 DEF Follows

\* An array or object.
LEMMA TableFollows ==
  ASSUME NEW d, Reading(d), doing = "value", Parse, IsTable(text, d, Fresh)
  PROVE  doing' \notin {"exit", "undefined"} /\ Follows(d)'
<1> DEFINE node == d.nodes[Fresh]  type == node.type
<1>1. /\ node \in Node /\ type \in {"object", "array"}
      /\ node.kids = <<>> => Leaf(Made(type), d.to[Fresh]) /\ Made(type) = node
      /\ node.kids # <<>> =>
           /\ nodes' = Append(nodes, Made(type))
           /\ frames' = Append(frames, [node |-> Fresh, cap |-> TableCap])
           /\ pos' = Skip(d.from[Fresh] + 1) /\ text' = text /\ cur' = cur
           /\ doing' = (IF type = "object" THEN "key" ELSE "value")
           /\ type = "object" => Gap(text, Skip(d.from[Fresh] + 1), Begins(d.key[Fresh][1]))
           /\ type = "array"  => Gap(text, Skip(d.from[Fresh] + 1), d.from[Fresh + 1])
           /\ 1 <= Len(node.kids) /\ node.kids[1] = Fresh + 1
  BY TableStarts, Zenon
<1>2. CASE node.kids = <<>>
  <2>1. /\ nodes' = Append(nodes, node) /\ cur' = Fresh /\ pos' = d.to[Fresh] /\ doing' = "store"
        /\ frames' = frames /\ text' = text
    BY <1>1, <1>2 DEF Leaf
  <2> QED
    BY <1>1, <1>2, <2>1, FreshFollows
<1>3. CASE node.kids # <<>>
  <2>1. doing' \in {"key", "value"}
    BY <1>1, <1>3
  <2>2. Follows(d)'
    BY <1>1, <1>3, OpenFollows
  <2> QED
    BY <2>1, <2>2
<1> QED
  BY <1>2, <1>3

\* Where a value is due the reader takes the one that is there.
LEMMA ValueFollows ==
  ASSUME NEW d, Reading(d), doing = "value", Parse
  PROVE  doing' \notin {"exit", "undefined"} /\ Follows(d)'
<1>1. Fresh \in DOMAIN d.nodes
  BY FreshIs
<1>2. IsLiteral(text, d, Fresh) \/ IsNumber(text, d, Fresh) \/ IsString(text, d, Fresh) \/ IsTable(text, d, Fresh)
  BY <1>1, DerivedIs DEF Reading
<1> QED
  BY <1>2, LiteralFollows, NumberFollows, StringStarts, TableFollows

--------------------------------------------------------------------------------
(* ... a string or key *)

\* The parts of a string, pointwise.
LEMMA SpellsIs ==
  ASSUME NEW t, NEW s, NEW meant, Spells(t, s, meant)
  PROVE  LET n == Len(s.at)
         IN  /\ n \in Nat /\ DOMAIN s.at = 1 .. n /\ 1 \in 1 .. n /\ n \in 1 .. n
             /\ \A k \in 1 .. n : s.at[k] \in Nat \ {0}
             /\ Char(t, s.at[1] - 1) = Quote /\ s.got[1] = <<>>
             /\ \A k \in 1 .. n - 1 : Piece(t, s.at[k], s.at[k + 1], s.got[k], s.got[k + 1])
             /\ Char(t, s.at[n]) = Quote /\ meant = CString(s.got[n])
<1> DEFINE w == s.at  n == Len(w)
<1>1. /\ w \in Seq(Nat \ {0}) /\ n > 0
      /\ Char(t, w[1] - 1) = Quote /\ s.got[1] = <<>>
      /\ \A k \in 1 .. n - 1 : Piece(t, w[k], w[k + 1], s.got[k], s.got[k + 1])
      /\ Char(t, w[n]) = Quote /\ meant = CString(s.got[n])
  BY DEF Spells
<1>2. n \in Nat /\ DOMAIN w = 1 .. n /\ \A k \in 1 .. n : w[k] \in Nat \ {0}
  <2> HIDE DEF w
  <2> QED
    BY <1>1, LenProperties, ElementOfSeq
<1>3. 1 \in 1 .. n /\ n \in 1 .. n
  BY <1>1, <1>2
<1> QED
  BY <1>1, <1>2, <1>3

\* A key starts.
LEMMA KeyFollows ==
  ASSUME NEW d, Reading(d), doing = "key", Parse
  PROVE  doing' \notin {"exit", "undefined"} /\ Follows(d)'
<1> DEFINE i == Innermost  s == NextKey(d, i)
<1>1. ParseKey
  BY DEF Parse, ParseOpen, ParseString, ParseLiteral, ParseNumber, StoreRoot, StoreMember,
         StringChar, StringEscape, StringCode, StringCut, StringEnd
<1>2. frames # <<>> /\ nodes[i].type = "object"
  BY DEF Reading, JsonInv, FramesInv, Keyless
<1>3. /\ nodes[i].type = d.nodes[i].type /\ IsMember(text, d, i, Len(nodes[i].kids) + 1)
  BY <1>2, InnermostIs
<1>4. PICK meant : Spells(text, s, meant)
  BY <1>2, <1>3 DEF IsMember, NextKey
<1>5. /\ text \in Text /\ pos \in Nat /\ Gap(text, pos, s.at[1] - 1)
      /\ Len(nodes) <= Len(d.nodes) /\ \A j \in DOMAIN nodes : Grown(d, j)
      /\ Chained(d)
  BY DEF Reading, JsonInv, TypeJson, Follows, Placed, Begins
<1>6. /\ 1 \in DOMAIN s.at /\ s.at[1] \in Nat /\ At(s.at[1] - 1) = Quote /\ s.got[1] = <<>>
  BY <1>4, SpellsIs, CharIs
<1> HIDE DEF s
<1>7. Skip(pos) = s.at[1] - 1
  BY <1>5, GapSkip
<1>8. /\ str' = <<>> /\ cur' = 0 /\ pos' = Skip(pos) + 1 /\ doing' = "string"
      /\ UNCHANGED <<text, frames, nodes, todo>>
  BY <1>1, <1>6, <1>7 DEF ParseKey
<1>9. pos' = s.at[1]
  BY <1>6, <1>7, <1>8
<1>10. ~Pending /\ ~Pending' /\ OpenNodes' = OpenNodes /\ Innermost' = Innermost
  BY <1>8 DEF Pending, OpenNodes, Innermost
<1>11. \A j \in DOMAIN nodes' : Grown(d, j)'
  <2> TAKE j \in DOMAIN nodes'
  <2>1. j \in DOMAIN nodes /\ cur' # j
    <3>1. Len(nodes) \in Nat /\ DOMAIN nodes = 1 .. Len(nodes)
      BY OpenAre DEF Reading
    <3> QED
      BY <1>8, <3>1
  <2>2. Grown(d, j)
    BY <1>5, <2>1
  <2> QED
    BY <1>8, <1>10, <2>1, <2>2 DEF Grown
<1>12. Chained(d)'
  BY <1>5, <1>8, <1>10 DEF Chained, NextKid
<1>13. Placed(d)'
  <2>1. s = d.key[i][Len(nodes[i].kids) + 1]
    BY DEF s, NextKey
  <2>2. \E k \in DOMAIN s.at : pos' = s.at[k] /\ str' = s.got[k]
    BY <1>6, <1>8, <1>9
  <2> QED
    BY <1>8, <1>10, <2>1, <2>2 DEF Placed, Spelling, NextKey
<1> QED
  BY <1>5, <1>8, <1>11, <1>12, <1>13 DEF Follows

\* What the string that is read spells.
LEMMA SpellingIs ==
  ASSUME NEW d, Reading(d), doing = "string"
  PROVE  LET s == Spelling(d)
             k == Len(nodes[Innermost].kids) + 1
         IN  /\ cur # 0 => /\ cur \in DOMAIN nodes /\ cur \notin OpenNodes /\ cur \in DOMAIN d.nodes
                           /\ nodes[cur] = Made("string") /\ IsString(text, d, cur)
                           /\ s = d.string[cur] /\ Spells(text, s, d.nodes[cur].text)
             /\ cur = 0 => /\ frames # <<>> /\ nodes[Innermost].type = "object"
                           /\ IsMember(text, d, Innermost, k)
                           /\ s = d.key[Innermost][k] /\ Spells(text, s, d.nodes[Innermost].keys[k])
<1>1. CASE cur # 0
  <2>1. cur \in DOMAIN nodes /\ cur \notin OpenNodes
    BY <1>1 DEF Reading, NestInv, Pending
  <2>2. nodes[cur] = Made("string") /\ d.nodes[cur].type = "string"
    BY <2>1 DEF Reading, Follows, Grown
  <2>3. cur \in DOMAIN d.nodes
    <3>1. Len(nodes) \in Nat /\ DOMAIN nodes = 1 .. Len(nodes)
      BY OpenAre DEF Reading
    <3>2. Len(d.nodes) \in Nat /\ DOMAIN d.nodes = 1 .. Len(d.nodes) /\ Len(nodes) <= Len(d.nodes)
      BY DerivedIs DEF Reading, Follows
    <3> QED
      BY <2>1, <3>1, <3>2
  <2>4. IsString(text, d, cur)
    <3>1. ~IsLiteral(text, d, cur)
      <4>1. \A type \in DOMAIN Literals : Made(type).type # "string"
        BY MadeIs DEF Literals
      <4> QED
        BY <2>2, <4>1 DEF IsLiteral
    <3>2. ~IsNumber(text, d, cur)
      BY <2>2 DEF IsNumber, Made
    <3>3. ~IsTable(text, d, cur)
      BY <2>2, Starts DEF IsTable
    <3> QED
      BY <2>3, <3>1, <3>2, <3>3, DerivedIs DEF Reading
  <2>5. Spelling(d) = d.string[cur] /\ Spells(text, d.string[cur], d.nodes[cur].text)
    BY <1>1, <2>4 DEF Spelling, IsString
  <2> QED
    BY <1>1, <2>1, <2>2, <2>3, <2>4, <2>5
<1>2. CASE cur = 0
  <2>1. frames # <<>> /\ nodes[Innermost].type = "object"
    BY <1>2 DEF Reading, JsonInv, FramesInv, Keyless
  <2>2. d.nodes[Innermost].type = "object" /\ IsMember(text, d, Innermost, Len(nodes[Innermost].kids) + 1)
    BY <2>1, InnermostIs
  <2>3. Spelling(d) = d.key[Innermost][Len(nodes[Innermost].kids) + 1]
    BY <1>2 DEF Spelling, NextKey
  <2> QED
    BY <1>2, <2>1, <2>2, <2>3 DEF IsMember
<1> QED
  BY <1>1, <1>2

\* One more piece of the string.
LEMMA PutFollows ==
  ASSUME NEW d, Reading(d), doing = "string", UNCHANGED <<text, doing, frames, cur, nodes>>,
         NEW k \in DOMAIN Spelling(d).at, pos' = Spelling(d).at[k], str' = Spelling(d).got[k]
  PROVE  Follows(d)'
<1>1. /\ Len(nodes) <= Len(d.nodes) /\ \A j \in DOMAIN nodes : Grown(d, j)
      /\ Chained(d)
  BY DEF Follows, Reading
<1>2. Pending' = Pending /\ OpenNodes' = OpenNodes /\ Innermost' = Innermost
  BY DEF Pending, OpenNodes, Innermost
<1>3. \A j \in DOMAIN nodes' : Grown(d, j)'
  BY <1>1, <1>2 DEF Grown
<1>4. Chained(d)'
  BY <1>1, <1>2 DEF Chained, NextKid
<1>5. Placed(d)'
  <2> DEFINE s == IF cur # 0 THEN d.string[cur] ELSE d.key[Innermost][Len(nodes[Innermost].kids) + 1]
  <2>1. Spelling(d) = s
    BY DEF Spelling, NextKey
  <2>2. s = IF cur' # 0 THEN d.string[cur'] ELSE d.key[Innermost'][Len(nodes'[Innermost'].kids) + 1]
    BY <1>2
  <2> HIDE DEF s
  <2>3. \E m \in DOMAIN s.at : pos' = s.at[m] /\ str' = s.got[m]
    BY <2>1
  <2> QED
    BY <2>2, <2>3 DEF Placed, Spelling, NextKey
<1> QED
  BY <1>1, <1>3, <1>4, <1>5 DEF Follows

\* In a string the reader does what the next character says.
LEMMA InString ==
  ASSUME doing = "string", Parse
  PROVE  \/ StringChar /\ At(pos) \notin {0, Quote, Backslash}
         \/ StringEscape /\ At(pos) = Backslash /\ At(pos + 1) # Letter_u
         \/ StringCode /\ At(pos) = Backslash /\ At(pos + 1) = Letter_u
         \/ StringCut /\ At(pos) = 0
         \/ StringEnd /\ At(pos) = Quote
<1>1. StringChar \/ StringEscape \/ StringCode \/ StringCut \/ StringEnd
  BY DEF Parse, ParseOpen, ParseString, ParseLiteral, ParseNumber, StoreRoot, StoreMember, ParseKey
<1> QED
  BY <1>1 DEF StringChar, StringEscape, StringCode, StringCut, StringEnd

\* A character or an escape.
LEMMA PieceFollows ==
  ASSUME NEW d, Reading(d), doing = "string", Parse, NEW k \in DOMAIN Spelling(d).at,
         k + 1 \in DOMAIN Spelling(d).at, pos = Spelling(d).at[k], str = Spelling(d).got[k],
         Piece(text, Spelling(d).at[k], Spelling(d).at[k + 1], Spelling(d).got[k], Spelling(d).got[k + 1])
  PROVE  doing' \notin {"exit", "undefined"} /\ Follows(d)'
<1> DEFINE next == Spelling(d).at[k + 1]  more == Spelling(d).got[k + 1]
<1>1. Piece(text, pos, next, str, more)
  OBVIOUS
<1>2. ASSUME UNCHANGED <<text, doing, frames, cur, nodes>>, pos' = next, str' = more
      PROVE  doing' \notin {"exit", "undefined"} /\ Follows(d)'
  BY <1>2, PutFollows
<1> HIDE DEF next, more
<1>3. Quote # 0 /\ Backslash # 0 /\ Quote # Backslash /\ Letter_u \notin DOMAIN Escapes
  BY DEF Quote, Backslash, Letter_u, Escapes
<1>4. CASE At(pos) \notin {0, Quote, Backslash} /\ next = pos + 1 /\ more = str \o <<At(pos)>>
  <2>1. StringChar
    BY <1>4, InString
  <2> QED
    BY <1>2, <1>4, <2>1 DEF StringChar, Put
<1>5. CASE /\ At(pos) = Backslash /\ At(pos + 1) \in DOMAIN Escapes
           /\ next = pos + 2 /\ more = str \o <<Escapes[At(pos + 1)]>>
  <2>1. StringEscape
    BY <1>3, <1>5, InString
  <2> QED
    BY <1>2, <1>5, <2>1 DEF StringEscape, Put
<1>6. CASE /\ At(pos) = Backslash /\ At(pos + 1) = Letter_u
           /\ next = pos + 6 /\ next <= Len(text)
           /\ more = str \o Utf8(Codepoint(SubSeq(text, pos + 3, pos + 6)))
  <2>1. StringCode
    BY <1>3, <1>6, InString
  <2> QED
    BY <1>2, <1>6, <2>1 DEF StringCode, Put
<1> QED
  BY <1>1, <1>4, <1>5, <1>6, CharIs DEF Piece

\* The end of a string that is a value.
LEMMA TextFollows ==
  ASSUME NEW d, Reading(d), doing = "string", cur # 0, StringEnd, pos + 1 = d.to[cur],
         CString(str) = d.nodes[cur].text
  PROVE  doing' \notin {"exit", "undefined"} /\ Follows(d)'
<1>1. /\ cur \in DOMAIN nodes /\ cur \notin OpenNodes /\ nodes[cur] = Made("string")
      /\ IsString(text, d, cur)
  BY SpellingIs
<1>2. /\ nodes' = [nodes EXCEPT ![cur].text = CString(str)] /\ pos' = pos + 1 /\ doing' = "store"
      /\ UNCHANGED <<text, frames, cur, str, strCap, live, todo>>
  BY DEF StringEnd
<1>3. nodes' = [nodes EXCEPT ![cur] = d.nodes[cur]]
  <2>1. [Made("string") EXCEPT !.text = CString(str)] = d.nodes[cur]
    BY <1>1 DEF IsString
  <2> QED
    BY <1>1, <1>2, <2>1
<1>4. /\ DOMAIN nodes' = DOMAIN nodes /\ Len(nodes') = Len(nodes)
      /\ \A j \in DOMAIN nodes : nodes'[j] = IF j = cur THEN d.nodes[cur] ELSE nodes[j]
  <2>1. nodes \in Seq(Node) /\ d.nodes[cur] \in Node
    BY SpellingIs, DerivedIs DEF Reading, JsonInv, TypeJson
  <2>2. Len(nodes') = Len(nodes)
    BY <1>1, <1>3, <2>1, ExceptSeq, LenProperties
  <2> QED
    BY <1>1, <1>3, <2>2
<1>5. /\ Len(nodes) <= Len(d.nodes) /\ \A j \in DOMAIN nodes : Grown(d, j)
      /\ Chained(d) /\ Pending /\ Pending'
  BY <1>2 DEF Follows, Reading, Pending
<1>6. OpenNodes' = OpenNodes /\ Innermost' = Innermost
  BY <1>2 DEF OpenNodes, Innermost
<1>7. \A j \in DOMAIN nodes' : Grown(d, j)'
  <2> TAKE j \in DOMAIN nodes'
  <2>1. CASE j = cur
    BY <1>1, <1>2, <1>4, <1>6, <2>1 DEF Grown
  <2>2. CASE j # cur
    BY <1>2, <1>4, <1>5, <1>6, <2>2 DEF Grown
  <2> QED
    BY <2>1, <2>2
<1>8. Chained(d)'
  <2>1. /\ Len(frames) \in Nat /\ \A j \in 1 .. Len(frames) : frames[j].node \in OpenNodes
        /\ frames # <<>> => Innermost \in OpenNodes
        /\ OpenNodes \subseteq DOMAIN nodes
    BY OpenAre DEF Reading
  <2>2. \A j \in OpenNodes : nodes'[j] = nodes[j]
    BY <1>1, <1>4, <2>1
  <2>3. \A j \in 1 .. Len(frames) - 1 : frames[j].node \in OpenNodes
    BY <2>1
  <2> QED
    BY <1>2, <1>4, <1>5, <1>6, <2>1, <2>2, <2>3 DEF Chained, NextKid
<1>9. Placed(d)'
  BY <1>2 DEF Placed
<1> QED
  BY <1>2, <1>4, <1>5, <1>7, <1>8, <1>9 DEF Follows

\* The end of a key, and the colon behind it.
LEMMA ColonFollows ==
  ASSUME NEW d, Reading(d), doing = "string", cur = 0, StringEnd, pos + 1 = Ends(Spelling(d)),
         CString(str) = d.nodes[Innermost].keys[Len(nodes[Innermost].kids) + 1]
  PROVE  doing' \notin {"exit", "undefined"} /\ Follows(d)'
<1> DEFINE i == Innermost  k == Len(nodes[i].kids) + 1  key == CString(str)
           node == [nodes[i] EXCEPT !.keys = Append(@, key)]
<1>1. /\ frames # <<>> /\ nodes[i].type = "object" /\ IsMember(text, d, i, k)
      /\ Spelling(d) = d.key[i][k]
  BY SpellingIs
<1>2. /\ i \in 1 .. Len(nodes) /\ i \in OpenNodes /\ nodes[i] \in Node /\ nodes[i].type = d.nodes[i].type
      /\ d.nodes[i].kids[k] = Len(nodes) + 1
      /\ \A m \in DOMAIN nodes[i].keys : nodes[i].keys[m] = d.nodes[i].keys[m]
  <2>1. ~Pending
    BY DEF Pending
  <2> QED
    BY <1>1, <2>1, InnermostIs
<1>3. /\ text \in Text /\ key \in Text /\ pos + 1 \in Nat
  BY CStringIs DEF Reading, JsonInv, TypeJson
<1>4. /\ Gap(text, pos + 1, d.colon[i][k]) /\ At(d.colon[i][k]) = Colon
      /\ Gap(text, d.colon[i][k] + 1, d.from[Len(nodes) + 1])
  BY <1>1, <1>2, CharIs DEF IsMember
<1>5. Skip(pos + 1) = d.colon[i][k]
  BY <1>3, <1>4, GapSkip
<1>6. /\ nodes' = [nodes EXCEPT ![i] = node]
      /\ pos' = d.colon[i][k] + 1 /\ doing' = "value"
      /\ UNCHANGED <<text, frames, cur, str, strCap, live, todo>>
  <2>1. Last(frames).node = i
    BY <1>1, TopIs DEF Reading
  <2> QED
    BY <1>4, <1>5, <2>1 DEF StringEnd
<1>7. /\ node \in Node /\ node.type = nodes[i].type /\ node.kids = nodes[i].kids /\ node.text = nodes[i].text
      /\ node.keys = Append(nodes[i].keys, key)
      /\ DOMAIN node.keys = 1 .. Len(nodes[i].keys) + 1 /\ Len(nodes[i].keys) \in Nat
      /\ DOMAIN nodes[i].keys = 1 .. Len(nodes[i].keys)
  <2>1. node.text = nodes[i].text
    BY <1>2 DEF Node
  <2> QED
    BY <1>2, <1>3, <2>1, KeyAppended
<1>8. Len(nodes[i].keys) + 1 = k
  <2>1. i \in DOMAIN nodes /\ Keyless
    BY <1>2, OpenAre DEF Reading, Keyless
  <2> QED
    BY <1>1, <2>1 DEF Reading, KeysInv
<1>9. \A m \in DOMAIN node.keys : node.keys[m] = d.nodes[i].keys[m]
  <2> TAKE m \in DOMAIN node.keys
  <2>1. nodes[i].keys \in Seq(Text)
    BY <1>2 DEF Node
  <2>2. CASE m \in 1 .. Len(nodes[i].keys)
    <3>1. node.keys[m] = nodes[i].keys[m]
      BY <1>3, <1>7, <2>1, <2>2, AppendProperties
    <3> QED
      BY <1>2, <1>7, <2>2, <3>1
  <2>3. CASE m = k
    <3>1. node.keys[m] = key
      BY <1>3, <1>7, <1>8, <2>1, <2>3, AppendProperties
    <3> QED
      BY <2>3, <3>1
  <2> QED
    BY <1>7, <1>8, <2>2, <2>3
<1> HIDE DEF node
<1>10. /\ DOMAIN nodes' = DOMAIN nodes /\ Len(nodes') = Len(nodes)
       /\ \A j \in DOMAIN nodes : nodes'[j] = IF j = i THEN node ELSE nodes[j]
  BY <1>2, <1>6, <1>7, NodeChanged, OpenAre DEF Reading, JsonInv
<1>11. /\ Len(nodes) <= Len(d.nodes) /\ \A j \in DOMAIN nodes : Grown(d, j)
       /\ Chained(d) /\ ~Pending /\ ~Pending'
  BY <1>6 DEF Follows, Reading, Pending
<1>12. OpenNodes' = OpenNodes /\ Innermost' = i
  BY <1>6 DEF OpenNodes, Innermost
<1>13. \A j \in DOMAIN nodes' : Grown(d, j)'
  <2> TAKE j \in DOMAIN nodes'
  <2>0. Grown(d, j)
    BY <1>10, <1>11
  <2>1. CASE j = i
    <3>1. /\ nodes'[j].type = d.nodes[j].type /\ nodes'[j].text = <<>>
          /\ nodes'[j].kids = nodes[j].kids /\ nodes'[j].keys = node.keys
          /\ Len(nodes[j].kids) < Len(d.nodes[j].kids)
          /\ \A m \in DOMAIN nodes[j].kids : nodes[j].kids[m] = d.nodes[j].kids[m]
      BY <1>2, <1>7, <1>10, <2>0, <2>1 DEF Grown
    <3> QED
      BY <1>2, <1>9, <1>12, <2>1, <3>1 DEF Grown
  <2>2. CASE j # i
    <3>1. nodes'[j] = nodes[j] /\ cur # j
      <4>1. Len(nodes) \in Nat /\ DOMAIN nodes = 1 .. Len(nodes)
        BY OpenAre DEF Reading
      <4> QED
        BY <1>10, <2>2, <4>1
    <3> QED
      BY <1>6, <1>12, <2>0, <3>1 DEF Grown
  <2> QED
    BY <2>1, <2>2
<1>14. Chained(d)'
  <2>1. /\ Len(frames) \in Nat /\ \A j \in 1 .. Len(frames) : frames[j].node \in OpenNodes
        /\ frames # <<>> => Innermost \in OpenNodes
        /\ OpenNodes \subseteq DOMAIN nodes
    BY OpenAre DEF Reading
  <2>2. \A j \in OpenNodes : nodes'[j].kids = nodes[j].kids
    BY <1>7, <1>10, <2>1
  <2>3. \A j \in 1 .. Len(frames) - 1 : frames[j].node \in OpenNodes
    BY <2>1
  <2> QED
    BY <1>6, <1>10, <1>11, <1>12, <2>1, <2>2, <2>3 DEF Chained, NextKid
<1>15. Placed(d)'
  BY <1>4, <1>6, <1>10 DEF Placed
<1> QED
  BY <1>6, <1>10, <1>11, <1>13, <1>14, <1>15 DEF Follows

\* A step in a string.
LEMMA StringFollows ==
  ASSUME NEW d, Reading(d), doing = "string", Parse
  PROVE  doing' \notin {"exit", "undefined"} /\ Follows(d)'
<1> DEFINE s == Spelling(d)
<1>1. PICK meant : /\ Spells(text, s, meant)
                   /\ cur # 0 => meant = d.nodes[cur].text /\ d.to[cur] = Ends(s)
                   /\ cur = 0 => meant = d.nodes[Innermost].keys[Len(nodes[Innermost].kids) + 1]
  <2>1. CASE cur # 0
    BY <2>1, SpellingIs DEF IsString
  <2>2. CASE cur = 0
    BY <2>2, SpellingIs
  <2> QED
    BY <2>1, <2>2
<1>2. PICK k \in DOMAIN s.at : pos = s.at[k] /\ str = s.got[k]
  BY DEF Reading, Follows, Placed
<1>3. /\ Len(s.at) \in Nat /\ DOMAIN s.at = 1 .. Len(s.at)
      /\ \A m \in 1 .. Len(s.at) - 1 : Piece(text, s.at[m], s.at[m + 1], s.got[m], s.got[m + 1])
      /\ At(s.at[Len(s.at)]) = Quote /\ meant = CString(s.got[Len(s.at)])
  BY <1>1, SpellsIs, CharIs
<1>4. CASE k # Len(s.at)
  <2>1. k \in 1 .. Len(s.at) - 1 /\ k + 1 \in DOMAIN s.at
    BY <1>2, <1>3, <1>4
  <2>2. Piece(text, s.at[k], s.at[k + 1], s.got[k], s.got[k + 1])
    BY <1>3, <2>1
  <2> QED
    BY <1>2, <2>1, <2>2, PieceFollows
<1>5. CASE k = Len(s.at)
  <2>1. StringEnd
    BY <1>2, <1>3, <1>5, InString DEF Quote, Backslash
  <2>2. pos + 1 = Ends(s) /\ CString(str) = meant
    BY <1>2, <1>3, <1>5 DEF Ends
  <2>3. CASE cur # 0
    BY <1>1, <2>1, <2>2, <2>3, TextFollows
  <2>4. CASE cur = 0
    BY <1>1, <2>1, <2>2, <2>4, ColonFollows
  <2> QED
    BY <2>3, <2>4
<1> QED
  BY <1>4, <1>5

--------------------------------------------------------------------------------
(* ... what stands behind a value *)

\* With the last value complete the derivation is read.
LEMMA RootFollows ==
  ASSUME NEW d, Reading(d), doing = "store", frames = <<>>, Parse
  PROVE  doing' \notin {"exit", "undefined"} /\ Follows(d)'
<1>1. StoreRoot
  BY DEF Parse, ParseOpen, ParseString, ParseLiteral, ParseNumber, StoreMember, ParseKey,
         StringChar, StringEscape, StringCode, StringCut, StringEnd
<1>2. pos' = Skip(pos) /\ doing' = "done" /\ UNCHANGED <<text, frames, cur, str, strCap, nodes, live, todo>>
  BY <1>1 DEF StoreRoot
<1>3. /\ nodes \in Seq(Node) /\ Len(nodes) \in Nat /\ DOMAIN nodes = 1 .. Len(nodes)
  BY OpenAre DEF Reading, JsonInv, TypeJson
<1>4. Pending /\ cur = 1
  <2>1. Pending /\ cur \in DOMAIN nodes
    BY DEF Reading, NestInv, Pending
  <2>2. nodes # <<>>
    BY <1>3, <2>1
  <2> QED
    BY <2>1, <2>2, NestIs DEF Reading
<1>5. d.nodes \in Seq(Node) /\ d.next[1] = Len(d.nodes) + 1 /\ Len(d.nodes) \in Nat
  BY DerivedIs DEF Reading, Derives
<1>6. Len(nodes) = Len(d.nodes)
  <2>1. d.next[cur] = Len(nodes) + 1
    BY <1>4 DEF Reading, Follows, Chained
  <2> QED
    BY <1>3, <1>4, <1>5, <2>1
<1>7. \A i \in DOMAIN nodes : nodes[i] = d.nodes[i]
  <2>1. OpenNodes = {}
    <3>1. DOMAIN frames = {}
      OBVIOUS
    <3> QED
      BY <3>1 DEF OpenNodes
  <2> QED
    BY <2>1 DEF Reading, Follows, Grown
<1>8. nodes = d.nodes
  <2>1. \A i \in 1 .. Len(nodes) : nodes[i] = d.nodes[i]
    BY <1>3, <1>7
  <2> QED
    BY <1>3, <1>5, <1>6, <2>1, SeqEqual
<1>9. OpenNodes' = OpenNodes /\ ~Pending'
  BY <1>2 DEF OpenNodes, Pending
<1>10. \A i \in DOMAIN nodes' : Grown(d, i)'
  <2>1. \A i \in DOMAIN nodes : Grown(d, i)
    BY DEF Reading, Follows
  <2> QED
    BY <1>2, <1>9, <2>1 DEF Grown
<1>11. Chained(d)'
  <2>1. frames' = <<>> /\ \A j \in 1 .. Len(frames') - 1 : FALSE
    <3>1. Len(frames') = 0
      BY <1>2
    <3> QED
      BY <1>2, <3>1
  <2> QED
    BY <1>9, <2>1 DEF Chained
<1>12. Placed(d)'
  BY <1>2, <1>8 DEF Placed
<1> QED
  BY <1>2, <1>6, <1>10, <1>11, <1>12, <1>5 DEF Follows

\* What stands behind a value in an array or object, and what comes of it.
LEMMA MemberEnds ==
  ASSUME NEW d, Reading(d), doing = "store", frames # <<>>, Parse
  PROVE  LET i == Innermost
             k == Len(nodes[i].kids) + 1
             n == Len(d.nodes[i].kids)
         IN  /\ nodes' = [nodes EXCEPT ![i].kids = Append(@, cur)]
             /\ UNCHANGED <<text, str, strCap, live, todo>>
             /\ pos' = d.sep[i][k] + 1
             /\ k # n => /\ \E cap \in Nat : frames' = [frames EXCEPT ![Len(frames)].cap = cap]
                         /\ doing' = (IF nodes[i].type = "object" THEN "key" ELSE "value")
                         /\ cur' = cur
             /\ k = n => frames' = Front(frames) /\ doing' = "store" /\ cur' = i
<1> DEFINE i == Innermost  k == Len(nodes[i].kids) + 1  n == Len(d.nodes[i].kids)
           cap == Doubled(Last(frames).cap, Len(nodes[i].kids) >= Last(frames).cap)
           at == Skip(pos)
<1>1. StoreMember
  BY DEF Parse, ParseOpen, ParseString, ParseLiteral, ParseNumber, StoreRoot, ParseKey,
         StringChar, StringEscape, StringCode, StringCut, StringEnd
<1>2. Pending
  BY DEF Pending
<1>3. /\ nodes[i].type \in {"object", "array"} /\ nodes[i].type = d.nodes[i].type
      /\ IsMember(text, d, i, k) /\ d.nodes[i].kids[k] = cur /\ k \in 1 .. n
  BY <1>2, InnermostIs
<1>4. n \in Nat
  <2>1. i \in DOMAIN d.nodes
    BY InnermostIs
  <2> QED
    BY <2>1, DerivedIs DEF Reading
<1>5. text \in Text /\ pos \in Nat /\ pos = d.to[cur]
  BY DEF Reading, JsonInv, TypeJson, Follows, Placed
<1>6. /\ Gap(text, pos, d.sep[i][k])
      /\ At(d.sep[i][k]) = IF k < n THEN Comma ELSE Closed[nodes[i].type]
  BY <1>3, <1>5, CharIs DEF IsMember
<1>7. at = d.sep[i][k]
  BY <1>5, <1>6, GapSkip
<1>8. Last(frames).node = i
  BY TopIs DEF Reading
<1>9. /\ nodes' = [nodes EXCEPT ![i].kids = Append(@, cur)]
      /\ \/ /\ At(at) = Comma
            /\ frames' = [frames EXCEPT ![Len(frames)].cap = cap]
            /\ doing' = IF nodes[i].type = "object" THEN "key" ELSE "value"
            /\ pos' = at + 1 /\ cur' = cur
         \/ /\ At(at) = Closed[nodes[i].type]
            /\ frames' = Front(frames)
            /\ doing' = "store" /\ cur' = i /\ pos' = at + 1
         \/ /\ At(at) \notin {Comma, Closed[nodes[i].type]}
            /\ frames' = [frames EXCEPT ![Len(frames)].cap = cap]
            /\ doing' = "exit" /\ pos' = at /\ cur' = cur
      /\ UNCHANGED <<text, str, strCap, live, todo>>
  BY <1>1, <1>8 DEF StoreMember
<1>10. cap \in Nat
  <2>1. Last(frames).cap \in Nat
    BY TopIs DEF Reading
  <2> QED
    BY <2>1 DEF Doubled
<1> HIDE DEF cap, at, k, n
<1>11. Closed[nodes[i].type] # Comma
  BY <1>3, Starts DEF Comma
<1>12. CASE k = n
  BY <1>4, <1>6, <1>7, <1>9, <1>11, <1>12 DEF k, n
<1>13. CASE k # n
  <2>1. k < n
    BY <1>3, <1>4, <1>13
  <2> QED
    BY <1>6, <1>7, <1>9, <1>10, <1>11, <1>13, <2>1 DEF k, n
<1> QED
  BY <1>12, <1>13

\* Two values with the same parts are the same.
LEMMA SameNode ==
  ASSUME NEW x \in Node, NEW y \in Node, x.type = y.type, x.text = y.text, x.keys = y.keys, x.kids = y.kids
  PROVE  x = y
BY DEF Node

\* The table of the innermost call with the value in it.
LEMMA MemberTaken ==
  ASSUME NEW d, Reading(d), doing = "store", frames # <<>>,
         nodes' = [nodes EXCEPT ![Innermost].kids = Append(@, cur)]
  PROVE  LET i == Innermost
             k == Len(nodes[i].kids) + 1
         IN  /\ Len(nodes') = Len(nodes) /\ DOMAIN nodes' = DOMAIN nodes
             /\ \A j \in DOMAIN nodes : j # i => nodes'[j] = nodes[j]
             /\ nodes'[i] \in Node /\ nodes'[i].type = d.nodes[i].type /\ nodes'[i].text = <<>>
             /\ nodes'[i].keys = nodes[i].keys
             /\ Len(nodes'[i].kids) = k /\ DOMAIN nodes'[i].kids = 1 .. k
             /\ \A m \in 1 .. k : nodes'[i].kids[m] = d.nodes[i].kids[m]
<1> DEFINE i == Innermost  k == Len(nodes[i].kids) + 1
<1>1. /\ nodes' \in Seq(Node) /\ Len(nodes') = Len(nodes)
      /\ DOMAIN nodes' = 1 .. Len(nodes) /\ DOMAIN nodes' = DOMAIN nodes
      /\ \A j \in 1 .. Len(nodes) :
           /\ nodes'[j].type = nodes[j].type /\ nodes'[j].keys = nodes[j].keys
           /\ j # i => nodes'[j] = nodes[j]
      /\ nodes'[i].kids = Append(nodes[i].kids, cur)
      /\ Append(nodes[i].kids, cur) \in Seq(Nat)
      /\ Len(nodes'[i].kids) = Len(nodes[i].kids) + 1
  BY KidAppended DEF Reading
<1>2. /\ i \in 1 .. Len(nodes) /\ nodes[i].type = d.nodes[i].type /\ nodes[i].text = <<>>
      /\ nodes[i] \in Node /\ k - 1 \in Nat /\ d.nodes[i].kids[k] = cur
      /\ \A m \in DOMAIN nodes[i].kids : nodes[i].kids[m] = d.nodes[i].kids[m]
  BY InnermostIs DEF Pending
<1>3. nodes[i].kids \in Seq(Nat) /\ cur \in Nat /\ DOMAIN nodes[i].kids = 1 .. k - 1
  <2>1. nodes[i].kids \in Seq(Nat)
    BY <1>2 DEF Node
  <2>2. DOMAIN nodes[i].kids = 1 .. Len(nodes[i].kids) /\ Len(nodes[i].kids) \in Nat
    BY <2>1, LenProperties
  <2>3. cur \in Nat
    BY NodesAre DEF Reading, JsonInv, TypeJson
  <2> QED
    BY <2>1, <2>2, <2>3
<1>4. nodes'[i].text = nodes[i].text
  <2>1. i \in DOMAIN nodes
    BY <1>1, <1>2
  <2> QED
    BY <1>2, <2>1 DEF Node
<1>5. nodes'[i] \in Node
  BY <1>1, <1>2, ElementOfSeq
<1>6. DOMAIN nodes'[i].kids = 1 .. k
  BY <1>1, LenProperties
<1>7. \A m \in 1 .. k : nodes'[i].kids[m] = d.nodes[i].kids[m]
  <2> TAKE m \in 1 .. k
  <2>1. CASE m \in 1 .. k - 1
    <3>1. m \in 1 .. Len(nodes[i].kids)
      BY <1>2, <2>1
    <3>2. nodes'[i].kids[m] = nodes[i].kids[m]
      BY <1>1, <1>3, <3>1, AppendProperties
    <3> QED
      BY <1>2, <1>3, <2>1, <3>2
  <2>2. CASE m = k
    <3>1. nodes'[i].kids[Len(nodes[i].kids) + 1] = cur
      BY <1>1, <1>3, AppendProperties
    <3> QED
      BY <1>2, <2>2, <3>1
  <2> QED
    BY <1>2, <2>1, <2>2
<1> QED
  BY <1>1, <1>2, <1>4, <1>5, <1>6, <1>7

\* A value that is not the last one in its array or object.
LEMMA NextMember ==
  ASSUME NEW d, Reading(d), doing = "store", frames # <<>>,
         nodes' = [nodes EXCEPT ![Innermost].kids = Append(@, cur)],
         text' = text, pos' = d.sep[Innermost][Len(nodes[Innermost].kids) + 1] + 1,
         Len(nodes[Innermost].kids) + 1 # Len(d.nodes[Innermost].kids),
         NEW cap \in Nat, frames' = [frames EXCEPT ![Len(frames)].cap = cap],
         doing' = (IF nodes[Innermost].type = "object" THEN "key" ELSE "value"), cur' = cur
  PROVE  Follows(d)'
<1> DEFINE i == Innermost  k == Len(nodes[i].kids) + 1  n == Len(d.nodes[i].kids)  m == Len(frames)
<1>1. /\ Len(nodes') = Len(nodes) /\ DOMAIN nodes' = DOMAIN nodes
      /\ \A j \in DOMAIN nodes : j # i => nodes'[j] = nodes[j]
      /\ nodes'[i] \in Node /\ nodes'[i].type = d.nodes[i].type /\ nodes'[i].text = <<>>
      /\ nodes'[i].keys = nodes[i].keys
      /\ Len(nodes'[i].kids) = k /\ DOMAIN nodes'[i].kids = 1 .. k
      /\ \A l \in 1 .. k : nodes'[i].kids[l] = d.nodes[i].kids[l]
  BY MemberTaken
<1>2. /\ i \in DOMAIN d.nodes /\ i \in OpenNodes /\ k \in 1 .. n /\ d.nodes[i].kids[k] = cur
      /\ \A l \in DOMAIN nodes[i].keys : nodes[i].keys[l] = d.nodes[i].keys[l]
      /\ IsTable(text, d, i) /\ nodes[i].type = d.nodes[i].type
      /\ nodes[i].type \in {"object", "array"}
  BY InnermostIs DEF Pending
<1>3. /\ n \in Nat /\ DOMAIN d.nodes[i].kids = 1 .. n /\ Numbered(d, i)
  BY <1>2, DerivedIs DEF Reading
<1>0. k # n
  OBVIOUS
<1> HIDE DEF k, n
<1>4. k \in Nat /\ k < n /\ k + 1 \in 1 .. n /\ k + 1 # 1 /\ k + 1 - 1 = k
  BY <1>0, <1>2, <1>3
<1>5. d.next[cur] = Len(nodes) + 1
  BY DEF Reading, Follows, Chained, Pending
<1>6. d.nodes[i].kids[k + 1] = Len(nodes) + 1
  <2>1. k + 1 \in DOMAIN d.nodes[i].kids
    BY <1>3, <1>4
  <2>2. d.nodes[i].kids[k + 1] = d.next[d.nodes[i].kids[k + 1 - 1]]
    BY <1>3, <1>4, <2>1 DEF Numbered
  <2> QED
    BY <1>2, <1>4, <1>5, <2>2
<1>7. IsMember(text, d, i, k + 1)
  <2>1. \A l \in 1 .. Len(d.nodes[i].kids) : IsMember(text, d, i, l)
    BY <1>2, Zenon DEF IsTable
  <2> QED
    BY <1>4, <2>1 DEF n
<1>8. /\ Len(frames') = m /\ DOMAIN frames' = 1 .. m /\ m \in 1 .. m /\ m \in Nat
      /\ \A j \in 1 .. m : frames'[j].node = frames[j].node
      /\ DOMAIN frames = 1 .. m
  BY <1>1, CapSet, OpenAre DEF Reading
<1>9. /\ OpenNodes' = OpenNodes /\ Innermost' = i /\ ~Pending' /\ doing' \in {"key", "value"}
  <2>1. doing' \in {"key", "value"}
    OBVIOUS
  <2>2. OpenNodes' = OpenNodes
    BY <1>8 DEF OpenNodes
  <2>3. Innermost' = i
    BY <1>8 DEF Innermost
  <2> QED
    BY <2>1, <2>2, <2>3 DEF Pending
<1>10. \A j \in DOMAIN nodes' : Grown(d, j)'
  <2> TAKE j \in DOMAIN nodes'
  <2>1. CASE j = i
    <3>1. Len(nodes'[i].kids) < Len(d.nodes[i].kids)
      BY <1>1, <1>4 DEF n
    <3>2. \A l \in DOMAIN nodes'[i].kids : nodes'[i].kids[l] = d.nodes[i].kids[l]
      BY <1>1
    <3>3. \A l \in DOMAIN nodes'[i].keys : nodes'[i].keys[l] = d.nodes[i].keys[l]
      BY <1>1, <1>2
    <3>4. i \in OpenNodes' /\ nodes'[i].type = d.nodes[i].type /\ nodes'[i].text = <<>>
      BY <1>1, <1>2, <1>9
    <3> HIDE DEF i
    <3> QED
      BY <2>1, <3>1, <3>2, <3>3, <3>4 DEF Grown
  <2>2. CASE j # i
    <3>1. Grown(d, j) /\ nodes'[j] = nodes[j]
      BY <1>1, <2>2 DEF Reading, Follows
    <3> QED
      BY <1>9, <3>1 DEF Grown
  <2> QED
    BY <2>1, <2>2
<1>11. Chained(d)'
  <2>1. \A j \in 1 .. m - 1 :
          /\ j \in 1 .. m /\ j + 1 \in 1 .. m
          /\ frames[j].node \in DOMAIN nodes /\ frames[j].node # i
    <3>1. \A j \in 1 .. m - 1 : j \in 1 .. m /\ frames[j].node < i
      BY TopIs DEF Reading
    <3>2. \A j \in 1 .. m : frames[j].node \in DOMAIN nodes /\ frames[j].node \in Nat
      BY NodesAre DEF Reading, JsonInv
    <3>3. \A j \in 1 .. m - 1 : j + 1 \in 1 .. m
      BY <1>8
    <3>4. i \in Nat
      BY TopIs DEF Reading
    <3> QED
      BY <3>1, <3>2, <3>3, <3>4
  <2>2. \A j \in 1 .. m - 1 :
          frames[j + 1].node = d.nodes[frames[j].node].kids[Len(nodes[frames[j].node].kids) + 1]
    BY DEF Reading, Follows, Chained, NextKid
  <2>3. \A j \in 1 .. m - 1 :
          frames'[j + 1].node = d.nodes[frames'[j].node].kids[Len(nodes'[frames'[j].node].kids) + 1]
    <3> TAKE j \in 1 .. m - 1
    <3>1. frames'[j].node = frames[j].node /\ frames'[j + 1].node = frames[j + 1].node
      BY <1>8, <2>1
    <3>2. nodes'[frames[j].node] = nodes[frames[j].node]
      BY <1>1, <2>1
    <3> QED
      BY <2>2, <3>1, <3>2
  <2>4. d.nodes[i].kids[Len(nodes'[i].kids) + 1] = Len(nodes') + 1
    BY <1>1, <1>6
  <2> QED
    BY <1>8, <1>9, <2>3, <2>4 DEF Chained, NextKid
<1>12. Placed(d)'
  <2>1. CASE nodes[i].type = "object"
    <3>1. Gap(text, d.sep[i][k + 1 - 1] + 1, Begins(d.key[i][k + 1]))
      BY <1>2, <1>7, <2>1 DEF IsMember
    <3>2. Gap(text', pos', Begins(d.key[i][k + 1]))
      BY <1>4, <3>1 DEF k
    <3>3. doing' = "key"
      BY <2>1
    <3> QED
      BY <1>1, <1>9, <3>2, <3>3 DEF Placed, NextKey
  <2>2. CASE nodes[i].type # "object"
    <3>1. Gap(text, d.sep[i][k + 1 - 1] + 1, d.from[d.nodes[i].kids[k + 1]])
      BY <1>2, <1>7, <2>2 DEF IsMember
    <3>2. Gap(text', pos', d.from[Len(nodes') + 1])
      BY <1>1, <1>4, <1>6, <3>1 DEF k
    <3>3. doing' = "value"
      BY <2>2
    <3> QED
      BY <3>2, <3>3 DEF Placed
  <2> QED
    BY <2>1, <2>2
<1>13. Len(nodes') <= Len(d.nodes)
  BY <1>1 DEF Reading, Follows
<1> QED
  BY <1>10, <1>11, <1>12, <1>13 DEF Follows

\* Which values are open when the innermost is no longer.
LEMMA OpenLess ==
  ASSUME JsonInv, frames # <<>>, frames' = Front(frames), DOMAIN nodes' = DOMAIN nodes
  PROVE  \A j : j \in OpenNodes' <=> j \in OpenNodes /\ j # Innermost
<1> DEFINE m == Len(frames)
<1>1. /\ DOMAIN frames' = 1 .. m - 1
      /\ \A j \in 1 .. m - 1 : frames'[j] = frames[j]
  BY FrontIs
<1>2. /\ m \in Nat /\ m \in 1 .. m /\ DOMAIN frames = 1 .. m
      /\ \A j, l \in 1 .. m : j < l => frames[j].node < frames[l].node
      /\ \A j \in 1 .. m : frames[j].node \in OpenNodes
      /\ OpenNodes \subseteq 1 .. Len(nodes) /\ Len(nodes) \in Nat
  BY OpenAre
<1>3. Innermost = frames[m].node
  BY DEF Innermost
<1>4. OpenNodes = {frames[j].node : j \in 1 .. m}
  BY <1>2 DEF OpenNodes
<1>5. OpenNodes' = {frames'[j].node : j \in 1 .. m - 1}
  BY <1>1 DEF OpenNodes
<1> HIDE DEF m
<1>6. \A l \in 1 .. m - 1 : /\ l \in 1 .. m /\ frames'[l].node = frames[l].node
                            /\ frames[l].node # Innermost
  <2> TAKE l \in 1 .. m - 1
  <2>1. l \in 1 .. m /\ l < m
    <3>1. m \in Nat
      BY <1>2
    <3> QED
      BY <3>1
  <2>2. frames[l].node < frames[m].node /\ frames[l].node \in Nat /\ frames[m].node \in Nat
    <3>1. frames[l].node < frames[m].node
      BY <1>2, <2>1
    <3>2. frames[l].node \in 1 .. Len(nodes) /\ frames[m].node \in 1 .. Len(nodes)
      BY <1>2, <2>1
    <3>3. Len(nodes) \in Nat
      BY <1>2
    <3> QED
      BY <3>1, <3>2, <3>3
  <2> QED
    BY <1>1, <1>3, <2>1, <2>2
<1> TAKE j
<1>7. ASSUME j \in OpenNodes' PROVE j \in OpenNodes /\ j # Innermost
  <2>1. PICK l \in 1 .. m - 1 : j = frames'[l].node
    BY <1>5, <1>7
  <2> QED
    BY <1>2, <1>6, <2>1
<1>8. ASSUME j \in OpenNodes, j # Innermost PROVE j \in OpenNodes'
  <2>1. PICK l \in 1 .. m : j = frames[l].node
    BY <1>4, <1>8
  <2>2. l \in 1 .. m - 1
    BY <1>2, <1>3, <1>8, <2>1
  <2> QED
    BY <1>5, <1>6, <2>1, <2>2
<1> QED
  BY <1>7, <1>8

\* The value that completes its array or object.
LEMMA LastMember ==
  ASSUME NEW d, Reading(d), doing = "store", frames # <<>>,
         nodes' = [nodes EXCEPT ![Innermost].kids = Append(@, cur)],
         text' = text, pos' = d.sep[Innermost][Len(nodes[Innermost].kids) + 1] + 1,
         Len(nodes[Innermost].kids) + 1 = Len(d.nodes[Innermost].kids),
         frames' = Front(frames), doing' = "store", cur' = Innermost
  PROVE  Follows(d)'
<1> DEFINE i == Innermost  k == Len(nodes[i].kids) + 1  n == Len(d.nodes[i].kids)  m == Len(frames)
<1>1. /\ Len(nodes') = Len(nodes) /\ DOMAIN nodes' = DOMAIN nodes
      /\ \A j \in DOMAIN nodes : j # i => nodes'[j] = nodes[j]
      /\ nodes'[i] \in Node /\ nodes'[i].type = d.nodes[i].type /\ nodes'[i].text = <<>>
      /\ nodes'[i].keys = nodes[i].keys
      /\ Len(nodes'[i].kids) = k /\ DOMAIN nodes'[i].kids = 1 .. k
      /\ \A l \in 1 .. k : nodes'[i].kids[l] = d.nodes[i].kids[l]
  BY MemberTaken
<1>2. /\ i \in DOMAIN d.nodes /\ i \in OpenNodes /\ k \in 1 .. n /\ d.nodes[i].kids[k] = cur
      /\ i \in DOMAIN nodes
      /\ \A l \in DOMAIN nodes[i].keys : nodes[i].keys[l] = d.nodes[i].keys[l]
      /\ IsTable(text, d, i) /\ nodes[i].type = d.nodes[i].type /\ nodes[i] \in Node
      /\ nodes[i].type \in {"object", "array"}
  BY InnermostIs, OpenAre DEF Pending, Reading
<1>3. /\ d.nodes[i] \in Node /\ n \in Nat /\ DOMAIN d.nodes[i].kids = 1 .. n /\ Numbered(d, i)
  BY <1>2, DerivedIs DEF Reading
<1>4. k = n
  OBVIOUS
<1>5. d.next[cur] = Len(nodes) + 1
  BY DEF Reading, Follows, Chained, Pending
<1>6. d.next[i] = Len(nodes) + 1
  <2>1. d.nodes[i].kids # <<>>
    BY <1>2, <1>3
  <2>2. d.next[i] = d.next[d.nodes[i].kids[n]]
    BY <2>1, <1>3 DEF Numbered
  <2> QED
    BY <1>2, <1>4, <1>5, <2>2
<1>7. /\ d.nodes[i].text = <<>> /\ d.to[i] = d.sep[i][n] + 1
      /\ Len(d.nodes[i].keys) = IF d.nodes[i].type = "object" THEN n ELSE 0
  <2>1. n # 0
    BY <1>2, <1>3
  <2> QED
    BY <1>2, <2>1 DEF IsTable
<1>8. nodes'[i] = d.nodes[i]
  <2>1. nodes'[i].kids = d.nodes[i].kids
    <3>1. nodes'[i].kids \in Seq(Nat) /\ d.nodes[i].kids \in Seq(Nat)
      BY <1>1, <1>3 DEF Node
    <3>2. PICK x \in Seq(Nat), y \in Seq(Nat) : x = nodes'[i].kids /\ y = d.nodes[i].kids
      BY <3>1
    <3>3. Len(x) = Len(y) /\ \A l \in 1 .. Len(x) : x[l] = y[l]
      BY <1>1, <1>4, <3>2
    <3> QED
      BY <3>2, <3>3, SeqEqual
  <2>2. nodes[i].keys = d.nodes[i].keys
    <3>1. nodes[i].keys \in Seq(Text) /\ d.nodes[i].keys \in Seq(Text)
      BY <1>2, <1>3 DEF Node
    <3>2. Len(nodes[i].keys) = Len(d.nodes[i].keys)
      <4>1. ~Keyless
        BY DEF Keyless
      <4>2. nodes[i].type = "object" => Len(nodes[i].keys) = Len(nodes[i].kids) + 1
        BY <1>2, <4>1 DEF Reading, KeysInv
      <4>3. nodes[i].type # "object" => Len(nodes[i].keys) = 0
        BY <1>2 DEF Reading, KeysInv
      <4> QED
        BY <1>2, <1>4, <1>7, <4>2, <4>3
    <3>3. DOMAIN nodes[i].keys = 1 .. Len(nodes[i].keys)
      BY <3>1, LenProperties
    <3> QED
      BY <1>2, <3>1, <3>2, <3>3, SeqEqual
  <2> QED
    BY <1>1, <1>3, <1>7, <2>1, <2>2, SameNode
<1>9. /\ \A j : j \in OpenNodes' <=> j \in OpenNodes /\ j # i
      /\ Pending'
  BY <1>1, OpenLess DEF Reading, Pending
<1>10. \A j \in DOMAIN nodes' : Grown(d, j)'
  <2> TAKE j \in DOMAIN nodes'
  <2>1. CASE j = i
    BY <1>8, <1>9, <2>1 DEF Grown
  <2>2. CASE j # i
    <3>1. Grown(d, j) /\ nodes'[j] = nodes[j] /\ (j \in OpenNodes' <=> j \in OpenNodes)
      BY <1>1, <1>9, <2>2 DEF Reading, Follows
    <3> QED
      BY <3>1 DEF Grown
  <2> QED
    BY <2>1, <2>2
<1>11. Chained(d)'
  <2>1. /\ Len(frames') = m - 1 /\ DOMAIN frames' = 1 .. m - 1
        /\ \A j \in 1 .. m - 1 : frames'[j] = frames[j]
    BY <1>1, FrontIs DEF Reading
  <2>2. m \in Nat /\ m \in 1 .. m
    BY OpenAre DEF Reading
  <2>3. \A j \in 1 .. m - 1 : nodes'[frames[j].node] = nodes[frames[j].node]
    <3>1. \A j \in 1 .. m - 1 : j \in 1 .. m /\ frames[j].node < i
      BY TopIs DEF Reading
    <3>2. \A j \in 1 .. m : frames[j].node \in DOMAIN nodes /\ frames[j].node \in Nat
      BY NodesAre DEF Reading, JsonInv
    <3>3. i \in Nat
      BY TopIs DEF Reading
    <3> QED
      BY <1>1, <3>1, <3>2, <3>3
  <2>4. \A j \in 1 .. m - 1 :
          frames[j + 1].node = d.nodes[frames[j].node].kids[Len(nodes[frames[j].node].kids) + 1]
    BY DEF Reading, Follows, Chained, NextKid
  <2> HIDE DEF m
  <2>5. \A j \in 1 .. m - 1 - 1 :
          frames'[j + 1].node = d.nodes[frames'[j].node].kids[Len(nodes'[frames'[j].node].kids) + 1]
    <3> TAKE j \in 1 .. m - 1 - 1
    <3>1. j \in 1 .. m - 1 /\ j + 1 \in 1 .. m - 1
      BY <2>2
    <3>2. /\ frames'[j + 1].node = frames[j + 1].node /\ frames'[j].node = frames[j].node
          /\ nodes'[frames[j].node] = nodes[frames[j].node]
      BY <2>1, <2>3, <3>1
    <3> QED
      BY <2>4, <3>1, <3>2
  <2>6. frames' # <<>> =>
          d.nodes[Innermost'].kids[Len(nodes'[Innermost'].kids) + 1] = cur'
    <3> HAVE frames' # <<>>
    <3>1. m - 1 \in 1 .. m - 1 /\ m - 1 + 1 = m
      <4>1. frames' \in Seq([node : DOMAIN nodes', cap : Nat])
        BY <1>1, FrontIs DEF Reading
      <4>2. Len(frames') # 0
        BY <4>1, EmptySeq
      <4> QED
        BY <2>1, <2>2, <4>2
    <3>2. Innermost' = frames[m - 1].node /\ i = frames[m].node
      BY <2>1, <3>1 DEF Innermost, m
    <3> QED
      BY <2>3, <2>4, <3>1, <3>2
  <2>7. d.next[cur'] = Len(nodes') + 1
    BY <1>1, <1>6
  <2> QED
    BY <1>9, <2>1, <2>5, <2>6, <2>7 DEF Chained, NextKid
<1>12. Placed(d)'
  BY <1>4, <1>7 DEF Placed
<1>13. Len(nodes') <= Len(d.nodes)
  BY <1>1 DEF Reading, Follows
<1> QED
  BY <1>10, <1>11, <1>12, <1>13 DEF Follows

\* A value is complete.
LEMMA StoreFollows ==
  ASSUME NEW d, Reading(d), doing = "store", Parse
  PROVE  doing' \notin {"exit", "undefined"} /\ Follows(d)'
<1>1. CASE frames = <<>>
  BY <1>1, RootFollows
<1>2. CASE frames # <<>>
  <2> DEFINE i == Innermost  k == Len(nodes[i].kids) + 1  n == Len(d.nodes[i].kids)
  <2>1. /\ nodes' = [nodes EXCEPT ![i].kids = Append(@, cur)]
        /\ UNCHANGED <<text, str, strCap, live, todo>>
        /\ pos' = d.sep[i][k] + 1
        /\ k # n => /\ \E cap \in Nat : frames' = [frames EXCEPT ![Len(frames)].cap = cap]
                    /\ doing' = (IF nodes[i].type = "object" THEN "key" ELSE "value")
                    /\ cur' = cur
        /\ k = n => frames' = Front(frames) /\ doing' = "store" /\ cur' = i
    BY <1>2, MemberEnds, Zenon
  <2>2. CASE k = n
    BY <1>2, <2>1, <2>2, LastMember
  <2>3. CASE k # n
    <3>1. PICK cap \in Nat : frames' = [frames EXCEPT ![Len(frames)].cap = cap]
      BY <2>1, <2>3
    <3>2. doing' \in {"key", "value"}
      BY <2>1, <2>3
    <3>3. Follows(d)'
      BY <1>2, <2>1, <2>3, <3>1, NextMember
    <3> QED
      BY <3>2, <3>3
  <2> QED
    BY <2>2, <2>3
<1> QED
  BY <1>1, <1>2

\* Every step of the parser follows the derivation, and none ends the process.
LEMMA ParseFollows ==
  ASSUME NEW d, Reading(d), Parse
  PROVE  doing' \notin {"exit", "undefined"} /\ Follows(d)'
<1>1. doing \in {"value", "key", "string", "store"}
  BY DEF Parse, ParseOpen, ParseString, ParseLiteral, ParseNumber, StoreRoot, StoreMember, ParseKey,
         StringChar, StringEscape, StringCode, StringCut, StringEnd
<1> QED
  BY <1>1, ValueFollows, KeyFollows, StringFollows, StoreFollows

--------------------------------------------------------------------------------
(* The answer is read as it was written *)

\* Nothing is read before there is an answer, which is what has come.
LEMMA AnswerKept ==
  ASSUME IInv, AnswerInv, [Next]_vars
  PROVE  AnswerInv'
<1>1. /\ answer.body \in Text /\ resp \in Text
      /\ Len(answer.body) \in Nat /\ Len(resp) \in Nat
  <2>1. answer \in Answers /\ resp \in Text
    BY DEF IInv, MainTypes
  <2>2. answer.body \in Text
    BY <2>1, AnswerAssumption
  <2> QED
    BY <2>1, <2>2, TextLen DEF IInv, MainTypes
<1>2. CASE WriteCallback
  <2>1. PICK n \in {k \in Pieces : k <= Coming} \cup {Coming} :
          resp' = resp \o SubSeq(answer.body, Len(resp) + 1, Len(resp) + n)
    BY <1>2 DEF WriteCallback
  <2> DEFINE l == Len(answer.body)
             r == Len(resp)
  <2>2. Coming = l - r /\ Coming > 0
    BY <1>2 DEF WriteCallback, Coming
  <2>3. l \in Nat /\ r \in Nat
    BY <1>1
  <2>4. resp = SubSeq(answer.body, 1, r)
    BY DEF AnswerInv
  <2> HIDE DEF l, r
  <2>5. n \in Nat /\ r + n <= l
    BY <2>1, <2>2, <2>3, PieceAssumption
  <2>6. resp' = SubSeq(answer.body, 1, r + n) /\ Len(resp') = r + n
    <3>1. PICK b \in Seq(0 .. 255) : b = answer.body
      BY <1>1 DEF Text
    <3>2. resp' = SubSeq(b, 1, r) \o SubSeq(b, r + 1, r + n)
      BY <2>1, <2>4, <3>1 DEF r
    <3>3. l = Len(b)
      BY <3>1 DEF l
    <3>4. SubSeq(b, 1, r) \o SubSeq(b, r + 1, r + n) = SubSeq(b, 1, r + n)
      <4>1. /\ 1 \in 1 .. Len(b) + 1 /\ r \in 1 - 1 .. Len(b) /\ r + n \in r .. Len(b)
        BY <2>3, <2>5, <3>3
      <4> QED
        BY <4>1, ConcatAdjacentSubSeq, Zenon
    <3>5. Len(SubSeq(b, 1, r + n)) = r + n
      <4>1. r + n \in Nat /\ r + n <= Len(b)
        BY <2>3, <2>5, <3>3
      <4> QED
        BY <4>1, SubSeqProperties
    <3> QED
      BY <3>1, <3>2, <3>4, <3>5
  <2>7. pc = "perform" /\ UNCHANGED <<pc, answer, res>>
    BY <1>2 DEF WriteCallback
  <2> QED
    BY <2>5, <2>6, <2>7 DEF AnswerInv, Before, l
<1>3. CASE Performed
  <2>1. /\ pc = "perform" /\ pc' = "result" /\ UNCHANGED <<answer, resp>>
        /\ res' = "failed" \/ (res' = "CURLE_OK" /\ Len(answer.body) - Len(resp) = 0)
    BY <1>3 DEF Performed, Coming
  <2>2. Len(answer.body) - Len(resp) = 0 => resp = answer.body
    <3>1. \A a, b \in Nat : a - b = 0 => b = a
      OBVIOUS
    <3>2. SubSeq(answer.body, 1, Len(answer.body)) = answer.body
      BY <1>1, SubSeqFull DEF Text
    <3> QED
      BY <1>1, <3>1, <3>2 DEF AnswerInv
  <2> QED
    BY <2>1, <2>2 DEF AnswerInv, Before
<1>4. CASE Result
  <2>1. /\ pc = "result" /\ UNCHANGED <<answer, resp, res>>
        /\ pc' = "cleanup" \/ (pc' = "parse" /\ Unparsed(res, resp) = "")
    BY <1>4 DEF Result
  <2>2. Unparsed(res, resp) = "" => res = "CURLE_OK" /\ resp # <<>>
    <3>1. CASE resp = answer.body
      BY <3>1 DEF Unparsed
    <3> QED
      BY DEF Unparsed
  <2> QED
    BY <2>1, <2>2 DEF AnswerInv, Before
<1>5. CASE BuildParams \/ ReadEmail \/ BuildData \/ Sign \/ Encode \/ CurlInit
  <2>1. /\ pc \in Before /\ pc' \in Before \cup {"returned"} /\ UNCHANGED <<answer, resp, res>>
    BY <1>5 DEF BuildParams, ReadEmail, BuildData, Sign, Encode, CurlInit, Holds, Returns, Before
  <2> QED
    BY <2>1 DEF AnswerInv, Before
<1>6. CASE ParseStep
  <2>1. /\ pc = "parse" /\ pc' \in {"exited", "undefined", "parse"} /\ UNCHANGED <<answer, resp, res>>
    BY <1>6 DEF ParseStep
  <2> QED
    BY <2>1 DEF AnswerInv, Before
<1>7. CASE Verdict \/ FreeStep \/ FreeEnd \/ Cleanup
  <2>1. /\ pc \in {"parse", "free", "cleanup"} /\ pc' \in {"free", "undefined", "cleanup", "returned"}
        /\ UNCHANGED <<answer, resp, res>>
    BY <1>7 DEF Verdict, FreeStep, FreeEnd, Cleanup, Returns
  <2> QED
    BY <2>1 DEF AnswerInv, Before
<1>8. CASE UNCHANGED vars
  BY <1>8 DEF vars, clientVars, AnswerInv
<1> QED
  BY <1>2, <1>3, <1>4, <1>5, <1>6, <1>7, <1>8 DEF Next, Own_steps, Waiting

\* json_parse starts at the first character of the answer.
LEMMA FirstFollows ==
  ASSUME NEW d, Derives(text, d)', nodes' = <<>>, frames' = <<>>, pos' = 0, doing' = "value"
  PROVE  Follows(d)'
<1>1. Len(nodes') = 0 /\ DOMAIN nodes' = {} /\ Len(frames') = 0 /\ Len(d.nodes) \in Nat
  BY DEF Derives
<1>2. Gap(text', 0, d.from[1])
  BY DEF Derives
<1>3. Placed(d)'
  BY <1>1, <1>2 DEF Placed
<1>4. Chained(d)'
  BY <1>1 DEF Chained, Pending
<1> QED
  BY <1>1, <1>3, <1>4 DEF Follows

\* A text that spells a value is read along one of its derivations.
LEMMA TreeKept ==
  ASSUME AllSpelled, IInv, AnswerInv, TreeInv, [Next]_vars
  PROVE  TreeInv'
<1>1. CASE Result
  <2>1. /\ pc = "result" /\ UNCHANGED <<answer, resp, res>>
        /\ \/ pc' = "cleanup" /\ UNCHANGED jsonVars
           \/ pc' = "parse" /\ Unparsed(res, resp) = "" /\ ParseStart(resp)
    BY <1>1 DEF Result
  <2>2. doing = "nothing" /\ nodes = <<>> /\ frames = <<>>
    BY <2>1 DEF IInv, StageInv
  <2>3. CASE pc' = "cleanup" /\ UNCHANGED jsonVars
    BY <2>2, <2>3 DEF TreeInv, Parsing, jsonVars
  <2>4. CASE pc' = "parse" /\ Unparsed(res, resp) = "" /\ ParseStart(resp)
    <3>1. resp = answer.body
      BY <2>4 DEF Unparsed, AnswerInv
    <3>2. /\ text' = answer.body /\ nodes' = <<>> /\ frames' = <<>> /\ pos' = 0 /\ doing' = "value"
          /\ answer' = answer /\ answer \in Answers
      BY <2>1, <2>2, <2>4, <3>1 DEF ParseStart, IInv, MainTypes
    <3>3. answer.value # NotJson =>
            \E d : Derives(text', d) /\ answer.value = TreeOf(d.nodes, 1) /\ Follows(d)'
      <4> HAVE answer.value # NotJson
      <4>1. PICK d : Derives(text', d) /\ answer.value = TreeOf(d.nodes, 1)
        BY <3>2 DEF AllSpelled, Spelled
      <4>2. Follows(d)'
        BY <3>2, <4>1, FirstFollows
      <4> QED
        BY <4>1, <4>2
    <3> QED
      BY <2>4, <3>2, <3>3 DEF TreeInv
  <2> QED
    BY <2>1, <2>3, <2>4
<1>2. CASE ParseStep
  <2>1. /\ pc = "parse" /\ Parse /\ UNCHANGED answer
        /\ pc' = CASE doing' = "exit" -> "exited" [] doing' = "undefined" -> "undefined" [] OTHER -> "parse"
    BY <1>2 DEF ParseStep
  <2>2. JsonInv /\ UNCHANGED text /\ doing \in Parsing
    BY <2>1, ParseJson DEF IInv, ReaderInv
  <2>3. CASE answer.value = NotJson
    BY <2>1, <2>2, <2>3 DEF TreeInv, Parsing
  <2>4. CASE answer.value # NotJson
    <3>1. PICK d : Derives(text, d) /\ answer.value = TreeOf(d.nodes, 1) /\ Follows(d)
      BY <2>1, <2>4 DEF TreeInv
    <3>2. Reading(d)
      BY <2>2, <3>1 DEF Reading, IInv, ReaderInv, ParseInv
    <3>3. doing' \notin {"exit", "undefined"} /\ Follows(d)'
      BY <2>1, <3>2, ParseFollows
    <3>4. pc' = "parse"
      BY <2>1, <3>3
    <3> QED
      BY <2>1, <2>2, <2>4, <3>1, <3>3, <3>4 DEF TreeInv
  <2> QED
    BY <2>3, <2>4
<1>3. CASE FreeStep
  <2>1. pc = "free" /\ Free /\ pc' \in {"free", "undefined"} /\ UNCHANGED answer
    BY <1>3 DEF FreeStep
  <2>2. doing' = "free"
    BY <2>1, FreeFree DEF IInv, ReaderInv, JsonInv
  <2> QED
    BY <2>1, <2>2 DEF TreeInv, Parsing
<1>4. CASE Verdict
  <2>1. pc' = "free" /\ doing' = "free" /\ UNCHANGED answer
    BY <1>4 DEF Verdict, FreeStart
  <2> QED
    BY <2>1 DEF TreeInv, Parsing
<1>5. CASE BuildParams \/ ReadEmail \/ BuildData \/ Sign \/ Encode \/ CurlInit \/ WriteCallback \/ Performed
  <2>1. /\ pc \in Before /\ pc' \in Before \cup {"result", "returned"} /\ UNCHANGED <<answer, doing>>
    BY <1>5 DEF BuildParams, ReadEmail, BuildData, Sign, Encode, CurlInit, WriteCallback, Performed,
                Holds, Returns, Before, jsonVars
  <2>2. doing = "nothing"
    BY <2>1 DEF IInv, StageInv, Before
  <2> QED
    BY <2>1, <2>2 DEF TreeInv, Parsing, Before
<1>6. CASE FreeEnd \/ Cleanup
  <2>1. /\ pc \in {"free", "cleanup"} /\ pc' \in {"cleanup", "returned"} /\ UNCHANGED <<answer, doing>>
    BY <1>6 DEF FreeEnd, Cleanup, Returns, jsonVars
  <2> QED
    BY <2>1 DEF TreeInv
<1>7. CASE UNCHANGED vars
  <2>1. UNCHANGED <<text, pos, doing, frames, cur, str, strCap, nodes, pc, answer>>
    BY <1>7 DEF vars, jsonVars, clientVars
  <2>2. \A d : Follows(d) => Follows(d)'
    <3> TAKE d
    <3>1. OpenNodes' = OpenNodes /\ Innermost' = Innermost /\ Pending' = Pending
      BY <2>1 DEF OpenNodes, Innermost, Pending
    <3>3. NextKid(d, Innermost)' = NextKid(d, Innermost) /\ NextKey(d, Innermost)' = NextKey(d, Innermost)
      BY <2>1, <3>1 DEF NextKid, NextKey
    <3>4. \A i : Grown(d, i) => Grown(d, i)'
      BY <2>1, <3>1 DEF Grown
    <3>5. Chained(d) => Chained(d)'
      BY <2>1, <3>1 DEF Chained, NextKid
    <3>6. Spelling(d)' = Spelling(d)
      BY <2>1, <3>3 DEF Spelling
    <3>7. Placed(d) => Placed(d)'
      BY <2>1, <3>3, <3>6 DEF Placed
    <3> QED
      BY <2>1, <3>4, <3>5, <3>7 DEF Follows
  <2> QED
    BY <2>1, <2>2 DEF TreeInv
<1> QED
  BY <1>1, <1>2, <1>3, <1>4, <1>5, <1>6, <1>7 DEF Next, Own_steps, Waiting

\* What main parses, or says something of, is the answer from its first byte to its
\* last, however it was cut into pieces.
THEOREM Answered == Spec => []AnswerInv
<1>1. Init => AnswerInv
  <2> SUFFICES ASSUME Init PROVE AnswerInv
    OBVIOUS
  <2>1. answer \in Answers /\ pc = "params" /\ resp = <<>> /\ res = "none"
    BY DEF Init
  <2>2. answer.body \in Text
    BY <2>1, AnswerAssumption
  <2>3. Len(answer.body) \in Nat
    BY <2>2, TextLen
  <2>4. SubSeq(answer.body, 1, 0) = <<>> /\ Len(resp) = 0
    BY <2>1, <2>2, SubSeqProperties DEF Text
  <2> QED
    BY <2>1, <2>3, <2>4 DEF AnswerInv, Before
<1>2. IInv /\ AnswerInv /\ [Next]_vars => AnswerInv'
  BY AnswerKept
<1> QED
  BY <1>1, <1>2, Inductive, PTL DEF Spec

\* A text that spells a value is read along one of its derivations; only what is no
\* JSON ends the process.
THEOREM Followed ==
  ASSUME AllSpelled
  PROVE  Spec => []TreeInv
<1>1. Init => TreeInv
  BY DEF Init, InitJson, TreeInv, Parsing
<1>2. IInv /\ AnswerInv /\ TreeInv /\ [Next]_vars => TreeInv'
  BY TreeKept
<1> QED
  BY <1>1, <1>2, Inductive, Answered, PTL DEF Spec

\* What json_parse builds of a text that spells a value is that value: for every
\* answer, however it is delivered, and for all first capacities of strings, tables and
\* numbers.
THEOREM TreeRead ==
  ASSUME AllSpelled
  PROVE  Spec => []TreeAsWritten
<1>1. TreeInv => TreeAsWritten
  BY DEF TreeInv, TreeAsWritten, Parsing, Follows, Placed, Tree
<1> QED
  BY <1>1, Followed, PTL

--------------------------------------------------------------------------------
(* The message, and what is said of it *)

\* The tree below a value is the value with the trees below its kids in their place.
LEMMA TreeStep ==
  ASSUME NEW ns \in Seq(Node), NEW e, Shape(ns, e), NEW i \in DOMAIN ns
  PROVE  TreeOf(ns, i) = [ns[i] EXCEPT !.kids = [k \in DOMAIN ns[i].kids |-> TreeOf(ns, ns[i].kids[k])]]
<1> DEFINE n == Len(ns)
           With(f, j) == [ns[j] EXCEPT !.kids = [k \in DOMAIN ns[j].kids |-> f[ns[j].kids[k]]]]
           Rear(m) == n - m + 1 .. n
           IsTree(f, m) == f = [j \in Rear(m) |-> With(f, j)]
<1>1. n \in Nat /\ DOMAIN ns = 1 .. n
  BY LenProperties
<1>2. \A j \in 1 .. n : \A k \in DOMAIN ns[j].kids : ns[j].kids[k] \in j + 1 .. n
  BY <1>1 DEF Shape, Spans
<1> HIDE DEF n
<1>3. \A m \in 0 .. n : \E f : IsTree(f, m)
  <2> DEFINE U == {m \in 0 .. n : ~\E f : IsTree(f, m)}
  <2>1. \E f : IsTree(f, 0)
    <3> DEFINE f == [j \in Rear(0) |-> 0]
    <3>1. Rear(0) = {}
      BY <1>1
    <3>2. f = [j \in Rear(0) |-> With(f, j)]
      BY <3>1
    <3> QED
      BY <3>2
  <2>2. ASSUME NEW m \in 0 .. n, m < n, \E f : IsTree(f, m)
        PROVE  \E f : IsTree(f, m + 1)
    <3>1. PICK f : IsTree(f, m)
      BY <2>2
    <3> DEFINE g == [j \in Rear(m + 1) |-> With(f, j)]
    <3>2. \A j \in Rear(m + 1) : /\ j \in 1 .. n
                                  /\ \A k \in DOMAIN ns[j].kids : ns[j].kids[k] \in Rear(m)
      <4> TAKE j \in Rear(m + 1)
      <4>1. j \in 1 .. n /\ j >= n - m
        BY <1>1, <2>2
      <4> QED
        BY <1>1, <1>2, <2>2, <4>1
    <3>3. \A j \in Rear(m) : j \in Rear(m + 1) /\ f[j] = With(f, j)
      <4>1. \A j \in Rear(m) : j \in Rear(m + 1)
        BY <1>1, <2>2
      <4> HIDE DEF Rear, With
      <4> QED
        BY <3>1, <4>1
    <3> HIDE DEF Rear
    <3>4. \A j \in Rear(m) : g[j] = f[j]
      BY <3>3
    <3>5. \A j \in Rear(m + 1) : With(g, j) = With(f, j)
      <4> TAKE j \in Rear(m + 1)
      <4> HIDE DEF g
      <4>1. \A k \in DOMAIN ns[j].kids : g[ns[j].kids[k]] = f[ns[j].kids[k]]
        BY <3>2, <3>4
      <4> QED
        BY <4>1
    <3>6. g = [j \in Rear(m + 1) |-> With(g, j)]
      <4> HIDE DEF With
      <4>1. [j \in Rear(m + 1) |-> With(g, j)] = [j \in Rear(m + 1) |-> With(f, j)]
        BY <3>5
      <4> QED
        BY <4>1
    <3> HIDE DEF g, With
    <3> QED
      BY <3>6
  <2>3. ASSUME U # {} PROVE FALSE
    <3>1. U \in SUBSET Nat
      BY <1>1
    <3>2. PICK m \in U : \A l \in U : m <= l
      BY <2>3, <3>1, Numbers!LeastNatural
    <3>3. m \in 0 .. n /\ ~\E f : IsTree(f, m)
      OBVIOUS
    <3> HIDE DEF IsTree
    <3>4. m # 0
      BY <2>1, <3>3
    <3>5. PICK l \in 0 .. n : m = l + 1 /\ l < n
      <4>1. m - 1 \in 0 .. n /\ m = m - 1 + 1 /\ m - 1 < n
        BY <1>1, <3>3, <3>4
      <4> QED
        BY <4>1
    <3>6. l \notin U
      BY <1>1, <3>2, <3>5
    <3>7. \E f : IsTree(f, l)
      BY <3>6
    <3> QED
      BY <2>2, <3>3, <3>5, <3>7
  <2> HIDE DEF IsTree
  <2> QED
    BY <2>3
<1> DEFINE All(f) == f = [j \in DOMAIN ns |-> With(f, j)]
           from == CHOOSE f : All(f)
<1>4. \E f : All(f)
  <2>1. PICK f : IsTree(f, n)
    BY <1>1, <1>3
  <2>2. Rear(n) = DOMAIN ns
    BY <1>1
  <2> HIDE DEF Rear, With
  <2> QED
    BY <2>1, <2>2
<1>5. All(from)
  <2> HIDE DEF All
  <2> QED
    BY <1>4
<1>6. \A j : TreeOf(ns, j) = from[j]
  BY DEF TreeOf
<1> HIDE DEF from
<1>7. from[i] = With(from, i)
  <2> HIDE DEF With
  <2> QED
    BY <1>5
<1> QED
  BY <1>6, <1>7

\* Only a string spells "success".
LEMMA OnlyStrings ==
  ASSUME NEW t \in Text, NEW d, Derives(t, d), NEW i \in DOMAIN d.nodes, d.nodes[i].text = Success
  PROVE  d.nodes[i].type = "string"
<1>1. Success # <<>> /\ Success[1] = 115
  BY DEF Success
<1>2. ~IsLiteral(t, d, i) /\ ~IsTable(t, d, i)
  <2>1. \A type : Made(type).text = <<>>
    BY DEF Made
  <2>2. IsLiteral(t, d, i) => d.nodes[i].text = <<>>
    BY <2>1, Zenon DEF IsLiteral
  <2>3. IsTable(t, d, i) => d.nodes[i].text = <<>>
    BY DEF IsTable
  <2> QED
    BY <1>1, <2>2, <2>3
<1>3. ~IsNumber(t, d, i)
  <2> SUFFICES ASSUME IsNumber(t, d, i) PROVE FALSE
    OBVIOUS
  <2> DEFINE p == d.from[i]  q == d.to[i]
  <2>1. /\ q \in p + 1 .. Len(t) /\ \A k \in p .. q - 1 : Char(t, k) \in NumberChars
        /\ Success = Atof(SubSeq(t, p + 1, q))
    BY DEF IsNumber, Made
  <2>2. p \in Nat /\ Len(t) \in Nat
    BY DerivedIs, TextLen
  <2> HIDE DEF p, q
  <2>3. p \in p .. q - 1 /\ p < Len(t) /\ q \in Nat
    BY <2>1, <2>2
  <2>4. t[p + 1] \in NumberChars
    BY <2>1, <2>3 DEF Char
  <2>5. SubSeq(t, p + 1, q)[1] = t[p + 1]
    <3>1. \A k \in p + 1 .. q : t[k] \in 0 .. 255
      <4>1. \A k \in p + 1 .. q : k \in 1 .. Len(t)
        BY <2>1, <2>2
      <4> QED
        BY <4>1, TextLen
    <3>2. 1 \in 1 .. q - (p + 1) + 1 /\ p + 1 + 1 - 1 = p + 1 /\ p + 1 \in Int /\ q \in Int
      BY <2>1, <2>2, <2>3
    <3>3. SubSeq(t, p + 1, q)[1] = t[p + 1 + 1 - 1]
      BY <3>1, <3>2, SubSeqProperties
    <3> QED
      BY <3>2, <3>3
  <2>6. 115 \notin NumberChars
    BY DEF NumberChars
  <2>7. SubSeq(t, p + 1, q) \in Text
    <3>1. p + 1 \in Nat \ {0} /\ q <= Len(t)
      BY <2>1, <2>2, <2>3
    <3> QED
      BY <2>3, <3>1, SubText
  <2>8. Success # <<>> /\ Success[1] = 115
    BY DEF Success
  <2>9. Success[1] = SubSeq(t, p + 1, q)[1]
    <3> DEFINE chars == SubSeq(t, p + 1, q)
    <3>1. chars \in Text /\ Success = Atof(chars)
      BY <2>1, <2>7
    <3> HIDE DEF chars
    <3>2. Success[1] = chars[1]
      BY <2>8, <3>1, AtofIs
    <3> QED
      BY <3>2 DEF chars
  <2> QED
    BY <2>4, <2>5, <2>6, <2>8, <2>9
<1>4. IsString(t, d, i)
  BY <1>2, <1>3, DerivedIs
<1> QED
  BY <1>4 DEF IsString, Made

\* What main makes of the message is what the server means.
LEMMA MessageIs ==
  ASSUME JsonInv, NestInv, KeysInv, doing = "done", NEW d, Derives(text, d), nodes = d.nodes
  PROVE  LET msg   == Get(1, MessageKey)
             msg_s == IF msg = 0 THEN <<>> ELSE IF nodes[msg].type = "string" THEN nodes[msg].text ELSE <<>>
         IN  msg_s = Success <=> MessageIn(TreeOf(nodes, 1)) = Success
<1>1. /\ nodes \in Seq(Node) /\ 1 \in DOMAIN nodes /\ text \in Text
      /\ \A i \in DOMAIN nodes : nodes[i] \in Node
  BY DerivedIs DEF JsonInv, TypeJson
<1>2. PICK e : Shape(nodes, e)
  BY DEF NestInv
<1> DEFINE root == nodes[1]
           v    == TreeOf(nodes, 1)
           here == {k \in DOMAIN root.keys : root.keys[k] = MessageKey}
           c    == CHOOSE k \in here : \A j \in here : k <= j
<1>3. /\ v.type = root.type /\ v.keys = root.keys
      /\ \A k \in DOMAIN root.kids : v.kids[k].text = nodes[root.kids[k]].text
      /\ \A k \in DOMAIN root.kids : root.kids[k] \in DOMAIN nodes /\ root.kids[k] # 0
  <2>1. v = [root EXCEPT !.kids = [k \in DOMAIN root.kids |-> TreeOf(nodes, root.kids[k])]]
    BY <1>1, <1>2, TreeStep
  <2>2. root \in Node
    BY <1>1
  <2>3. v.type = root.type /\ v.keys = root.keys
        /\ \A k \in DOMAIN root.kids : v.kids[k] = TreeOf(nodes, root.kids[k])
    <3> HIDE DEF v, root
    <3> QED
      BY <2>1, <2>2 DEF Node
  <2>4. \A k \in DOMAIN root.kids : root.kids[k] \in 1 .. Len(nodes)
    <3>1. Len(nodes) \in Nat /\ 1 \in 1 .. Len(nodes)
      BY <1>1, LenProperties
    <3> QED
      BY <1>1, <1>2, <3>1 DEF Shape, Spans
  <2>5. \A j \in DOMAIN nodes : TreeOf(nodes, j).text = nodes[j].text
    <3> TAKE j \in DOMAIN nodes
    <3>1. TreeOf(nodes, j) = [nodes[j] EXCEPT !.kids = [k \in DOMAIN nodes[j].kids |-> TreeOf(nodes, nodes[j].kids[k])]]
      BY <1>1, <1>2, TreeStep
    <3>2. nodes[j] \in Node
      BY <1>1
    <3> QED
      BY <3>1, <3>2 DEF Node
  <2>6. DOMAIN nodes = 1 .. Len(nodes) /\ \A j \in 1 .. Len(nodes) : j # 0
    BY <1>1, LenProperties
  <2> HIDE DEF v, root
  <2> QED
    BY <2>3, <2>4, <2>5, <2>6
<1>4. Success # <<>>
  BY DEF Success
<1>5. MessageIn(v) = IF v.type # "object" \/ here = {} THEN <<>> ELSE v.kids[c].text
  <2> HIDE DEF v, root
  <2> DEFINE ks == IF v.type = "object" THEN {k \in DOMAIN v.keys : v.keys[k] = MessageKey} ELSE {}
  <2>1. MessageIn(v) = IF ks = {} THEN <<>> ELSE v.kids[CHOOSE k \in ks : \A j \in ks : k <= j].text
    BY DEF MessageIn
  <2>2. ks = IF v.type = "object" THEN here ELSE {}
    BY <1>3
  <2> HIDE DEF here, ks
  <2> QED
    BY <2>1, <2>2
<1>6. Get(1, MessageKey) = IF root.type # "object" \/ here = {} THEN 0 ELSE root.kids[c]
  BY DEF Get
<1>7. CASE root.type # "object" \/ here = {}
  <2> HIDE DEF v, root, here, c
  <2> QED
    BY <1>3, <1>4, <1>5, <1>6, <1>7 DEF v
<1>8. CASE root.type = "object" /\ here # {}
  <2>1. c \in DOMAIN root.kids
    <3>1. root \in Node
      BY <1>1
    <3>2. root.keys \in Seq(Text) /\ root.kids \in Seq(Nat)
      BY <3>1 DEF Node
    <3>3. DOMAIN root.keys = 1 .. Len(root.keys) /\ DOMAIN root.kids = 1 .. Len(root.kids)
      BY <3>2, LenProperties
    <3>4. OpenNodes = {}
      <4>1. frames = <<>>
        BY DEF NestInv
      <4> QED
        BY <4>1 DEF OpenNodes
    <3>5. Len(root.keys) = Len(root.kids)
      BY <1>1, <1>8, <3>4 DEF KeysInv
    <3>6. here \in SUBSET Nat /\ here \subseteq DOMAIN root.keys
      BY <3>3
    <3> HIDE DEF here, root
    <3>7. \E k \in here : \A j \in here : k <= j
      BY <1>8, <3>6, Numbers!LeastNatural
    <3>8. c \in here
      BY <3>7
    <3> QED
      BY <3>3, <3>5, <3>6, <3>8
  <2> DEFINE msg == root.kids[c]
  <2>2. msg \in DOMAIN nodes /\ msg # 0 /\ MessageIn(v) = nodes[msg].text /\ Get(1, MessageKey) = msg
    <3> HIDE DEF v, here, root, c
    <3> QED
      BY <1>3, <1>5, <1>6, <1>8, <2>1
  <2>3. nodes[msg].text = Success => nodes[msg].type = "string"
    <3> HIDE DEF msg
    <3> QED
      BY <1>1, <2>2, OnlyStrings
  <2> HIDE DEF msg
  <2> QED
    BY <1>4, <2>2, <2>3
<1> QED
  BY <1>7, <1>8

\* main tells of the request once, and what is to be said.
LEMMA SaidKept ==
  ASSUME IInv, AnswerInv, TreeInv, SaidInv, [Next]_vars
  PROVE  SaidInv'
<1>0. MainTypes
  BY DEF IInv
<1>1. CASE Result
  <2>1. /\ pc = "result" /\ UNCHANGED <<answer, resp, res, status>> /\ said = <<>>
        /\ \/ pc' = "cleanup" /\ Unparsed(res, resp) # "" /\ said' = Append(said, Unparsed(res, resp))
           \/ pc' = "parse" /\ UNCHANGED said
    BY <1>1 DEF Result, SaidInv
  <2>2. res \in {"CURLE_OK", "failed"}
    BY <1>0, <2>1 DEF MainTypes, AnswerInv
  <2>3. ToBeSaid' = ToBeSaid
    BY <2>1 DEF ToBeSaid
  <2>4. Unparsed(res, resp) # "" => Unparsed(res, resp) \in ToBeSaid
    <3>1. CASE res = "failed"
      BY <3>1 DEF Unparsed, ToBeSaid
    <3>2. CASE res = "CURLE_OK"
      <4>1. resp = answer.body
        BY <3>2 DEF AnswerInv
      <4> QED
        BY <3>2, <4>1 DEF Unparsed, ToBeSaid
    <3> QED
      BY <2>2, <3>1, <3>2
  <2>5. said' = <<>> \/ (pc' = "cleanup" /\ \E line \in ToBeSaid : said' = <<line>>)
    <3> DEFINE line == Unparsed(res, resp)
    <3>1. line # "" => line \in ToBeSaid
      BY <2>4
    <3>2. (pc' = "cleanup" /\ line # "" /\ said' = Append(<<>>, line)) \/ said' = <<>>
      BY <2>1
    <3>3. \A x : Append(<<>>, x) = <<x>>
      OBVIOUS
    <3> HIDE DEF line
    <3> QED
      BY <3>1, <3>2, <3>3
  <2>6. said' = <<>> => pc' = "parse"
    BY <2>1
  <2>7. said' # <<>> => \E line \in ToBeSaid' : said' = <<line>>
    BY <2>3, <2>5
  <2>8. said' # <<>> => pc' = "cleanup"
    BY <2>5
  <2> HIDE DEF ToBeSaid
  <2> QED
    BY <2>1, <2>2, <2>6, <2>7, <2>8 DEF SaidInv, Before
<1>2. CASE Verdict
  <2>1. /\ pc = "parse" /\ doing = "done" /\ pc' = "free" /\ UNCHANGED <<answer, resp, res, status>>
        /\ said = <<>> /\ res = "CURLE_OK" /\ resp # <<>> /\ resp = answer.body
    BY <1>2 DEF Verdict, SaidInv, AnswerInv
  <2> DEFINE msg   == Get(1, MessageKey)
             msg_s == IF msg = 0 THEN <<>> ELSE IF nodes[msg].type = "string" THEN nodes[msg].text ELSE <<>>
             word  == IF msg_s = Success THEN "success" ELSE "application error"
  <2>2. said' = <<word>>
    <3>1. said' = Append(said, word)
      BY <1>2 DEF Verdict
    <3> HIDE DEF word
    <3> QED
      BY <2>1, <3>1
  <2>3. answer.value # NotJson => word \in ToBeSaid
    <3> HAVE answer.value # NotJson
    <3>1. PICK d : Derives(text, d) /\ answer.value = TreeOf(d.nodes, 1) /\ Follows(d)
      BY <2>1 DEF TreeInv
    <3>2. nodes = d.nodes
      BY <2>1, <3>1 DEF Follows, Placed
    <3>3. JsonInv /\ NestInv /\ KeysInv
      BY <2>1 DEF IInv, ReaderInv, ParseInv, Parsing
    <3>4. msg_s = Success <=> MessageIn(answer.value) = Success
      <4>1. msg_s = Success <=> MessageIn(TreeOf(nodes, 1)) = Success
        BY <2>1, <3>1, <3>2, <3>3, MessageIs
      <4> QED
        BY <3>1, <3>2, <4>1
    <3>5. ToBeSaid = {IF MessageIn(answer.value) = Success THEN "success" ELSE "application error"}
      BY <2>1 DEF ToBeSaid
    <3> HIDE DEF msg_s
    <3> QED
      BY <3>4, <3>5
  <2>4. answer.value = NotJson => word \in ToBeSaid
    <3>1. answer.value = NotJson => ToBeSaid = {"success", "application error"}
      BY <2>1 DEF ToBeSaid
    <3> QED
      BY <3>1
  <2>5. ToBeSaid' = ToBeSaid
    BY <2>1 DEF ToBeSaid
  <2> HIDE DEF word, ToBeSaid
  <2>6. \E line \in ToBeSaid' : said' = <<line>>
    BY <2>2, <2>3, <2>4, <2>5
  <2>7. said' # <<>>
    BY <2>2
  <2> QED
    BY <2>1, <2>6, <2>7 DEF SaidInv, Before
<1>3. CASE BuildParams \/ ReadEmail \/ BuildData \/ Sign \/ Encode \/ CurlInit \/ WriteCallback \/ Performed
  <2>1. /\ pc \in Before /\ pc' \in Before \cup {"result", "returned"} /\ UNCHANGED said
        /\ pc' = "returned" => status' = 1
    BY <1>3 DEF BuildParams, ReadEmail, BuildData, Sign, Encode, CurlInit, WriteCallback, Performed,
                Holds, Returns, Before
  <2>2. said = <<>>
    BY <2>1 DEF SaidInv
  <2> QED
    BY <2>1, <2>2 DEF SaidInv, Before
<1>4. CASE ParseStep
  <2>1. /\ pc = "parse" /\ pc' \in {"exited", "undefined", "parse"} /\ UNCHANGED said
        /\ pc' = "exited" => status' = 1
    BY <1>4 DEF ParseStep
  <2>2. said = <<>>
    BY <2>1 DEF SaidInv
  <2> QED
    BY <2>1, <2>2 DEF SaidInv, Before
<1>5. CASE FreeStep \/ FreeEnd \/ Cleanup
  <2>1. /\ pc \in {"free", "cleanup"} /\ pc' \in {"free", "undefined", "cleanup", "returned"}
        /\ UNCHANGED <<answer, res, said>>
    BY <1>5 DEF FreeStep, FreeEnd, Cleanup, Returns
  <2>2. ToBeSaid' = ToBeSaid
    BY <2>1 DEF ToBeSaid
  <2>3. said # <<>>
    BY <2>1 DEF SaidInv
  <2> HIDE DEF ToBeSaid
  <2> QED
    BY <2>1, <2>2, <2>3 DEF SaidInv, Before
<1>6. CASE UNCHANGED vars
  <2>1. UNCHANGED <<pc, answer, res, said, status>>
    BY <1>6 DEF vars, clientVars
  <2> QED
    BY <2>1 DEF SaidInv, ToBeSaid
<1> QED
  BY <1>1, <1>2, <1>3, <1>4, <1>5, <1>6 DEF Next, Own_steps, Waiting

\* What main keeps of the answer and its output says that it is honest.
LEMMA SaidHonest ==
  ASSUME MainTypes, TreeInv, SaidInv
  PROVE  VerdictHonest
<1>1. CASE said = <<>>
  BY <1>1 DEF VerdictHonest, SaidInv, TreeInv
<1>2. CASE said # <<>>
  <2>1. PICK line \in ToBeSaid : said = <<line>>
    BY <1>2 DEF SaidInv
  <2>2. Len(said) = 1 /\ said[1] \in ToBeSaid
    <3> HIDE DEF ToBeSaid
    <3> QED
      BY <2>1
  <2>3. pc # "exited"
    BY <1>2 DEF SaidInv
  <2> HIDE DEF ToBeSaid
  <2> QED
    BY <1>2, <2>2, <2>3 DEF VerdictHonest
<1> QED
  BY <1>1, <1>2

\* main tells of the request at most once, once if it returns after it was sent, and
\* what is to be said of it, for any answer and however it comes.
THEOREM Honest ==
  ASSUME AllSpelled
  PROVE  Spec => []VerdictHonest
<1>1. Init => SaidInv
  BY DEF Init, SaidInv
<1>2. IInv /\ AnswerInv /\ TreeInv /\ SaidInv /\ [Next]_vars => SaidInv'
  BY SaidKept
<1>3. IInv /\ TreeInv /\ SaidInv => VerdictHonest
  BY SaidHonest DEF IInv
<1> QED
  BY <1>1, <1>2, <1>3, Inductive, Answered, Followed, PTL DEF Spec

================================================================================
