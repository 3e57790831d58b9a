------------------------------- MODULE BeanProofs ------------------------------
(***************************************************************************)
(* Theorems about Bean, for all calls and buffers, and about CryptoRand,   *)
(* the draws that argus_get_sign takes its rand_int from.                  *)
(*                                                                         *)
(* The bean is read back in four steps: a varint is a sequence of five     *)
(* bytes at most (VarintIs), which a reader takes for what Received says   *)
(* (VarintRead); a field that stands in a text is read from there          *)
(* (FieldRead); so are fields that stand one behind the other              *)
(* (WrittenReads); and the invariant says that they do.                    *)
(***************************************************************************)
EXTENDS Bean, CryptoRand, SequenceTheorems, FiniteSetTheorems, TLAPS

Numbers == INSTANCE QueryTextProofs

(***************************************************************************)
(* Words and varints                                                       *)
(***************************************************************************)

\* What a shift leaves of a word.
LEMMA ShrIs ==
  ASSUME NEW w \in Nat, NEW n \in Nat, NEW v \in Word(w + n)
  PROVE  Shr(v, n) \in Word(w)
BY DEF Word, Shr

\* Cut keeps a value to its width.
LEMMA CutIs == \A w, v : Cut(w, v) \in Word(w)
BY DEF Cut, Word

\* A function on 1 .. n is a sequence of n.
LEMMA FcnIsSeq ==
  ASSUME NEW S, NEW n \in Nat, NEW f \in [1 .. n -> S]
  PROVE  f \in Seq(S) /\ Len(f) = n
OBVIOUS

\* The length and the bytes of a text.
LEMMA TextLen == \A s \in Text : Len(s) \in Nat /\ DOMAIN s = 1 .. Len(s) /\ s \in [1 .. Len(s) -> Octet]
BY LenProperties DEF Text

\* Texts put one behind the other make a text.
LEMMA ConcatIs == \A s, t \in Text : s \o t \in Text /\ Len(s \o t) = Len(s) + Len(t)
BY ConcatProperties DEF Text

\* The bytes of a varint: all but the last announce another one.
Last7(v) == Cut(7, v)
More7(v) == Cut(7, v) \cup {7}

Code1(v) == <<Last7(v)>>
Code2(v) == IF GoesOn(v) THEN <<More7(v)>> \o Code1(Shr(v, 7)) ELSE <<Last7(v)>>
Code3(v) == IF GoesOn(v) THEN <<More7(v)>> \o Code2(Shr(v, 7)) ELSE <<Last7(v)>>
Code4(v) == IF GoesOn(v) THEN <<More7(v)>> \o Code3(Shr(v, 7)) ELSE <<Last7(v)>>
Code5(v) == IF GoesOn(v) THEN <<More7(v)>> \o Code4(Shr(v, 7)) ELSE <<Last7(v)>>

\* Each shift by 7 leaves 7 bits less, and 7 bits are the last byte.
LEMMA Shift7 ==
  /\ \A v \in Word(32) : Shr(v, 7) \in Word(25)
  /\ \A v \in Word(25) : Shr(v, 7) \in Word(18)
  /\ \A v \in Word(18) : Shr(v, 7) \in Word(11)
  /\ \A v \in Word(11) : Shr(v, 7) \in Word(4)
  /\ \A v \in Word(7) : ~GoesOn(v)
  /\ Word(25) \subseteq Word(32) /\ Word(18) \subseteq Word(25) /\ Word(11) \subseteq Word(18)
  /\ Word(4) \subseteq Word(7) /\ Word(7) \subseteq Word(11)
BY DEF Word, Shr, GoesOn

\* For a short word, fewer bytes are enough.
LEMMA CodesAgree ==
  /\ \A v \in Word(7) : Code1(v) = Code2(v) /\ Code2(v) = Code3(v) /\ Code3(v) = Code4(v) /\ Code4(v) = Code5(v)
  /\ \A v \in Word(11) : Code2(v) = Code3(v) /\ Code3(v) = Code4(v) /\ Code4(v) = Code5(v)
  /\ \A v \in Word(18) : Code3(v) = Code4(v) /\ Code4(v) = Code5(v)
  /\ \A v \in Word(25) : Code4(v) = Code5(v)
<1>1. \A v \in Word(7) : Code1(v) = Code2(v) /\ Code2(v) = Code3(v) /\ Code3(v) = Code4(v) /\ Code4(v) = Code5(v)
  BY Shift7, Zenon DEF Code1, Code2, Code3, Code4, Code5
<1>2. \A v \in Word(11) : Code2(v) = Code3(v) /\ Code3(v) = Code4(v) /\ Code4(v) = Code5(v)
  <2> TAKE v \in Word(11)
  <2>1. Shr(v, 7) \in Word(7)
    BY Shift7
  <2> QED
    BY <1>1, <2>1, Zenon DEF Code2, Code3, Code4, Code5
<1>3. \A v \in Word(18) : Code3(v) = Code4(v) /\ Code4(v) = Code5(v)
  <2> TAKE v \in Word(18)
  <2>1. Shr(v, 7) \in Word(11)
    BY Shift7
  <2> QED
    BY <1>2, <2>1, Zenon DEF Code3, Code4, Code5
<1>4. \A v \in Word(25) : Code4(v) = Code5(v)
  <2> TAKE v \in Word(25)
  <2>1. Shr(v, 7) \in Word(18)
    BY Shift7
  <2> QED
    BY <1>3, <2>1, Zenon DEF Code4, Code5
<1> QED
  BY <1>1, <1>2, <1>3, <1>4

\* What write_varint writes of a value, at most five bytes.
LEMMA VarintIs == \A v : Varint(v) = Code5(Cut(32, v))
<1> DEFINE body(f) == [v \in Word(32) |-> IF GoesOn(v) THEN <<More7(v)>> \o f[Shr(v, 7)] ELSE <<Last7(v)>>]
           from == CHOOSE f : f = body(f)
           g == [v \in Word(32) |-> Code5(v)]
<1>1. \A v : Varint(v) = from[Cut(32, v)]
  BY DEF Varint, More7, Last7
<1>2. g = body(g)
  <2>1. \A v \in Word(32) : g[Shr(v, 7)] = Code4(Shr(v, 7))
    BY Shift7, CodesAgree
  <2>2. \A v \in Word(32) : Code5(v) = IF GoesOn(v) THEN <<More7(v)>> \o g[Shr(v, 7)] ELSE <<Last7(v)>>
    BY <2>1, Zenon DEF Code5
  <2> DEFINE r(v) == IF GoesOn(v) THEN <<More7(v)>> \o g[Shr(v, 7)] ELSE <<Last7(v)>>
  <2>3. \A v \in Word(32) : Code5(v) = r(v)
    BY <2>2
  <2> HIDE DEF r
  <2>4. g = [v \in Word(32) |-> r(v)]
    BY <2>3
  <2> QED
    BY <2>4 DEF r
<1>3. from = body(from)
  <2> HIDE DEF body
  <2> QED
    BY <1>2
<1> HIDE DEF from, g
<1>4. \A v \in Word(32) : from[v] = IF GoesOn(v) THEN <<More7(v)>> \o from[Shr(v, 7)] ELSE <<Last7(v)>>
  <2> DEFINE r(v) == IF GoesOn(v) THEN <<More7(v)>> \o from[Shr(v, 7)] ELSE <<Last7(v)>>
  <2>1. from = [v \in Word(32) |-> r(v)]
    BY <1>3
  <2> HIDE DEF r
  <2>2. \A v \in Word(32) : from[v] = r(v)
    BY <2>1
  <2> QED
    BY <2>2 DEF r
<1>5. \A v \in Word(7) : from[v] = Code1(v)
  BY <1>4, Shift7 DEF Code1
<1>6. \A v \in Word(11) : from[v] = Code2(v)
  BY <1>4, <1>5, Shift7, Zenon DEF Code2
<1>7. \A v \in Word(18) : from[v] = Code3(v)
  BY <1>4, <1>6, Shift7, Zenon DEF Code3
<1>8. \A v \in Word(25) : from[v] = Code4(v)
  BY <1>4, <1>7, Shift7, Zenon DEF Code4
<1>9. \A v \in Word(32) : from[v] = Code5(v)
  BY <1>4, <1>8, Shift7, Zenon DEF Code5
<1> QED
  BY <1>1, <1>9, CutIs

\* One byte is a text.
LEMMA ByteText == \A x \in Octet : <<x>> \in Text /\ Len(<<x>>) = 1 /\ <<x>>[1] = x
BY DEF Text

(***************************************************************************)
(* What a reader gets of a varint                                          *)
(***************************************************************************)

\* A varint of at most n bytes, and the number that a reader takes it for.
ValueOf(c) == UNION {{7 * (m - 1) + b : b \in c[m] \ {7}} : m \in 1 .. Len(c)}

\* A bit of the value a reader puts together comes from one byte, without its mark.
LEMMA InValue ==
  \A c, i : i \in ValueOf(c) <=> \E m \in 1 .. Len(c) : \E b \in c[m] \ {7} : i = 7 * (m - 1) + b
<1> TAKE c, i
<1> DEFINE part(m) == {7 * (m - 1) + b : b \in c[m] \ {7}}
<1>1. \A m : i \in part(m) <=> \E b \in c[m] \ {7} : i = 7 * (m - 1) + b
  OBVIOUS
<1>2. ValueOf(c) = UNION {part(m) : m \in 1 .. Len(c)}
  BY DEF ValueOf
<1> HIDE DEF part
<1>3. i \in ValueOf(c) <=> \E m \in 1 .. Len(c) : i \in part(m)
  BY <1>2
<1> QED
  BY <1>1, <1>3, Zenon

IsVarint(c, n, value) ==
  /\ c \in Text /\ Len(c) \in 1 .. n
  /\ 7 \notin c[Len(c)]
  /\ \A m \in 1 .. Len(c) - 1 : 7 \in c[m]
  /\ ValueOf(c) = value

\* A byte without the mark ends the varint.
LEMMA VarintEnds ==
  ASSUME NEW x \in Octet, 7 \notin x, NEW n \in Nat \ {0}
  PROVE  IsVarint(<<x>>, n, x)
<1> DEFINE c == <<x>>
<1>1. c \in Text /\ Len(c) = 1 /\ c[1] = x
  BY ByteText
<1> HIDE DEF c
<1>2. 1 .. Len(c) = {1} /\ 1 .. Len(c) - 1 = {}
  BY <1>1
<1>3. \A b \in x : b \in Int /\ 7 * (1 - 1) + b = b
  BY DEF Octet, Word
<1>4. \A i : i \in ValueOf(c) <=> \E b \in x \ {7} : i = 7 * (1 - 1) + b
  BY <1>1, <1>2, InValue
<1>5. ValueOf(c) = x
  BY <1>3, <1>4
<1>6. Len(c) \in 1 .. n
  BY <1>1
<1> QED
  BY <1>1, <1>2, <1>5, <1>6, Zenon DEF IsVarint, c

\* A byte with the mark puts its seven bits below those that follow.
LEMMA VarintGoesOn ==
  ASSUME NEW x \in Octet, 7 \in x, NEW n \in Nat, NEW t, NEW value, IsVarint(t, n, value)
  PROVE  IsVarint(<<x>> \o t, n + 1, (x \ {7}) \cup {7 + b : b \in value})
<1> DEFINE c == <<x>> \o t
<1>1. <<x>> \in Text /\ Len(<<x>>) = 1 /\ <<x>>[1] = x
  BY ByteText
<1>2. t \in Text /\ Len(t) \in 1 .. n /\ Len(t) \in Nat
  BY TextLen DEF IsVarint
<1>3. c \in Text /\ Len(c) = Len(t) + 1
  BY <1>1, <1>2, ConcatIs
<1>4. c[1] = x /\ \A m \in 1 .. Len(t) : c[m + 1] = t[m]
  <2>1. \A m \in 1 .. Len(t) + 1 : c[m] = IF m <= 1 THEN <<x>>[m] ELSE t[m - 1]
    BY <1>1, <1>2, ConcatProperties DEF Text
  <2> HIDE DEF c
  <2> QED
    BY <1>1, <1>2, <2>1
<1> HIDE DEF c
<1>5. Len(c) \in 1 .. n + 1 /\ 7 \notin c[Len(c)]
  BY <1>2, <1>3, <1>4 DEF IsVarint
<1>6. \A m \in 1 .. Len(c) - 1 : 7 \in c[m]
  <2> TAKE m \in 1 .. Len(c) - 1
  <2>1. CASE m = 1
    BY <1>4, <2>1
  <2>2. CASE m # 1
    <3>1. m - 1 \in 1 .. Len(t) - 1 /\ m - 1 \in 1 .. Len(t) /\ (m - 1) + 1 = m
      BY <1>2, <1>3, <2>2
    <3>2. c[m] = t[m - 1] /\ 7 \in t[m - 1]
      <4>1. c[(m - 1) + 1] = t[m - 1]
        BY <1>4, <3>1, Zenon
      <4> QED
        BY <3>1, <4>1, Zenon DEF IsVarint
    <3> QED
      BY <3>2
  <2> QED
    BY <2>1, <2>2
<1>7. ValueOf(c) = (x \ {7}) \cup {7 + b : b \in value}
  <2>0. \A b \in x : b \in Int
    BY DEF Octet, Word
  <2>1. ASSUME NEW i \in ValueOf(c) PROVE i \in (x \ {7}) \cup {7 + b : b \in value}
    <3>1. PICK m \in 1 .. Len(c) : \E b \in c[m] \ {7} : i = 7 * (m - 1) + b
      BY InValue
    <3>2. PICK b \in c[m] \ {7} : i = 7 * (m - 1) + b
      BY <3>1
    <3>3. CASE m = 1
      BY <1>4, <2>0, <3>2, <3>3
    <3>4. CASE m # 1
      <4>1. PICK k \in 1 .. Len(t) : m = k + 1
        <5>1. m - 1 \in 1 .. Len(t) /\ m = (m - 1) + 1
          BY <1>2, <1>3, <3>4
        <5> QED
          BY <5>1
      <4>2. b \in t[k] \ {7} /\ b \in Int
        <5>1. b \in t[k] \ {7}
          BY <1>4, <3>2, <4>1
        <5>2. t[k] \in Octet
          BY <1>2, <4>1, TextLen
        <5> QED
          BY <5>1, <5>2 DEF Octet, Word
      <4>3. 7 * (k - 1) + b \in value
        <5>1. 7 * (k - 1) + b \in ValueOf(t)
          BY <4>1, <4>2, InValue
        <5> QED
          BY <5>1 DEF IsVarint
      <4>4. i = 7 + (7 * (k - 1) + b)
        BY <3>2, <4>1, <4>2
      <4> QED
        BY <4>3, <4>4
    <3> QED
      BY <3>3, <3>4
  <2>2. ASSUME NEW b \in x \ {7} PROVE b \in ValueOf(c)
    <3>1. 1 \in 1 .. Len(c) /\ b = 7 * (1 - 1) + b /\ b \in c[1] \ {7}
      BY <1>2, <1>3, <1>4, <2>0
    <3> QED
      BY <3>1, InValue
  <2>3. ASSUME NEW v \in value PROVE 7 + v \in ValueOf(c)
    <3>0. v \in ValueOf(t)
      BY DEF IsVarint
    <3>1. PICK k \in 1 .. Len(t) : \E b \in t[k] \ {7} : v = 7 * (k - 1) + b
      BY <3>0, InValue
    <3>2. PICK b \in t[k] \ {7} : v = 7 * (k - 1) + b
      BY <3>1
    <3>3. t[k] \in Octet
      BY <1>2, <3>1, TextLen
    <3>4. b \in Int
      BY <3>2, <3>3 DEF Octet, Word
    <3>5. k + 1 \in 1 .. Len(c) /\ b \in c[k + 1] \ {7} /\ 7 + v = 7 * ((k + 1) - 1) + b
      BY <1>2, <1>3, <1>4, <3>1, <3>2, <3>4
    <3> QED
      BY <3>5, InValue
  <2> QED
    BY <2>1, <2>2, <2>3
<1> QED
  BY <1>3, <1>5, <1>6, <1>7, Zenon DEF IsVarint, c

\* What a reader gets of a value of 32 bits, and byte by byte.
Recv(v) == IF Quirk(v) THEN {b \in v : \E c \in v : c > b} ELSE v

\* What is received of a value is what is received of its low 32 bits.
LEMMA RecvIs == \A v : Received(v) = Recv(Cut(32, v))
BY DEF Received, Recv

\* The quirk bites at the value 0x80, at once or after a shift.
LEMMA QuirkIs ==
  ASSUME NEW v \in Word(32)
  PROVE  Quirk(v) <=> v = {7} \/ Quirk(Shr(v, 7))
<1>1. Shr(v, 7 * 0) = v
  <2>1. \A b \in v : b \in Int /\ b >= 0 /\ b - 0 = b
    BY DEF Word
  <2>2. Shr(v, 0) = v
    BY <2>1 DEF Shr
  <2> QED
    BY <2>2
<1>2. ASSUME NEW k \in 0 .. 4 PROVE Shr(Shr(v, 7), 7 * k) = Shr(v, 7 * (k + 1))
  <2>1. \A i : i \in Shr(v, 7 * (k + 1)) <=> \E b \in v : b >= 7 * (k + 1) /\ i = b - 7 * (k + 1)
    BY DEF Shr
  <2>2. \A i : i \in Shr(v, 7) <=> \E b \in v : b >= 7 /\ i = b - 7
    BY DEF Shr
  <2>3. \A i : i \in Shr(Shr(v, 7), 7 * k) <=> \E c \in Shr(v, 7) : c >= 7 * k /\ i = c - 7 * k
    BY DEF Shr
  <2>4. \A b \in v : b \in Int
    BY DEF Word
  <2>5. ASSUME NEW i, i \in Shr(v, 7 * (k + 1)) PROVE i \in Shr(Shr(v, 7), 7 * k)
    <3>1. PICK b \in v : b >= 7 * (k + 1) /\ i = b - 7 * (k + 1)
      BY <2>1, <2>5
    <3>2. b >= 7 /\ b - 7 >= 7 * k /\ i = (b - 7) - 7 * k
      BY <2>4, <3>1
    <3>3. b - 7 \in Shr(v, 7)
      BY <2>2, <3>2
    <3> QED
      BY <2>3, <3>2, <3>3
  <2>6. ASSUME NEW i, i \in Shr(Shr(v, 7), 7 * k) PROVE i \in Shr(v, 7 * (k + 1))
    <3>1. PICK c \in Shr(v, 7) : c >= 7 * k /\ i = c - 7 * k
      BY <2>3, <2>6
    <3>2. PICK b \in v : b >= 7 /\ c = b - 7
      BY <2>2
    <3>3. b >= 7 * (k + 1) /\ i = b - 7 * (k + 1)
      BY <2>4, <3>1, <3>2
    <3> QED
      BY <2>1, <3>3
  <2> QED
    BY <2>5, <2>6
<1>3. Shr(v, 35) = {}
  BY DEF Shr, Word
<1>4. ASSUME Quirk(v) PROVE v = {7} \/ Quirk(Shr(v, 7))
  <2>1. PICK k \in 0 .. 4 : Shr(v, 7 * k) = {7}
    BY <1>4 DEF Quirk
  <2>2. CASE k = 0
    BY <1>1, <2>1, <2>2
  <2>3. CASE k # 0
    <3>1. k - 1 \in 0 .. 4 /\ 7 * ((k - 1) + 1) = 7 * k
      BY <2>3
    <3>2. Shr(Shr(v, 7), 7 * (k - 1)) = Shr(v, 7 * ((k - 1) + 1))
      BY <1>2, <3>1
    <3> QED
      BY <2>1, <3>1, <3>2 DEF Quirk
  <2> QED
    BY <2>2, <2>3
<1>5. ASSUME v = {7} PROVE Quirk(v)
  <2>1. 0 \in 0 .. 4
    OBVIOUS
  <2> QED
    BY <1>1, <1>5, <2>1 DEF Quirk
<1>6. ASSUME Quirk(Shr(v, 7)) PROVE Quirk(v)
  <2>1. PICK k \in 0 .. 4 : Shr(Shr(v, 7), 7 * k) = {7}
    BY <1>6 DEF Quirk
  <2>2. Shr(v, 7 * (k + 1)) = {7}
    BY <1>2, <2>1
  <2>3. k # 4
    <3> SUFFICES ASSUME k = 4 PROVE FALSE
      OBVIOUS
    <3>1. 7 * (k + 1) = 35
      OBVIOUS
    <3> QED
      BY <1>3, <2>2, <3>1
  <2>4. k + 1 \in 0 .. 4
    BY <2>3
  <2> QED
    BY <2>2, <2>4 DEF Quirk
<1> QED
  BY <1>4, <1>5, <1>6

\* What is received, seven bits at a time.
LEMMA RecvStep ==
  ASSUME NEW v \in Word(32)
  PROVE  Recv(v) = IF GoesOn(v) THEN (More7(v) \ {7}) \cup {7 + b : b \in Recv(Shr(v, 7))} ELSE Last7(v)
<1> DEFINE s == Shr(v, 7)
<1>1. v \subseteq 0 .. 31
  BY DEF Word
<1>2. \A i : i \in s <=> \E b \in v : b >= 7 /\ i = b - 7
  BY DEF Shr
<1>3. s \subseteq 0 .. 24 /\ \A i \in s : i + 7 \in v
  BY <1>1, <1>2
<1>4. Quirk(v) <=> v = {7} \/ Quirk(s)
  BY QuirkIs, Zenon
<1>5. Last7(v) = {b \in v : b < 7} /\ More7(v) \ {7} = {b \in v : b < 7}
  <2>1. \A b \in v : b < 7 <=> b \in 0 .. 7 - 1
    BY <1>1
  <2>2. Cut(7, v) = {b \in v : b < 7}
    BY <2>1 DEF Cut
  <2>3. 7 \notin Cut(7, v)
    BY DEF Cut
  <2>4. (Cut(7, v) \cup {7}) \ {7} = Cut(7, v)
    BY <2>3
  <2> QED
    BY <2>2, <2>4 DEF Last7, More7
<1> HIDE DEF s
<1>6. CASE v = {7}
  <2>1. Recv(v) = {}
    BY <1>4, <1>6 DEF Recv
  <2>2. Last7(v) = {}
    BY <1>5, <1>6
  <2> QED
    BY <1>6, <2>1, <2>2 DEF GoesOn
<1>7. CASE v # {7} /\ ~GoesOn(v)
  <2>1. \A b \in v : b < 7
    BY <1>1, <1>7 DEF GoesOn
  <2>2. s = {}
    BY <1>1, <1>2, <2>1
  <2>3. ~Quirk(s)
    <3>1. \A k \in 0 .. 4 : Shr(s, 7 * k) = {}
      BY <2>2 DEF Shr
    <3> QED
      BY <3>1 DEF Quirk
  <2>4. Recv(v) = v
    BY <1>4, <1>7, <2>3 DEF Recv
  <2> QED
    BY <1>5, <1>7, <2>1, <2>4
<1>8. CASE v # {7} /\ GoesOn(v)
  <2>1. PICK t \in v : t >= 7
    BY <1>8 DEF GoesOn
  <2>2. CASE Quirk(s)
    <3>1. Recv(v) = {b \in v : \E c \in v : c > b} /\ Recv(s) = {b \in s : \E c \in s : c > b}
      BY <1>4, <2>2 DEF Recv
    <3>2. ASSUME NEW b \in v, b >= 7 PROVE (\E c \in v : c > b) <=> \E c \in s : c > b - 7
      <4>1. ASSUME NEW c \in v, c > b PROVE c - 7 \in s /\ c - 7 > b - 7
        BY <1>1, <1>2, <3>2, <4>1
      <4>2. ASSUME NEW c \in s, c > b - 7 PROVE c + 7 \in v /\ c + 7 > b
        BY <1>1, <1>3, <3>2, <4>2
      <4> QED
        BY <4>1, <4>2
    <3>3. ASSUME NEW b \in Recv(v) PROVE b \in {d \in v : d < 7} \cup {7 + d : d \in Recv(s)}
      <4>1. b \in v /\ \E c \in v : c > b
        BY <3>1
      <4>2. CASE b >= 7
        <5>1. b - 7 \in s /\ \E c \in s : c > b - 7
          BY <1>2, <3>2, <4>1, <4>2
        <5>2. b - 7 \in Recv(s)
          BY <3>1, <5>1
        <5>3. b = 7 + (b - 7)
          BY <1>1, <4>1
        <5> QED
          BY <5>2, <5>3
      <4> QED
        BY <1>1, <4>1, <4>2
    <3>4. ASSUME NEW b \in v, b < 7 PROVE b \in Recv(v)
      BY <1>1, <2>1, <3>1, <3>4
    <3>5. ASSUME NEW d \in Recv(s) PROVE 7 + d \in Recv(v)
      <4>1. d \in s /\ \E c \in s : c > d
        BY <3>1
      <4>2. PICK b \in v : b >= 7 /\ d = b - 7
        BY <1>2, <4>1
      <4>3. \E c \in v : c > b
        BY <3>2, <4>1, <4>2
      <4>4. b = 7 + d
        BY <1>1, <4>2
      <4> QED
        BY <3>1, <4>3, <4>4
    <3> QED
      BY <1>5, <1>8, <3>3, <3>4, <3>5 DEF s
  <2>3. CASE ~Quirk(s)
    <3>1. Recv(v) = v /\ Recv(s) = s
      BY <1>4, <1>8, <2>3 DEF Recv
    <3>2. v = {b \in v : b < 7} \cup {7 + b : b \in s}
      <4>1. \A b \in v : b >= 7 => b - 7 \in s /\ b = 7 + (b - 7)
        BY <1>1, <1>2
      <4>2. \A i \in s : 7 + i \in v
        BY <1>3
      <4>3. \A b \in v : b < 7 \/ b >= 7
        BY <1>1
      <4> QED
        BY <4>1, <4>2, <4>3
    <3> QED
      BY <1>5, <1>8, <3>1, <3>2 DEF s
  <2> QED
    BY <2>2, <2>3
<1> QED
  BY <1>6, <1>7, <1>8

\* What is written is a varint, of what is received.
LEMMA CodeIs ==
  /\ \A v \in Word(7)  : IsVarint(Code1(v), 1, Recv(v))
  /\ \A v \in Word(11) : IsVarint(Code2(v), 2, Recv(v))
  /\ \A v \in Word(18) : IsVarint(Code3(v), 3, Recv(v))
  /\ \A v \in Word(25) : IsVarint(Code4(v), 4, Recv(v))
  /\ \A v \in Word(32) : IsVarint(Code5(v), 5, Recv(v))
<1>1. \A v : Last7(v) \in Octet /\ 7 \notin Last7(v) /\ More7(v) \in Octet /\ 7 \in More7(v)
  BY DEF Last7, More7, Cut, Octet, Word
<1>2. /\ Word(7) \subseteq Word(32) /\ Word(11) \subseteq Word(32) /\ Word(18) \subseteq Word(32)
      /\ Word(25) \subseteq Word(32)
  BY DEF Word
<1>3. ASSUME NEW v \in Word(32), ~GoesOn(v), NEW n \in Nat \ {0}
      PROVE  IsVarint(<<Last7(v)>>, n, Recv(v))
  <2>1. Recv(v) = Last7(v)
    BY <1>3, RecvStep
  <2> QED
    BY <1>1, <2>1, VarintEnds
<1>4. ASSUME NEW v \in Word(32), GoesOn(v), NEW n \in Nat, NEW t, IsVarint(t, n, Recv(Shr(v, 7)))
      PROVE  IsVarint(<<More7(v)>> \o t, n + 1, Recv(v))
  <2>1. Recv(v) = (More7(v) \ {7}) \cup {7 + b : b \in Recv(Shr(v, 7))}
    BY <1>4, RecvStep
  <2>2. PICK x, r : x = More7(v) /\ r = Recv(Shr(v, 7))
    OBVIOUS
  <2>3. IsVarint(<<x>> \o t, n + 1, (x \ {7}) \cup {7 + b : b \in r})
    BY <1>1, <1>4, <2>2, VarintGoesOn
  <2> QED
    BY <2>1, <2>2, <2>3
<1>5. \A v \in Word(7) : IsVarint(Code1(v), 1, Recv(v))
  <2> TAKE v \in Word(7)
  <2>1. v \in Word(32) /\ ~GoesOn(v) /\ 1 \in Nat \ {0}
    BY <1>2, Shift7
  <2>2. IsVarint(<<Last7(v)>>, 1, Recv(v))
    BY <1>3, <2>1
  <2> QED
    BY <2>2 DEF Code1
<1>6. \A v \in Word(11) : IsVarint(Code2(v), 2, Recv(v))
  <2> TAKE v \in Word(11)
  <2>1. Shr(v, 7) \in Word(7) /\ v \in Word(32)
    BY <1>2, Shift7
  <2>2. 2 \in Nat \ {0} /\ 1 \in Nat /\ 1 + 1 = 2
    OBVIOUS
  <2>3. ~GoesOn(v) => IsVarint(<<Last7(v)>>, 2, Recv(v))
    BY <1>3, <2>1, <2>2
  <2>4. GoesOn(v) => IsVarint(<<More7(v)>> \o Code1(Shr(v, 7)), 1 + 1, Recv(v))
    BY <1>4, <1>5, <2>1, <2>2
  <2> QED
    BY <2>2, <2>3, <2>4 DEF Code2
<1>7. \A v \in Word(18) : IsVarint(Code3(v), 3, Recv(v))
  <2> TAKE v \in Word(18)
  <2>1. Shr(v, 7) \in Word(11) /\ v \in Word(32)
    BY <1>2, Shift7
  <2>2. 3 \in Nat \ {0} /\ 2 \in Nat /\ 2 + 1 = 3
    OBVIOUS
  <2>3. ~GoesOn(v) => IsVarint(<<Last7(v)>>, 3, Recv(v))
    BY <1>3, <2>1, <2>2
  <2>4. GoesOn(v) => IsVarint(<<More7(v)>> \o Code2(Shr(v, 7)), 2 + 1, Recv(v))
    BY <1>4, <1>6, <2>1, <2>2
  <2> QED
    BY <2>2, <2>3, <2>4 DEF Code3
<1>8. \A v \in Word(25) : IsVarint(Code4(v), 4, Recv(v))
  <2> TAKE v \in Word(25)
  <2>1. Shr(v, 7) \in Word(18) /\ v \in Word(32)
    BY <1>2, Shift7
  <2>2. 4 \in Nat \ {0} /\ 3 \in Nat /\ 3 + 1 = 4
    OBVIOUS
  <2>3. ~GoesOn(v) => IsVarint(<<Last7(v)>>, 4, Recv(v))
    BY <1>3, <2>1, <2>2
  <2>4. GoesOn(v) => IsVarint(<<More7(v)>> \o Code3(Shr(v, 7)), 3 + 1, Recv(v))
    BY <1>4, <1>7, <2>1, <2>2
  <2> QED
    BY <2>2, <2>3, <2>4 DEF Code4
<1>9. \A v \in Word(32) : IsVarint(Code5(v), 5, Recv(v))
  <2> TAKE v \in Word(32)
  <2>1. Shr(v, 7) \in Word(25)
    BY Shift7
  <2>2. 5 \in Nat \ {0} /\ 4 \in Nat /\ 4 + 1 = 5
    OBVIOUS
  <2>3. ~GoesOn(v) => IsVarint(<<Last7(v)>>, 5, Recv(v))
    BY <1>3, <2>2
  <2>4. GoesOn(v) => IsVarint(<<More7(v)>> \o Code4(Shr(v, 7)), 4 + 1, Recv(v))
    BY <1>4, <1>8, <2>1, <2>2
  <2> QED
    BY <2>2, <2>3, <2>4 DEF Code5
<1> QED
  BY <1>5, <1>6, <1>7, <1>8, <1>9

(***************************************************************************)
(* Numbers and their bits                                                  *)
(***************************************************************************)

\* The powers of two.
P == [i \in 0 .. 30 |-> 2 ^ i]

\* The powers of two as numbers.
LEMMA PIs ==
  /\ \A i \in 0 .. 30 : P[i] = 2 ^ i /\ P[i] \in Nat /\ P[i] > 0
  /\ P[0] = 1 /\ P[1] = 2 /\ P[2] = 4 /\ P[3] = 8 /\ P[4] = 16 /\ P[5] = 32 /\ P[6] = 64 /\ P[7] = 128
  /\ P[8] = 256 /\ P[9] = 512 /\ P[10] = 1024 /\ P[11] = 2048 /\ P[12] = 4096 /\ P[13] = 8192
  /\ P[14] = 16384 /\ P[15] = 32768 /\ P[16] = 65536 /\ P[17] = 131072 /\ P[18] = 262144
  /\ P[19] = 524288 /\ P[20] = 1048576 /\ P[21] = 2097152 /\ P[22] = 4194304 /\ P[23] = 8388608
  /\ P[24] = 16777216 /\ P[25] = 33554432 /\ P[26] = 67108864 /\ P[27] = 134217728
  /\ P[28] = 268435456 /\ P[29] = 536870912 /\ P[30] = 1073741824
<1>1. \A i \in 0 .. 30 : P[i] = 2 ^ i
  BY DEF P
<1>2. /\ P[0] = 1 /\ P[1] = 2 /\ P[2] = 4 /\ P[3] = 8 /\ P[4] = 16 /\ P[5] = 32 /\ P[6] = 64 /\ P[7] = 128
      /\ P[8] = 256 /\ P[9] = 512 /\ P[10] = 1024 /\ P[11] = 2048 /\ P[12] = 4096 /\ P[13] = 8192
      /\ P[14] = 16384 /\ P[15] = 32768 /\ P[16] = 65536 /\ P[17] = 131072 /\ P[18] = 262144
      /\ P[19] = 524288 /\ P[20] = 1048576 /\ P[21] = 2097152 /\ P[22] = 4194304 /\ P[23] = 8388608
      /\ P[24] = 16777216 /\ P[25] = 33554432 /\ P[26] = 67108864 /\ P[27] = 134217728
      /\ P[28] = 268435456 /\ P[29] = 536870912 /\ P[30] = 1073741824
  BY DEF P
<1>3. \A i \in 0 .. 30 : P[i] \in Nat /\ P[i] > 0
  BY <1>2
<1> QED
  BY <1>1, <1>2, <1>3

\* The bits of a number, by its quotients.
LEMMA BitsIs == \A n : Bits(n) = {i \in 0 .. 30 : (n \div P[i]) % 2 = 1}
BY DEF Bits, P

\* Less than the divisor gives 0.
LEMMA SmallDiv == \A n, x \in Nat : n < x => n \div x = 0
OBVIOUS

\* A number below a power of two has no bit from there on.
LEMMA BitsBelow ==
  /\ \A n : Bits(n) \in Word(31)
  /\ \A n \in 0 .. 127 : Bits(n) \in Word(7)
  /\ \A n \in 0 .. 255 : Bits(n) \in Word(8)
  /\ \A n \in Nat : n < 16384 => Bits(n) \in Word(14)
  /\ \A n \in Nat : n < 65536 => Bits(n) \in Word(16)
<1>1. \A n : Bits(n) \in Word(31)
  BY BitsIs DEF Word
<1>2. ASSUME NEW w \in {7, 8, 14, 16}, NEW n \in Nat, n < P[w] PROVE Bits(n) \in Word(w)
  <2>1. ASSUME NEW i \in w .. 30 PROVE P[i] \in Nat /\ P[w] <= P[i]
    <3>1. CASE w = 7
      BY <3>1, PIs
    <3>2. CASE w = 8
      BY <3>2, PIs
    <3>3. CASE w = 14
      BY <3>3, PIs
    <3>4. CASE w = 16
      BY <3>4, PIs
    <3> QED
      BY <3>1, <3>2, <3>3, <3>4
  <2>2. P[w] \in Nat
    BY PIs
  <2>3. ASSUME NEW i \in w .. 30 PROVE (n \div P[i]) % 2 # 1
    <3>1. P[i] \in Nat /\ n < P[i]
      BY <1>2, <2>1, <2>2
    <3>2. n \div P[i] = 0
      BY <3>1, SmallDiv
    <3> QED
      BY <3>2
  <2>4. \A i \in 0 .. 30 : i \notin w .. 30 => i \in 0 .. w - 1
    OBVIOUS
  <2> QED
    BY <2>3, <2>4, BitsIs DEF Word
<1>3. P[7] = 128 /\ P[8] = 256 /\ P[14] = 16384 /\ P[16] = 65536
  BY PIs
<1>4. \A n \in 0 .. 127 : Bits(n) \in Word(7)
  BY <1>2, <1>3
<1>5. \A n \in 0 .. 255 : Bits(n) \in Word(8)
  BY <1>2, <1>3
<1>6. \A n \in Nat : n < 16384 => Bits(n) \in Word(14)
  BY <1>2, <1>3
<1>7. \A n \in Nat : n < 65536 => Bits(n) \in Word(16)
  BY <1>2, <1>3
<1> QED
  BY <1>1, <1>4, <1>5, <1>6, <1>7

\* One more bit of a number.
LEMMA ModStep ==
  \A n \in Nat, i \in 0 .. 19 :
    n % P[i + 1] = (n % P[i]) + (IF (n \div P[i]) % 2 = 1 THEN P[i] ELSE 0)
<1> TAKE n \in Nat
<1> DEFINE ok(p, q) == n % q = (n % p) + (IF (n \div p) % 2 = 1 THEN p ELSE 0)
<1>1. ok(1, 2) /\ ok(2, 4) /\ ok(4, 8) /\ ok(8, 16) /\ ok(16, 32)
  OBVIOUS
<1>2. ok(32, 64) /\ ok(64, 128) /\ ok(128, 256) /\ ok(256, 512) /\ ok(512, 1024)
  OBVIOUS
<1>3. ok(1024, 2048) /\ ok(2048, 4096) /\ ok(4096, 8192) /\ ok(8192, 16384) /\ ok(16384, 32768)
  OBVIOUS
<1>4. ok(32768, 65536) /\ ok(65536, 131072) /\ ok(131072, 262144) /\ ok(262144, 524288) /\ ok(524288, 1048576)
  OBVIOUS
<1> HIDE DEF ok
<1>5. \A i \in 0 .. 19 : ok(P[i], P[i + 1])
  <2> TAKE i \in 0 .. 19
  <2>1. i \in {0, 1, 2, 3, 4} => ok(P[i], P[i + 1])
    BY <1>1, PIs
  <2>2. i \in {5, 6, 7, 8, 9} => ok(P[i], P[i + 1])
    BY <1>2, PIs
  <2>3. i \in {10, 11, 12, 13, 14} => ok(P[i], P[i + 1])
    BY <1>3, PIs
  <2>4. i \in {15, 16, 17, 18, 19} => ok(P[i], P[i + 1])
    BY <1>4, PIs
  <2> QED
    BY <2>1, <2>2, <2>3, <2>4
<1> QED
  BY <1>5 DEF ok

\* Number reads the bits of a number back.
LEMMA NumberOfBits == \A n \in Nat : n < P[20] => Number(Bits(n)) = n
<1> SUFFICES ASSUME NEW n \in Nat, n < P[20] PROVE Number(Bits(n)) = n
  OBVIOUS
<1>0. n \in Nat /\ n < P[20]
  OBVIOUS
<1> DEFINE v == Bits(n)
           body(f) == [i \in 0 .. 20 |-> IF i = 0 THEN 0 ELSE f[i - 1] + IF i - 1 \in v THEN 2 ^ (i - 1) ELSE 0]
           upTo == CHOOSE f : f = body(f)
           g == [i \in 0 .. 20 |-> n % P[i]]
<1>1. Number(v) = upTo[20]
  BY DEF Number
<1>2. ASSUME NEW i \in 0 .. 20
      PROVE  n % P[i] = IF i = 0 THEN 0 ELSE g[i - 1] + IF i - 1 \in v THEN 2 ^ (i - 1) ELSE 0
  <2>1. CASE i = 0
    BY <1>0, <2>1, PIs
  <2>2. CASE i # 0
    <3>1. PICK j \in 0 .. 19 : i = j + 1
      <4>1. i - 1 \in 0 .. 19 /\ i = (i - 1) + 1
        BY <2>2
      <4> QED
        BY <4>1
    <3>2. i - 1 = j /\ j \in 0 .. 30 /\ j \in 0 .. 20
      BY <3>1
    <3>3. g[i - 1] = n % P[j] /\ P[j] = 2 ^ (i - 1)
      <4>1. g[j] = n % P[j]
        BY <3>2
      <4>2. P[j] = 2 ^ j
        BY <3>2 DEF P
      <4> QED
        BY <3>2, <4>1, <4>2
    <3>4. i - 1 \in v <=> (n \div P[j]) % 2 = 1
      BY <3>2, BitsIs
    <3>5. n % P[i] = (n % P[j]) + (IF (n \div P[j]) % 2 = 1 THEN P[j] ELSE 0)
      BY <1>0, <3>1, ModStep
    <3> HIDE DEF g, v
    <3> QED
      BY <2>2, <3>3, <3>4, <3>5
  <2> QED
    BY <2>1, <2>2
<1> HIDE DEF v
<1>3. g = body(g)
  <2> DEFINE r(i) == IF i = 0 THEN 0 ELSE g[i - 1] + IF i - 1 \in v THEN 2 ^ (i - 1) ELSE 0
  <2>1. \A i \in 0 .. 20 : n % P[i] = r(i)
    BY <1>2
  <2> HIDE DEF r
  <2>2. g = [i \in 0 .. 20 |-> r(i)]
    BY <2>1
  <2> QED
    BY <2>2 DEF r
<1>4. upTo = body(upTo)
  <2> HIDE DEF body
  <2> QED
    BY <1>3
<1> HIDE DEF upTo
<1>5. \A i \in 0 .. 20 : upTo[i] = IF i = 0 THEN 0 ELSE upTo[i - 1] + IF i - 1 \in v THEN 2 ^ (i - 1) ELSE 0
  <2> DEFINE r(i) == IF i = 0 THEN 0 ELSE upTo[i - 1] + IF i - 1 \in v THEN 2 ^ (i - 1) ELSE 0
  <2>1. upTo = [i \in 0 .. 20 |-> r(i)]
    BY <1>4
  <2> HIDE DEF r
  <2>2. \A i \in 0 .. 20 : upTo[i] = r(i)
    BY <2>1
  <2> QED
    BY <2>2 DEF r
<1>6. \A i \in 0 .. 20 : g[i] = IF i = 0 THEN 0 ELSE g[i - 1] + IF i - 1 \in v THEN 2 ^ (i - 1) ELSE 0
  BY <1>2
<1>7. g[20] = n
  BY <1>0, PIs
<1> HIDE DEF g
<1>8. \A i \in 0 .. 20 : upTo[i] = g[i]
  <2> DEFINE Differ == {i \in 0 .. 20 : upTo[i] # g[i]}
  <2> SUFFICES ASSUME Differ # {} PROVE FALSE
    OBVIOUS
  <2>1. Differ \in SUBSET Nat
    OBVIOUS
  <2>2. PICK i \in Differ : \A j \in Differ : i <= j
    BY <2>1, Numbers!LeastNatural
  <2>3. i \in 0 .. 20 /\ upTo[i] # g[i]
    OBVIOUS
  <2>4. CASE i = 0
    BY <1>5, <1>6, <2>3, <2>4
  <2>5. CASE i # 0
    <3>1. i - 1 \in 0 .. 20 /\ ~(i <= i - 1)
      BY <2>3, <2>5
    <3>2. i - 1 \notin Differ
      <4> HIDE DEF Differ
      <4> QED
        BY <2>2, <3>1
    <3>3. upTo[i - 1] = g[i - 1]
      BY <3>1, <3>2
    <3> QED
      BY <1>5, <1>6, <2>3, <2>5, <3>3
  <2> QED
    BY <2>4, <2>5
<1>9. upTo[20] = g[20]
  BY <1>8
<1> QED
  BY <1>1, <1>7, <1>9 DEF v

(***************************************************************************)
(* What pb_serialize writes of a field, and what a reader makes of it      *)
(***************************************************************************)

(***************************************************************************)
(* Fields, written and read                                                *)
(***************************************************************************)

\* The bytes of pb_varint are read as Received says, for any value.
LEMMA VarintRead == \A v : IsVarint(Varint(v), 5, Received(v))
BY VarintIs, CodeIs, CutIs, RecvIs

\* pb_varint writes one to five bytes.
LEMMA VarintText == \A v : Varint(v) \in Text /\ Len(Varint(v)) \in 1 .. 5
BY VarintRead DEF IsVarint

\* 14 bits fit two bytes of the loop, 7 bits one.
LEMMA Lens14 ==
  ASSUME NEW v \in Word(14)
  PROVE  Len(Code5(v)) \in 1 .. 2 /\ (v \in Word(7) => Len(Code5(v)) = 1)
<1>1. v \in Word(14 - 7 + 7) /\ Word(14) \subseteq Word(32) /\ Word(7) \subseteq Word(25)
  BY DEF Word
<1>2. Shr(v, 7) \in Word(7)
  <2>1. v \in Word(7 + 7)
    BY <1>1
  <2> QED
    BY <2>1, ShrIs
<1>3. \A x : Len(<<x>>) = 1
  OBVIOUS
<1>4. CASE ~GoesOn(v)
  BY <1>3, <1>4 DEF Code5
<1>5. CASE GoesOn(v)
  <2>1. v \notin Word(7)
    BY <1>5, Shift7
  <2>2. Code4(Shr(v, 7)) = <<Last7(Shr(v, 7))>>
    BY <1>2, Shift7, CodesAgree DEF Code1
  <2>3. Code5(v) = <<More7(v)>> \o <<Last7(Shr(v, 7))>>
    BY <1>5, <2>2 DEF Code5
  <2>4. Len(Code5(v)) = 2
    BY <2>3
  <2> QED
    BY <2>1, <2>4
<1> QED
  BY <1>4, <1>5

\* 14 bits fit a varint of two bytes, 7 bits one of one.
LEMMA VarintLens ==
  /\ \A v \in Word(14) : Len(Varint(v)) \in 1 .. 2
  /\ \A v \in Word(7) : Len(Varint(v)) = 1
<1>1. Word(7) \subseteq Word(14) /\ \A v \in Word(14) : Cut(32, v) = v
  <2>1. \A v \in Word(14) : v \subseteq 0 .. 13
    BY DEF Word
  <2>2. \A v \in Word(7) : v \subseteq 0 .. 6
    BY DEF Word
  <2>3. Word(7) \subseteq Word(14)
    BY <2>2 DEF Word
  <2>4. \A v \in Word(14) : v \cap (0 .. 32 - 1) = v
    <3>1. 0 .. 13 \subseteq 0 .. 32 - 1
      OBVIOUS
    <3> QED
      BY <2>1, <3>1, Zenon
  <2> QED
    BY <2>3, <2>4 DEF Cut
<1> QED
  BY <1>1, VarintIs, Lens14

Coded(f) ==
  Varint(Key(f)) \o (IF f.kind = 0 THEN Varint(f.varint) ELSE Varint(Bits(Len(f.data))) \o f.data)

\* The bytes of a field and how many they are.
LEMMA CodedText ==
  ASSUME NEW f \in Field
  PROVE  /\ Coded(f) \in Text
         /\ f.kind = 0 => Len(Coded(f)) = Len(Varint(Key(f))) + Len(Varint(f.varint))
         /\ f.kind = 2 => Len(Coded(f)) = Len(Varint(Key(f))) + Len(Varint(Bits(Len(f.data)))) + Len(f.data)
<1>1. f.data \in Text /\ f.kind \in {0, 2}
  BY DEF Field
<1>2. PICK k, v, l : k = Varint(Key(f)) /\ v = Varint(f.varint) /\ l = Varint(Bits(Len(f.data)))
  OBVIOUS
<1>3. k \in Text /\ v \in Text /\ l \in Text
  BY <1>2, VarintText
<1>4. l \o f.data \in Text /\ Len(l \o f.data) = Len(l) + Len(f.data)
  BY <1>1, <1>3, ConcatIs
<1>5. k \o v \in Text /\ Len(k \o v) = Len(k) + Len(v)
  BY <1>3, ConcatIs
<1>6. k \o (l \o f.data) \in Text /\ Len(k \o (l \o f.data)) = Len(k) + (Len(l) + Len(f.data))
  BY <1>3, <1>4, ConcatIs
<1>7. Coded(f) = IF f.kind = 0 THEN k \o v ELSE k \o (l \o f.data)
  BY <1>2 DEF Coded
<1>8. Len(k) \in Nat /\ Len(l) \in Nat /\ Len(f.data) \in Nat
  BY <1>1, <1>3, TextLen
<1>9. Len(k) + (Len(l) + Len(f.data)) = Len(k) + Len(l) + Len(f.data)
  <2>1. \A x, y, z \in Nat : x + (y + z) = x + y + z
    OBVIOUS
  <2> QED
    BY <1>8, <2>1, Zenon
<1>10. CASE f.kind = 0
  BY <1>2, <1>5, <1>7, <1>10
<1>11. CASE f.kind = 2
  <2>1. Coded(f) = k \o (l \o f.data)
    BY <1>7, <1>11
  <2>2. Len(Coded(f)) = Len(k) + Len(l) + Len(f.data)
    BY <1>6, <1>9, <2>1, Zenon
  <2>3. Coded(f) \in Text
    BY <1>6, <2>1, Zenon
  <2> QED
    BY <1>2, <1>11, <2>2, <2>3
<1> QED
  BY <1>1, <1>10, <1>11

\* It does not matter which of three texts are joined first.
LEMMA AssociativeText == \A x, y, w \in Text : (x \o y) \o w = x \o (y \o w)
BY ConcatAssociative DEF Text

Bytes == Seq(Octet \cup {Junk})

\* Texts of bytes as numbers join the same way.
LEMMA ConcatBytes == \A s, t \in Bytes : s \o t \in Bytes /\ Len(s \o t) = Len(s) + Len(t)
BY ConcatProperties DEF Bytes

\* A field is written behind what is there, and text where it fits is what it is.
LEMMA PutIs ==
  ASSUME NEW out \in Text, NEW f \in Field, NEW cap \in Nat
  PROVE  /\ Put(out, f, cap) \in Bytes
         /\ Len(Put(out, f, cap)) = Len(out) + Len(Coded(f))
         /\ Len(Put(out, f, cap)) <= cap => Put(out, f, cap) = out \o Coded(f)
<1>1. f.data \in Text /\ f.kind \in {0, 2}
  BY DEF Field
<1>2. PICK k, v, l : k = Varint(Key(f)) /\ v = Varint(f.varint) /\ l = Varint(Bits(Len(f.data)))
  OBVIOUS
<1>3. k \in Text /\ v \in Text /\ l \in Text
  BY <1>2, VarintText
<1>4. Len(out) \in Nat /\ Len(k) \in Nat /\ Len(v) \in Nat /\ Len(l) \in Nat /\ Len(f.data) \in Nat
  BY <1>1, <1>3, TextLen
<1>5. Coded(f) = k \o (IF f.kind = 0 THEN v ELSE l \o f.data)
  BY <1>2 DEF Coded
<1>6. Text \subseteq Bytes
  BY DEF Text, Bytes
<1>7. CASE f.kind = 0
  <2>1. Put(out, f, cap) = out \o k \o v
    BY <1>2, <1>7 DEF Put
  <2>2. (out \o k) \o v = out \o (k \o v)
    BY <1>3, AssociativeText
  <2>3. k \o v \in Text /\ Len(k \o v) = Len(k) + Len(v)
    BY <1>3, ConcatIs
  <2>4. out \o (k \o v) \in Text /\ Len(out \o (k \o v)) = Len(out) + Len(k \o v)
    BY <2>3, ConcatIs
  <2>5. Coded(f) = k \o v
    BY <1>5, <1>7
  <2> QED
    BY <1>6, <2>1, <2>2, <2>4, <2>5
<1>8. CASE f.kind = 2
  <2> DEFINE before == out \o k \o l
             n == Len(f.data)
  <2>1. before \in Text /\ Len(before) = Len(out) + Len(k) + Len(l)
    <3>1. out \o k \in Text /\ Len(out \o k) = Len(out) + Len(k)
      BY <1>3, ConcatIs
    <3> QED
      BY <1>3, <3>1, ConcatIs
  <2>2. Put(out, f, cap) = before \o IF Copies(Len(before), n, cap) THEN f.data ELSE Repeated(Junk, n)
    BY <1>2, <1>8 DEF Put
  <2>3. Coded(f) = k \o (l \o f.data)
    BY <1>5, <1>8
  <2>4. before \o f.data = out \o Coded(f)
    <3>1. out \o k \in Text /\ l \o f.data \in Text
      BY <1>1, <1>3, ConcatIs
    <3>4. \A a, d \in Text : (a \o l) \o d = a \o (l \o d)
      BY <1>3, AssociativeText
    <3>2. before \o f.data = (out \o k) \o (l \o f.data)
      BY <1>1, <3>1, <3>4
    <3>3. (out \o k) \o (l \o f.data) = out \o (k \o (l \o f.data))
      BY <1>3, <3>1, AssociativeText
    <3> QED
      BY <2>3, <3>2, <3>3
  <2>5. Coded(f) \in Text /\ Len(Coded(f)) = Len(k) + Len(l) + n
    BY <1>2, <1>8, CodedText
  <2> HIDE DEF before
  <2>11. Len(before) + n = Len(out) + Len(Coded(f))
    <3>1. \A o, x, y, z \in Nat : (o + x + y) + z = o + (x + y + z)
      OBVIOUS
    <3>2. n \in Nat
      BY <1>4
    <3> HIDE DEF n
    <3>3. (Len(out) + Len(k) + Len(l)) + n = Len(out) + (Len(k) + Len(l) + n)
      BY <1>4, <3>1, <3>2
    <3> QED
      BY <2>1, <2>5, <3>3, Zenon
  <2>6. Repeated(Junk, n) \in Seq(Octet \cup {Junk}) /\ Len(Repeated(Junk, n)) = n
    <3>1. Repeated(Junk, n) \in [1 .. n -> Octet \cup {Junk}]
      BY DEF Repeated
    <3> HIDE DEF n
    <3>2. n \in Nat
      BY <1>4 DEF n
    <3> QED
      BY <3>1, <3>2, FcnIsSeq
  <2>7. f.data \in Bytes /\ before \in Bytes /\ Repeated(Junk, n) \in Bytes
    BY <1>1, <1>6, <2>1, <2>6 DEF Bytes
  <2>8. /\ before \o f.data \in Bytes /\ Len(before \o f.data) = Len(before) + n
        /\ before \o Repeated(Junk, n) \in Bytes /\ Len(before \o Repeated(Junk, n)) = Len(before) + n
    <3>1. Len(f.data) = n
      OBVIOUS
    <3> QED
      BY <2>6, <2>7, <3>1, ConcatBytes, Zenon
  <2>9. CASE Copies(Len(before), n, cap)
    <3>1. Put(out, f, cap) = before \o f.data
      BY <2>2, <2>9
    <3> QED
      BY <2>4, <2>8, <2>11, <3>1, Zenon
  <2>10. CASE ~Copies(Len(before), n, cap)
    <3>1. Put(out, f, cap) = before \o Repeated(Junk, n)
      BY <2>2, <2>10
    <3>2. ~(Len(before) + n <= cap)
      BY <2>10 DEF Copies
    <3>3. Len(Put(out, f, cap)) = Len(before) + n
      BY <2>8, <3>1, Zenon
    <3> QED
      BY <2>8, <2>11, <3>1, <3>2, <3>3, Zenon
  <2> QED
    BY <2>9, <2>10
<1> QED
  BY <1>1, <1>7, <1>8

\* The bytes c stand in s from an offset on.
Stands(c, s, at) ==
  /\ at \in Nat \ {0} /\ at + Len(c) <= Len(s) + 1
  /\ \A m \in 1 .. Len(c) : s[at + m - 1] = c[m]

\* Where two joined texts stand, each stands.
LEMMA StandsParts ==
  ASSUME NEW x \in Text, NEW y \in Text, NEW s \in Text, NEW at, Stands(x \o y, s, at)
  PROVE  Stands(x, s, at) /\ Stands(y, s, at + Len(x))
<1>1. Len(x) \in Nat /\ Len(y) \in Nat /\ Len(s) \in Nat /\ Len(x \o y) = Len(x) + Len(y) /\ at \in Nat \ {0}
  BY TextLen, ConcatIs DEF Stands
<1>2. \A m \in 1 .. Len(x) + Len(y) : (x \o y)[m] = IF m <= Len(x) THEN x[m] ELSE y[m - Len(x)]
  BY ConcatProperties DEF Text
<1>3. \A m \in 1 .. Len(x) : s[at + m - 1] = x[m]
  BY <1>1, <1>2 DEF Stands
<1>4. ASSUME NEW m \in 1 .. Len(y) PROVE s[(at + Len(x)) + m - 1] = y[m]
  <2>1. Len(x) + m \in 1 .. Len(x) + Len(y) /\ ~(Len(x) + m <= Len(x)) /\ (Len(x) + m) - Len(x) = m
        /\ at + (Len(x) + m) - 1 = (at + Len(x)) + m - 1
    BY <1>1
  <2>2. (x \o y)[Len(x) + m] = y[m]
    BY <1>2, <2>1
  <2>3. s[at + (Len(x) + m) - 1] = (x \o y)[Len(x) + m]
    BY <1>1, <2>1 DEF Stands
  <2> QED
    BY <2>1, <2>2, <2>3
<1>5. at + Len(x) + Len(y) <= Len(s) + 1
  BY <1>1 DEF Stands
<1> QED
  BY <1>1, <1>3, <1>4, <1>5 DEF Stands

\* A varint is read to its end, and for its value.
LEMMA ReadVarint ==
  ASSUME NEW s \in Text, NEW at, NEW c, NEW value, IsVarint(c, 5, value), Stands(c, s, at)
  PROVE  VarintEnd(s, at) = at + Len(c) - 1 /\ VarintAt(s, at) = value
<1> DEFINE e == at + Len(c) - 1
           is(n) == 7 \notin s[n] /\ \A m \in at .. n - 1 : 7 \in s[m]
<1>1. at \in Nat \ {0} /\ Len(c) \in 1 .. 5 /\ c \in Text
  BY DEF Stands, IsVarint
<1>2. e \in at .. at + 9 /\ e \in Nat
  <2>1. \A l \in 1 .. 5, a \in Nat : a + l - 1 \in a .. a + 9 /\ a + l - 1 \in Nat
    OBVIOUS
  <2> QED
    BY <1>1, <2>1
<1>3. is(e)
  <2>1. s[at + Len(c) - 1] = c[Len(c)]
    <3>1. Len(c) \in 1 .. Len(c)
      BY <1>1
    <3> QED
      BY <3>1 DEF Stands
  <2>2. ASSUME NEW m \in at .. e - 1 PROVE 7 \in s[m]
    <3>1. PICK k \in 1 .. Len(c) - 1 : m = at + k - 1
      <4>1. m - at + 1 \in 1 .. Len(c) - 1 /\ m = at + (m - at + 1) - 1
        BY <1>1
      <4> QED
        BY <4>1
    <3>2. s[at + k - 1] = c[k] /\ 7 \in c[k]
      <4>1. k \in 1 .. Len(c)
        BY <1>1
      <4> QED
        BY <4>1 DEF Stands, IsVarint
    <3> QED
      BY <3>1, <3>2
  <2> QED
    BY <2>1, <2>2 DEF IsVarint
<1>4. ASSUME NEW n \in at .. at + 9, is(n) PROVE n = e
  <2> HIDE DEF e, is
  <2>0. n \in Nat /\ n >= at /\ e >= at /\ at \in Nat
    BY <1>1, <1>2
  <2>1. CASE n < e
    <3>1. n \in at .. e - 1
      BY <1>2, <2>0, <2>1
    <3> QED
      BY <1>3, <1>4, <3>1, Zenon DEF is
  <2>2. CASE e < n
    <3>1. e \in at .. n - 1
      BY <1>2, <2>0, <2>2
    <3> QED
      BY <1>3, <1>4, <3>1, Zenon DEF is
  <2> QED
    BY <1>2, <2>0, <2>1, <2>2
<1>5. VarintEnd(s, at) = CHOOSE n \in at .. at + 9 : is(n)
  BY DEF VarintEnd
<1> HIDE DEF is
<1>6. VarintEnd(s, at) = e
  <2> HIDE DEF e
  <2> QED
    BY <1>2, <1>3, <1>4, <1>5
<1> DEFINE part(n) == {7 * (n - at) + b : b \in s[n] \ {7}}
<1>7. VarintAt(s, at) = UNION {part(n) : n \in at .. e}
  BY <1>6, Zenon DEF VarintAt
<1>8. \A n, i : i \in part(n) <=> \E b \in s[n] \ {7} : i = 7 * (n - at) + b
  OBVIOUS
<1> HIDE DEF part
<1>9. \A i : i \in VarintAt(s, at) <=> \E n \in at .. e : \E b \in s[n] \ {7} : i = 7 * (n - at) + b
  <2>1. \A i : i \in VarintAt(s, at) <=> \E n \in at .. e : i \in part(n)
    <3> HIDE DEF e
    <3> QED
      BY <1>7
  <2> HIDE DEF e
  <2>2. \A i, n : i \in part(n) <=> \E b \in s[n] \ {7} : i = 7 * (n - at) + b
    BY <1>8
  <2> QED
    BY <2>1, <2>2
<1>10. ASSUME NEW i \in VarintAt(s, at) PROVE i \in ValueOf(c)
  <2>0. PICK n \in at .. e : \E b \in s[n] \ {7} : i = 7 * (n - at) + b
    BY <1>9
  <2>1. PICK b \in s[n] \ {7} : i = 7 * (n - at) + b
    BY <2>0
  <2>2. PICK m \in 1 .. Len(c) : n = at + m - 1
    <3>1. n - at + 1 \in 1 .. Len(c) /\ n = at + (n - at + 1) - 1
      BY <1>1
    <3> QED
      BY <3>1
  <2>3. n - at = m - 1 /\ s[n] = c[m]
    BY <1>1, <2>2 DEF Stands
  <2> QED
    BY <2>1, <2>3, InValue
<1>11. ASSUME NEW i \in ValueOf(c) PROVE i \in VarintAt(s, at)
  <2>0. PICK m \in 1 .. Len(c) : \E b \in c[m] \ {7} : i = 7 * (m - 1) + b
    BY InValue
  <2>1. PICK b \in c[m] \ {7} : i = 7 * (m - 1) + b
    BY <2>0
  <2>2. s[at + m - 1] = c[m]
    BY DEF Stands
  <2>3. at + m - 1 \in at .. e /\ (at + m - 1) - at = m - 1
    <3>1. at \in Nat /\ Len(c) \in Nat
      BY <1>1
    <3> QED
      BY <3>1
  <2>4. PICK n : n = at + m - 1
    OBVIOUS
  <2>5. n \in at .. e /\ i = 7 * (n - at) + b /\ b \in s[n] \ {7}
    BY <2>1, <2>2, <2>3, <2>4
  <2> HIDE DEF e
  <2> QED
    BY <1>9, <2>5
<1> QED
  BY <1>6, <1>10, <1>11 DEF IsVarint, e

\* Keys are numbers of at most eight bits; 128 would be cut.
LEMMA KeyIs ==
  ASSUME NEW idx \in 1 .. 25, NEW kind \in {0, 2}, 8 * idx + kind # 128
  PROVE  LET key == Bits(8 * idx + kind)
         IN  /\ Received(key) = key
             /\ Number(Shr(key, 3)) = idx
             /\ Cut(3, key) = {} <=> kind = 0
<1> DEFINE n == 8 * idx + kind
           key == Bits(n)
<1>1. n \in 0 .. 255 /\ n # 128
  OBVIOUS
<1>2. key \in Word(8)
  BY <1>1, BitsBelow
<1>3. \A i \in 0 .. 30 : i \in key <=> (n \div P[i]) % 2 = 1
  BY BitsIs
<1> HIDE DEF key, n
<1>31. /\ (0 \in key <=> (n \div 1) % 2 = 1)
       /\ (1 \in key <=> (n \div 2) % 2 = 1)
       /\ (2 \in key <=> (n \div 4) % 2 = 1)
       /\ (3 \in key <=> (n \div 8) % 2 = 1)
       /\ (4 \in key <=> (n \div 16) % 2 = 1)
       /\ (5 \in key <=> (n \div 32) % 2 = 1)
       /\ (6 \in key <=> (n \div 64) % 2 = 1)
       /\ (7 \in key <=> (n \div 128) % 2 = 1)
  <2>1. \A i \in 0 .. 30 : \A p : P[i] = p => (i \in key <=> (n \div p) % 2 = 1)
    BY <1>3
  <2>2. \A i \in 0 .. 7 : i \in 0 .. 30
    OBVIOUS
  <2>3. 0 \in 0 .. 7 /\ 1 \in 0 .. 7 /\ 2 \in 0 .. 7 /\ 3 \in 0 .. 7 /\ 4 \in 0 .. 7 /\ 5 \in 0 .. 7
        /\ 6 \in 0 .. 7 /\ 7 \in 0 .. 7
    OBVIOUS
  <2>4. P[0] = 1 /\ P[1] = 2 /\ P[2] = 4 /\ P[3] = 8 /\ P[4] = 16 /\ P[5] = 32 /\ P[6] = 64 /\ P[7] = 128
    BY PIs
  <2>5. \A i \in 0 .. 7 : i \in key <=> (n \div P[i]) % 2 = 1
    BY <2>1, <2>2, Zenon
  <2> DEFINE odd(i) == i \in key
             one(p) == (n \div p) % 2 = 1
  <2>6. \A i \in 0 .. 7 : odd(i) <=> one(P[i])
    BY <2>5, Zenon
  <2> HIDE DEF odd, one
  <2>7. /\ (odd(0) <=> one(1))
        /\ (odd(1) <=> one(2))
        /\ (odd(2) <=> one(4))
        /\ (odd(3) <=> one(8))
        /\ (odd(4) <=> one(16))
        /\ (odd(5) <=> one(32))
        /\ (odd(6) <=> one(64))
        /\ (odd(7) <=> one(128))
    BY <2>3, <2>4, <2>6, SMT
  <2> QED
    BY <2>7, SMT DEF odd, one
<1>4. key # {7}
  <2> SUFFICES ASSUME key = {7} PROVE FALSE
    OBVIOUS
  <2>1. /\ (n \div 1) % 2 # 1 /\ (n \div 2) % 2 # 1 /\ (n \div 4) % 2 # 1 /\ (n \div 8) % 2 # 1
        /\ (n \div 16) % 2 # 1 /\ (n \div 32) % 2 # 1 /\ (n \div 64) % 2 # 1 /\ (n \div 128) % 2 = 1
    BY <1>31
  <2> QED
    BY <1>1, <2>1
<1>5. ~Quirk(key)
  <2> SUFFICES ASSUME NEW k \in 0 .. 4, Shr(key, 7 * k) = {7} PROVE FALSE
    BY DEF Quirk
  <2>1. 7 \in Shr(key, 7 * k)
    OBVIOUS
  <2>2. PICK b \in key : b >= 7 * k /\ 7 = b - 7 * k
    BY <2>1 DEF Shr
  <2>3. b \in 0 .. 7
    BY <1>2 DEF Word
  <2>4. k = 0
    BY <2>2, <2>3
  <2>5. Shr(key, 0) = key
    <3>1. \A d \in key : d \in Int /\ d >= 0 /\ d - 0 = d
      BY <1>2 DEF Word
    <3> QED
      BY <3>1 DEF Shr
  <2>6. 7 * k = 0
    BY <2>4
  <2> QED
    BY <1>4, <2>5, <2>6
<1>6. Received(key) = key
  <2>1. Cut(32, key) = key
    <3>1. key \subseteq 0 .. 7 /\ 0 .. 7 \subseteq 0 .. 32 - 1
      BY <1>2 DEF Word
    <3> QED
      BY <3>1 DEF Cut
  <2> QED
    BY <1>5, <2>1, RecvIs DEF Recv
<1>7. Shr(key, 3) = Bits(idx)
  <2>1. \A i : i \in Shr(key, 3) <=> \E b \in key : b >= 3 /\ i = b - 3
    BY DEF Shr
  <2>2. \A b \in key : b \in 0 .. 7
    BY <1>2 DEF Word
  <2>3. \A i : i \in Shr(key, 3) <=> i \in 0 .. 4 /\ i + 3 \in key
    BY <2>1, <2>2
  <2>4. Bits(idx) \in Word(7)
    <3>1. idx \in 0 .. 127
      OBVIOUS
    <3> QED
      BY <3>1, BitsBelow
  <2>5. \A i \in 0 .. 30 : i \in Bits(idx) <=> (idx \div P[i]) % 2 = 1
    BY BitsIs
  <2>6. \A i \in 0 .. 4 : i + 3 \in key <=> i \in Bits(idx)
    <3> SUFFICES ASSUME NEW i \in 0 .. 4 PROVE i + 3 \in key <=> i \in Bits(idx)
      OBVIOUS
    <3>1. i + 3 \in key <=> (n \div P[i + 3]) % 2 = 1
      BY <1>3
    <3>2. i \in Bits(idx) <=> (idx \div P[i]) % 2 = 1
      BY <2>5
    <3>3. /\ n \div 8 = idx \div 1 /\ n \div 16 = idx \div 2 /\ n \div 32 = idx \div 4
          /\ n \div 64 = idx \div 8 /\ n \div 128 = idx \div 16
      BY DEF n
    <3>4. n \div P[i + 3] = idx \div P[i]
      <4> HIDE DEF n
      <4>1. i \in {0, 1, 2, 3, 4}
        OBVIOUS
      <4> QED
        BY <3>3, <4>1, PIs
    <3> QED
      BY <3>1, <3>2, <3>4
  <2>7. \A i \in 5 .. 6 : i \notin Bits(idx)
    <3>1. (idx \div 32) % 2 # 1 /\ (idx \div 64) % 2 # 1
      OBVIOUS
    <3> QED
      BY <2>5, <3>1, PIs
  <2>8. \A i \in Bits(idx) : i \in 0 .. 4
    <3>1. \A i \in Bits(idx) : i \in 0 .. 6
      BY <2>4 DEF Word
    <3>2. \A i \in 0 .. 6 : i \in 0 .. 4 \/ i \in 5 .. 6
      OBVIOUS
    <3> QED
      BY <2>7, <3>1, <3>2
  <2> QED
    BY <2>3, <2>6, <2>8
<1>8. Number(Bits(idx)) = idx
  <2>1. idx \in Nat /\ idx < P[20]
    BY PIs
  <2> QED
    BY <2>1, NumberOfBits
<1>9. Cut(3, key) = {} <=> kind = 0
  <2>4. (n \div 1) % 2 # 1 /\ (n \div 4) % 2 # 1 /\ ((n \div 2) % 2 = 1 <=> kind = 2)
    BY DEF n
  <2>5. 0 .. 3 - 1 = {0, 1, 2}
    OBVIOUS
  <2> QED
    BY <1>31, <2>4, <2>5 DEF Cut
<1> QED
  BY <1>6, <1>7, <1>8, <1>9 DEF key, n

Short(m) == m < 16384

\* A field whose key is read back: its number and its kind are not cut to 0.
Readable(f) ==
  /\ f \in Field /\ f.idx \in 1 .. 25 /\ 8 * f.idx + f.kind # 128
  /\ f.kind = 0 => f.data = <<>>
  /\ f.kind = 2 => f.varint = {} /\ ~Quirk(Bits(Len(f.data))) /\ Short(Len(f.data))

AsRead(f) == [f EXCEPT !.varint = Received(@)]

\* A length below 2^14 that the quirk spares is received as it was sent.
LEMMA LengthRead ==
  ASSUME NEW n \in Nat, Short(n), ~Quirk(Bits(n))
  PROVE  Received(Bits(n)) = Bits(n) /\ Number(Bits(n)) = n
<1>1. Bits(n) \in Word(14)
  BY BitsBelow DEF Short
<1>2. Cut(32, Bits(n)) = Bits(n)
  <2>1. Bits(n) \subseteq 0 .. 13 /\ 0 .. 13 \subseteq 0 .. 32 - 1
    BY <1>1 DEF Word
  <2> HIDE DEF Bits
  <2> QED
    BY <2>1 DEF Cut
<1> PICK b : b = Bits(n)
  OBVIOUS
<1>4. Number(b) = n
  <2>1. n < P[20]
    BY PIs DEF Short
  <2> QED
    BY <2>1, NumberOfBits
<1>5. Received(b) = Recv(b)
  <2>1. Cut(32, b) = b
    BY <1>2
  <2> QED
    BY <2>1, RecvIs
<1>6. ~Quirk(b)
  OBVIOUS
<1>7. Recv(b) = b
  BY <1>6 DEF Recv
<1> QED
  BY <1>4, <1>5, <1>7

\* A field that stands in a text is read from there, and behind it is the next one.
LEMMA FieldRead ==
  ASSUME NEW s \in Text, NEW at, NEW f, Readable(f), Stands(Coded(f), s, at)
  PROVE  FieldAt(s, at).field = AsRead(f) /\ FieldAt(s, at).next = at + Len(Coded(f))
<1>1. /\ f \in Field /\ f.idx \in 1 .. 25 /\ f.kind \in {0, 2} /\ f.data \in Text
      /\ f.varint \in Word(64) /\ 8 * f.idx + f.kind # 128
  BY DEF Readable, Field
<1>2. PICK key : key = Key(f)
  OBVIOUS
<1>3. Received(key) = key /\ Number(Shr(key, 3)) = f.idx /\ (Cut(3, key) = {} <=> f.kind = 0)
  BY <1>1, <1>2, KeyIs DEF Key
<1>4. PICK k : k = Varint(key)
  OBVIOUS
<1>5. IsVarint(k, 5, key) /\ k \in Text /\ Len(k) \in 1 .. 5
  BY <1>3, <1>4, VarintRead, VarintText
<1>6. at \in Nat \ {0}
  BY DEF Stands
<1>7. f = [idx |-> f.idx, kind |-> f.kind, varint |-> f.varint, data |-> f.data]
  BY <1>1 DEF Field
<1>8. AsRead(f) = [idx |-> f.idx, kind |-> f.kind, varint |-> Received(f.varint), data |-> f.data]
  <2> HIDE DEF Received
  <2> QED
    BY <1>7 DEF AsRead
<1>9. CASE f.kind = 0
  <2>1. PICK v : v = Varint(f.varint)
    OBVIOUS
  <2>2. IsVarint(v, 5, Received(f.varint)) /\ v \in Text /\ Len(v) \in 1 .. 5
    BY <2>1, VarintRead, VarintText
  <2>3. Coded(f) = k \o v /\ Len(Coded(f)) = Len(k) + Len(v)
    BY <1>2, <1>4, <1>5, <1>9, <2>1, <2>2, ConcatIs DEF Coded
  <2>4. Stands(k, s, at) /\ Stands(v, s, at + Len(k))
    BY <1>5, <2>2, <2>3, StandsParts
  <2>5. VarintEnd(s, at) = at + Len(k) - 1 /\ VarintAt(s, at) = key
    BY <1>5, <1>6, <2>4, ReadVarint
  <2>6. VarintEnd(s, at) + 1 = at + Len(k)
    BY <1>5, <1>6, <2>5
  <2>7. VarintEnd(s, at + Len(k)) = at + Len(k) + Len(v) - 1 /\ VarintAt(s, at + Len(k)) = Received(f.varint)
    BY <2>2, <2>4, ReadVarint
  <2>8. VarintEnd(s, at + Len(k)) + 1 = at + Len(Coded(f))
    BY <1>5, <1>6, <2>2, <2>3, <2>7
  <2>9. FieldAt(s, at) = [field |-> VarintField(f.idx, Received(f.varint)), next |-> at + Len(Coded(f))]
    BY <1>3, <1>9, <2>5, <2>6, <2>7, <2>8, Zenon DEF FieldAt
  <2>10. f.data = <<>>
    BY <1>9 DEF Readable
  <2>11. AsRead(f) = VarintField(f.idx, Received(f.varint))
    BY <1>8, <1>9, <2>10, Zenon DEF VarintField
  <2> QED
    BY <2>9, <2>11
<1>10. CASE f.kind = 2
  <2>1. PICK v : v = Varint(Bits(Len(f.data)))
    OBVIOUS
  <2>a. f.varint = {} /\ ~Quirk(Bits(Len(f.data))) /\ Short(Len(f.data)) /\ Len(f.data) \in Nat
    BY <1>1, <1>10, TextLen DEF Readable
  <2>2. IsVarint(v, 5, Bits(Len(f.data))) /\ v \in Text /\ Len(v) \in 1 .. 5
    BY <2>1, <2>a, VarintRead, VarintText, LengthRead
  <2>3. Coded(f) = k \o (v \o f.data) /\ v \o f.data \in Text /\ Len(v \o f.data) = Len(v) + Len(f.data)
        /\ Len(Coded(f)) = Len(k) + Len(v \o f.data)
    BY <1>1, <1>2, <1>4, <1>5, <1>10, <2>1, <2>2, ConcatIs DEF Coded
  <2>4. Stands(k, s, at) /\ Stands(v \o f.data, s, at + Len(k))
    BY <1>5, <2>3, StandsParts
  <2>b. Stands(v, s, at + Len(k)) /\ Stands(f.data, s, at + Len(k) + Len(v))
    BY <1>1, <2>2, <2>4, StandsParts
  <2>5. VarintEnd(s, at) = at + Len(k) - 1 /\ VarintAt(s, at) = key
    BY <1>5, <1>6, <2>4, ReadVarint
  <2>6. VarintEnd(s, at) + 1 = at + Len(k)
    BY <1>5, <1>6, <2>5
  <2>7. VarintEnd(s, at + Len(k)) = at + Len(k) + Len(v) - 1 /\ VarintAt(s, at + Len(k)) = Bits(Len(f.data))
    <3>1. PICK l, value : l = at + Len(k) /\ value = Bits(Len(f.data))
      OBVIOUS
    <3>2. IsVarint(v, 5, value) /\ Stands(v, s, l)
      BY <2>2, <2>b, <3>1
    <3>3. VarintEnd(s, l) = l + Len(v) - 1 /\ VarintAt(s, l) = value
      BY <3>2, ReadVarint
    <3> QED
      BY <3>1, <3>3, Zenon
  <2>c. PICK end : end = at + Len(k) + Len(v)
    OBVIOUS
  <2>8. VarintEnd(s, at + Len(k)) + 1 = end /\ end + Len(f.data) = at + Len(Coded(f)) /\ end \in Nat \ {0}
    <3>2. at \in Nat /\ at # 0 /\ Len(k) \in Nat /\ Len(v) \in Nat /\ Len(f.data) \in Nat
      BY <1>5, <1>6, <2>2, <2>a
    <3>3. PICK x, y, z : x = Len(k) /\ y = Len(v) /\ z = Len(f.data)
      OBVIOUS
    <3>4. end = at + x + y /\ VarintEnd(s, at + Len(k)) = at + x + y - 1 /\ Len(Coded(f)) = x + (y + z)
      BY <2>3, <2>7, <2>c, <3>3
    <3>a. at \in Nat /\ at # 0 /\ x \in Nat /\ y \in Nat /\ z \in Nat
      BY <3>2, <3>3
    <3>5. /\ at + x + y - 1 + 1 = at + x + y /\ at + x + y + z = at + (x + (y + z))
          /\ at + x + y \in Nat /\ at + x + y # 0
      BY <3>a
    <3>6. VarintEnd(s, at + Len(k)) + 1 = end
      BY <3>4, <3>5, Zenon
    <3>7. end + Len(f.data) = at + Len(Coded(f))
      BY <3>3, <3>4, <3>5, Zenon
    <3> QED
      BY <3>4, <3>5, <3>6, <3>7
  <2>d. Number(Bits(Len(f.data))) = Len(f.data)
    BY <2>a, LengthRead
  <2>e. FieldAt(s, at) = [field |-> StringField(f.idx, SubSeq(s, end, end + Len(f.data) - 1)),
        next |-> end + Len(f.data)]
    <3>1. Cut(3, key) # {}
      BY <1>3, <1>10
    <3> QED
      BY <1>3, <2>5, <2>6, <2>7, <2>8, <2>d, <3>1, Zenon DEF FieldAt
  <2>f. SubSeq(s, end, end + Len(f.data) - 1) = f.data
    <3>1. PICK d : d = f.data
      OBVIOUS
    <3>2. d \in Text /\ Stands(d, s, end) /\ Len(d) \in Nat
      BY <1>1, <2>b, <2>c, <2>a, <3>1
    <3>3. end + Len(d) <= Len(s) + 1 /\ \A m \in 1 .. Len(d) : s[end + m - 1] = d[m]
      BY <3>2 DEF Stands
    <3>4. Len(s) \in Nat /\ DOMAIN d = 1 .. Len(d)
      BY <3>2, TextLen
    <3>5. \A m \in end .. end + Len(d) - 1 : s[m] \in Octet
      <4>1. \A m \in end .. end + Len(d) - 1 : m \in 1 .. Len(s)
        BY <2>8, <3>2, <3>3, <3>4
      <4>2. \A m \in 1 .. Len(s) : s[m] \in Octet
        BY TextLen
      <4> QED
        BY <4>1, <4>2
    <3>6. (end + Len(d) - 1) - end + 1 = Len(d) /\ end \in Int /\ end + Len(d) - 1 \in Int
          /\ (end <= end + Len(d) - 1 <=> Len(d) # 0)
      BY <2>8, <3>2
    <3>7. PICK t : t = SubSeq(s, end, end + Len(d) - 1)
      OBVIOUS
    <3>8. t \in Seq(Octet) /\ Len(t) = Len(d) /\ \A m \in 1 .. Len(d) : t[m] = s[end + m - 1]
      BY <3>2, <3>5, <3>6, <3>7, SubSeqProperties
    <3>9. t = d
      BY <3>2, <3>3, <3>8, TextLen DEF Text
    <3> QED
      BY <3>1, <3>7, <3>9
  <2>g. Received({}) = {}
    <3>1. Cut(32, {}) = {}
      BY DEF Cut
    <3> QED
      BY <3>1, RecvIs DEF Recv
  <2>h. AsRead(f) = StringField(f.idx, f.data)
    <3>1. Received(f.varint) = {}
      BY <2>a, <2>g
    <3> QED
      BY <1>8, <1>10, <3>1 DEF StringField
  <2> QED
    <3>1. FieldAt(s, at) = [field |-> AsRead(f), next |-> at + Len(Coded(f))]
      BY <2>8, <2>e, <2>f, <2>h, Zenon
    <3> QED
      BY <3>1
<1> QED
  BY <1>1, <1>9, <1>10

\* Read from p[k - 1], the k-th field is fs[k] and ends where the next one starts.
Follow(s, fs, n, p) ==
  \A k \in 1 .. n : FieldAt(s, p[k - 1]).field = fs[k] /\ FieldAt(s, p[k - 1]).next = p[k]

\* Fields that follow one another from the first byte to the last are what is read.
LEMMA ReadsFrom ==
  ASSUME NEW s, NEW fs, NEW n \in Nat, Len(fs) = n, NEW p \in [0 .. n -> Nat],
         p[0] = 1, p[n] = Len(s) + 1, Follow(s, fs, n, p)
  PROVE  ReadsAs(s, fs)
<1>0. \A k \in 1 .. n : FieldAt(s, p[k - 1]).field = fs[k] /\ FieldAt(s, p[k - 1]).next = p[k]
  BY DEF Follow
<1> DEFINE body(f) == [k \in 0 .. n |-> IF k = 0 THEN 1 ELSE FieldAt(s, f[k - 1]).next]
           start == CHOOSE f : f = body(f)
<1>1. p = body(p)
  <2> DEFINE r(k) == IF k = 0 THEN 1 ELSE FieldAt(s, p[k - 1]).next
  <2>1. ASSUME NEW k \in 0 .. n PROVE p[k] = r(k)
    <3>1. CASE k = 0
      BY <3>1
    <3>2. CASE k # 0
      <4>1. k \in 1 .. n
        BY <3>2
      <4> QED
        BY <1>0, <3>2, <4>1
    <3> QED
      BY <3>1, <3>2
  <2> HIDE DEF r
  <2>2. p = [k \in 0 .. n |-> r(k)]
    BY <2>1
  <2> QED
    BY <2>2 DEF r
<1>2. start = body(start)
  <2> HIDE DEF body
  <2> QED
    BY <1>1
<1>3. ReadsAs(s, fs) <=> /\ start[Len(fs)] = Len(s) + 1
                         /\ \A k \in 1 .. Len(fs) : FieldAt(s, start[k - 1]).field = fs[k]
  BY DEF ReadsAs
<1> HIDE DEF start
<1>4. \A k \in 0 .. n : start[k] = IF k = 0 THEN 1 ELSE FieldAt(s, start[k - 1]).next
  <2> DEFINE r(k) == IF k = 0 THEN 1 ELSE FieldAt(s, start[k - 1]).next
  <2>1. start = [k \in 0 .. n |-> r(k)]
    BY <1>2
  <2> HIDE DEF r
  <2>2. \A k \in 0 .. n : start[k] = r(k)
    BY <2>1
  <2> QED
    BY <2>2 DEF r
<1>5. \A k \in 0 .. n : start[k] = p[k]
  <2> DEFINE Differ == {k \in 0 .. n : start[k] # p[k]}
  <2> SUFFICES ASSUME Differ # {} PROVE FALSE
    OBVIOUS
  <2>1. Differ \in SUBSET Nat
    OBVIOUS
  <2>2. PICK k \in Differ : \A j \in Differ : k <= j
    BY <2>1, Numbers!LeastNatural
  <2>3. k \in 0 .. n /\ start[k] # p[k]
    OBVIOUS
  <2>4. k # 0
    BY <1>4, <2>3
  <2>5. k \in 1 .. n /\ k - 1 \in 0 .. n /\ ~(k <= k - 1)
    BY <2>3, <2>4
  <2>6. k - 1 \notin Differ
    <3> HIDE DEF Differ
    <3> QED
      BY <2>2, <2>5
  <2>7. start[k - 1] = p[k - 1]
    BY <2>5, <2>6
  <2>8. start[k] = FieldAt(s, p[k - 1]).next
    BY <1>4, <2>3, <2>4, <2>7
  <2>9. p[k] = FieldAt(s, p[k - 1]).next
    BY <1>0, <2>5
  <2> QED
    BY <2>3, <2>8, <2>9
<1>6. start[n] = p[n] /\ \A k \in 1 .. n : start[k - 1] = p[k - 1]
  <2>1. n \in 0 .. n /\ \A k \in 1 .. n : k - 1 \in 0 .. n
    OBVIOUS
  <2> QED
    BY <1>5, <2>1
<1> QED
  BY <1>0, <1>3, <1>6

\* The first n fields of a sequence stand in a text, one behind the other.
Written(out, fs, n) ==
  /\ out \in Text
  /\ \E p \in [0 .. n -> Nat \ {0}] :
       /\ p[0] = 1 /\ p[n] = Len(out) + 1
       /\ \A k \in 1 .. n : Stands(Coded(fs[k]), out, p[k - 1]) /\ p[k] = p[k - 1] + Len(Coded(fs[k]))

\* Nothing is written at first.
LEMMA WrittenNone == \A fs : Written(<<>>, fs, 0)
<1> TAKE fs
<1> DEFINE p == [k \in 0 .. 0 |-> 1]
<1>1. <<>> \in Text /\ Len(<<>>) = 0
  BY DEF Text
<1>2. p \in [0 .. 0 -> Nat \ {0}] /\ p[0] = 1 /\ p[0] = Len(<<>>) + 1
  BY <1>1
<1>3. \A k \in 1 .. 0 : FALSE
  OBVIOUS
<1> QED
  BY <1>1, <1>2, <1>3 DEF Written

\* What stands in a text stands there when more is written behind it.
LEMMA StandsBefore ==
  ASSUME NEW c \in Text, NEW s \in Text, NEW t \in Text, NEW at, Stands(c, s, at)
  PROVE  Stands(c, s \o t, at)
<1>1. Len(c) \in Nat /\ Len(s) \in Nat /\ Len(t) \in Nat /\ Len(s \o t) = Len(s) + Len(t)
  BY TextLen, ConcatIs
<1>2. at \in Nat \ {0} /\ at + Len(c) <= Len(s) + 1
  BY DEF Stands
<1>3. \A m \in 1 .. Len(s) : (s \o t)[m] = s[m]
  BY ConcatProperties DEF Text
<1>4. \A m \in 1 .. Len(c) : at + m - 1 \in 1 .. Len(s)
  BY <1>1, <1>2
<1>5. at + Len(c) <= Len(s \o t) + 1
  BY <1>1, <1>2
<1> QED
  BY <1>2, <1>3, <1>4, <1>5 DEF Stands

\* A text stands behind what it was appended to.
LEMMA StandsBehind ==
  ASSUME NEW s \in Text, NEW t \in Text
  PROVE  Stands(t, s \o t, Len(s) + 1)
<1>1. Len(s) \in Nat /\ Len(t) \in Nat /\ Len(s \o t) = Len(s) + Len(t)
  BY TextLen, ConcatIs
<1>2. \A m \in 1 .. Len(s) + Len(t) : (s \o t)[m] = IF m <= Len(s) THEN s[m] ELSE t[m - Len(s)]
  BY ConcatProperties DEF Text
<1>3. ASSUME NEW m \in 1 .. Len(t) PROVE (s \o t)[(Len(s) + 1) + m - 1] = t[m]
  <2>1. (Len(s) + 1) + m - 1 = Len(s) + m /\ Len(s) + m \in 1 .. Len(s) + Len(t) /\ ~(Len(s) + m <= Len(s))
        /\ (Len(s) + m) - Len(s) = m
    BY <1>1
  <2>2. (s \o t)[Len(s) + m] = t[m]
    BY <1>2, <2>1
  <2> QED
    BY <2>1, <2>2
<1>4. Len(s) + 1 \in Nat \ {0} /\ (Len(s) + 1) + Len(t) <= Len(s \o t) + 1
  BY <1>1
<1> QED
  BY <1>3, <1>4 DEF Stands

\* One more field is written behind those that stand there.
LEMMA WrittenMore ==
  ASSUME NEW out, NEW fs, NEW n \in Nat, NEW cap \in Nat, Written(out, fs, n),
         \A k \in 1 .. n + 1 : fs[k] \in Field, Len(Put(out, fs[n + 1], cap)) <= cap
  PROVE  Written(Put(out, fs[n + 1], cap), fs, n + 1)
<1> DEFINE f == fs[n + 1]
<1>1. out \in Text /\ f \in Field
  BY DEF Written
<1>2. PICK c : c = Coded(f)
  OBVIOUS
<1>3. c \in Text /\ Put(out, f, cap) = out \o c
  BY <1>1, <1>2, CodedText, PutIs
<1>4. out \o c \in Text /\ Len(out \o c) = Len(out) + Len(c) /\ Len(out) \in Nat /\ Len(c) \in Nat
  BY <1>1, <1>3, ConcatIs, TextLen
<1>5. PICK p \in [0 .. n -> Nat \ {0}] :
       /\ p[0] = 1 /\ p[n] = Len(out) + 1
       /\ \A k \in 1 .. n : Stands(Coded(fs[k]), out, p[k - 1]) /\ p[k] = p[k - 1] + Len(Coded(fs[k]))
  BY DEF Written
<1> DEFINE end == Len(out \o c) + 1
           q == [k \in 0 .. n + 1 |-> IF k = n + 1 THEN end ELSE p[k]]
<1>6. end \in Nat \ {0} /\ end = Len(out) + 1 + Len(c)
  BY <1>4
<1> HIDE DEF end
<1>7. \A k \in 0 .. n : q[k] = p[k] /\ q[k] \in Nat \ {0}
  <2>1. \A k \in 0 .. n : k \in 0 .. n + 1 /\ k # n + 1
    OBVIOUS
  <2> QED
    BY <2>1
<1>8. q[n + 1] = end /\ q[0] = 1
  <2>1. 0 \in 0 .. n /\ n + 1 \in 0 .. n + 1
    OBVIOUS
  <2> QED
    BY <1>5, <1>7, <2>1
<1>9. q \in [0 .. n + 1 -> Nat \ {0}]
  <2>1. \A k \in 0 .. n + 1 : k = n + 1 \/ k \in 0 .. n
    OBVIOUS
  <2>2. \A k \in 0 .. n + 1 : q[k] \in Nat \ {0}
    <3> HIDE DEF q
    <3> QED
      BY <1>6, <1>7, <1>8, <2>1
  <2> QED
    BY <2>2
<1> HIDE DEF q
<1>10. ASSUME NEW k \in 1 .. n + 1
       PROVE  Stands(Coded(fs[k]), out \o c, q[k - 1]) /\ q[k] = q[k - 1] + Len(Coded(fs[k]))
  <2>1. CASE k = n + 1
    <3>1. k - 1 = n /\ n \in 0 .. n
      BY <2>1
    <3>2. q[k - 1] = Len(out) + 1
      BY <1>5, <1>7, <3>1
    <3>3. Stands(c, out \o c, Len(out) + 1)
      BY <1>1, <1>3, StandsBehind
    <3> QED
      BY <1>2, <1>6, <1>8, <2>1, <3>2, <3>3
  <2>2. CASE k # n + 1
    <3>1. k \in 1 .. n /\ k \in 0 .. n /\ k - 1 \in 0 .. n
      BY <2>2
    <3>2. Stands(Coded(fs[k]), out, p[k - 1]) /\ p[k] = p[k - 1] + Len(Coded(fs[k]))
      BY <1>5, <3>1
    <3>3. Coded(fs[k]) \in Text
      BY CodedText
    <3>4. Stands(Coded(fs[k]), out \o c, p[k - 1])
      BY <1>1, <1>3, <3>2, <3>3, StandsBefore
    <3> QED
      BY <1>7, <3>1, <3>2, <3>4
  <2> QED
    BY <2>1, <2>2
<1>11. Written(out \o c, fs, n + 1)
  <2>1. q[n + 1] = Len(out \o c) + 1
    BY <1>8 DEF end
  <2> QED
    BY <1>4, <1>8, <1>9, <1>10, <2>1 DEF Written
<1> QED
  BY <1>3, <1>11

\* What is written is read.
LEMMA WrittenReads ==
  ASSUME NEW s, NEW fs, NEW n \in Nat, Written(s, fs, n), DOMAIN fs = 1 .. n,
         \A k \in 1 .. n : Readable(fs[k])
  PROVE  ReadsAs(s, [k \in DOMAIN fs |-> AsRead(fs[k])])
<1> DEFINE rs == [k \in DOMAIN fs |-> AsRead(fs[k])]
<1>1. Len(rs) = n /\ \A k \in 1 .. n : rs[k] = AsRead(fs[k])
  <2>1. rs = [k \in 1 .. n |-> AsRead(fs[k])]
    OBVIOUS
  <2>2. \A k \in 1 .. n : rs[k] = AsRead(fs[k])
    BY <2>1
  <2>3. rs \in [1 .. n -> {AsRead(fs[k]) : k \in 1 .. n}]
    BY <2>1
  <2> HIDE DEF rs
  <2> QED
    BY <2>2, <2>3, FcnIsSeq
<1> HIDE DEF rs
<1>2. s \in Text
  BY DEF Written
<1>3. PICK p \in [0 .. n -> Nat \ {0}] :
       /\ p[0] = 1 /\ p[n] = Len(s) + 1
       /\ \A k \in 1 .. n : Stands(Coded(fs[k]), s, p[k - 1]) /\ p[k] = p[k - 1] + Len(Coded(fs[k]))
  BY DEF Written
<1>4. ASSUME NEW k \in 1 .. n
      PROVE  FieldAt(s, p[k - 1]).field = rs[k] /\ FieldAt(s, p[k - 1]).next = p[k]
  <2>1. Readable(fs[k]) /\ Stands(Coded(fs[k]), s, p[k - 1]) /\ p[k] = p[k - 1] + Len(Coded(fs[k]))
    BY <1>3
  <2>2. FieldAt(s, p[k - 1]).field = AsRead(fs[k]) /\ FieldAt(s, p[k - 1]).next = p[k - 1] + Len(Coded(fs[k]))
    BY <1>2, <2>1, FieldRead
  <2> QED
    BY <1>1, <2>1, <2>2
<1>5. p \in [0 .. n -> Nat] /\ p[0] = 1 /\ p[n] = Len(s) + 1
  BY <1>1, <1>3
<1>6. ReadsAs(s, rs)
  <2>1. p[n] = Len(s) + 1 /\ Len(rs) = n
    BY <1>1, <1>5
  <2>2. Follow(s, rs, n, p)
    BY <1>4, Zenon DEF Follow
  <2> QED
    BY <1>5, <2>1, <2>2, ReadsFrom
<1> QED
  BY <1>6 DEF rs

(***************************************************************************)
(* The two messages inside                                                 *)
(***************************************************************************)

\* The bodies of Serialized for three and four fields.
Upto(fs, cap, n) ==
  LET one   == Put(<<>>, fs[1], cap)
      two   == Put(one, fs[2], cap)
      three == Put(two, fs[3], cap)
      four  == Put(three, fs[4], cap)
  IN  IF n = 0 THEN <<>> ELSE IF n = 1 THEN one ELSE IF n = 2 THEN two ELSE IF n = 3 THEN three ELSE four

\* The serialization of the inner messages, field by field.
LEMMA SerializedIs ==
  ASSUME NEW fs, NEW cap, NEW n \in {3, 4}, Len(fs) = n
  PROVE  Serialized(fs, cap) = Upto(fs, cap, n)
<1> DEFINE body(f) == [k \in 0 .. n |-> IF k = 0 THEN <<>> ELSE Put(f[k - 1], fs[k], cap)]
           upTo == CHOOSE f : f = body(f)
           g == [k \in 0 .. n |-> Upto(fs, cap, k)]
<1>1. Serialized(fs, cap) = upTo[n]
  BY Zenon DEF Serialized
<1>2. ASSUME NEW k \in 0 .. n PROVE Upto(fs, cap, k) = IF k = 0 THEN <<>> ELSE Put(g[k - 1], fs[k], cap)
  <2>1. CASE k = 0
    BY <2>1 DEF Upto
  <2>2. CASE k # 0
    <3>1. k - 1 \in 0 .. n /\ k \in {1, 2, 3, 4}
      BY <2>2
    <3>2. g[k - 1] = Upto(fs, cap, k - 1)
      BY <3>1
    <3> HIDE DEF g
    <3>3. Upto(fs, cap, k) = Put(Upto(fs, cap, k - 1), fs[k], cap)
      <4>1. CASE k = 1
        BY <4>1 DEF Upto
      <4>2. CASE k = 2
        BY <4>2 DEF Upto
      <4>3. CASE k = 3
        BY <4>3 DEF Upto
      <4>4. CASE k = 4
        BY <4>4 DEF Upto
      <4> QED
        BY <3>1, <4>1, <4>2, <4>3, <4>4
    <3> QED
      BY <2>2, <3>2, <3>3
  <2> QED
    BY <2>1, <2>2
<1>3. g = body(g)
  <2> DEFINE r(k) == IF k = 0 THEN <<>> ELSE Put(g[k - 1], fs[k], cap)
  <2>1. \A k \in 0 .. n : Upto(fs, cap, k) = r(k)
    BY <1>2
  <2> HIDE DEF r
  <2>2. g = [k \in 0 .. n |-> r(k)]
    BY <2>1
  <2> QED
    BY <2>2 DEF r
<1>4. upTo = body(upTo)
  <2> HIDE DEF body
  <2> QED
    BY <1>3
<1> HIDE DEF upTo
<1>5. \A k \in 0 .. n : upTo[k] = IF k = 0 THEN <<>> ELSE Put(upTo[k - 1], fs[k], cap)
  <2> DEFINE r(k) == IF k = 0 THEN <<>> ELSE Put(upTo[k - 1], fs[k], cap)
  <2>1. upTo = [k \in 0 .. n |-> r(k)]
    BY <1>4
  <2> HIDE DEF r
  <2>2. \A k \in 0 .. n : upTo[k] = r(k)
    BY <2>1
  <2> QED
    BY <2>2 DEF r
<1>6. ASSUME NEW k \in 1 .. n, upTo[k - 1] = Upto(fs, cap, k - 1) PROVE upTo[k] = Upto(fs, cap, k)
  <2>1. k \in 0 .. n /\ k # 0 /\ k - 1 \in 0 .. n
    OBVIOUS
  <2>2. upTo[k] = Put(upTo[k - 1], fs[k], cap)
    BY <1>5, <2>1
  <2>3. g[k - 1] = Upto(fs, cap, k - 1)
    BY <2>1
  <2>4. Upto(fs, cap, k) = Put(g[k - 1], fs[k], cap)
    BY <1>2, <2>1
  <2> QED
    BY <1>6, <2>2, <2>3, <2>4
<1>7. upTo[0] = Upto(fs, cap, 0)
  <2>1. 0 \in 0 .. n
    OBVIOUS
  <2> QED
    BY <1>5, <2>1 DEF Upto
<1>8. upTo[1] = Upto(fs, cap, 1)
  <2>1. 1 \in 1 .. n /\ 1 - 1 = 0
    OBVIOUS
  <2> QED
    BY <1>6, <1>7, <2>1
<1>9. upTo[2] = Upto(fs, cap, 2)
  <2>1. 2 \in 1 .. n /\ 2 - 1 = 1
    OBVIOUS
  <2> QED
    BY <1>6, <1>8, <2>1
<1>10. upTo[3] = Upto(fs, cap, 3)
  <2>1. 3 \in 1 .. n /\ 3 - 1 = 2
    OBVIOUS
  <2> QED
    BY <1>6, <1>9, <2>1
<1>11. CASE n = 3
  BY <1>1, <1>10, <1>11
<1>12. CASE n = 4
  <2>1. 4 \in 1 .. n /\ 4 - 1 = 3
    BY <1>12
  <2>2. upTo[4] = Upto(fs, cap, 4)
    BY <1>6, <1>10, <2>1
  <2> QED
    BY <1>1, <1>12, <2>2
<1> QED
  BY <1>11, <1>12

\* What is put behind fields that stand in a text, where it fits.
LEMMA PutMore ==
  ASSUME NEW out, NEW fs, NEW n \in Nat, NEW m, m = n + 1, NEW cap \in Nat, NEW share \in Nat,
         Written(out, fs, n), \A k \in 1 .. m : fs[k] \in Field,
         Len(out) + share <= cap, Len(Coded(fs[m])) <= share
  PROVE  /\ Written(Put(out, fs[m], cap), fs, m)
         /\ Len(Put(out, fs[m], cap)) <= Len(out) + share
<1>1. out \in Text /\ fs[m] \in Field /\ Len(out) \in Nat
  BY TextLen DEF Written
<1>2. Len(Put(out, fs[m], cap)) = Len(out) + Len(Coded(fs[m]))
  BY <1>1, PutIs
<1>3. Len(Coded(fs[m])) \in Nat
  BY <1>1, CodedText, TextLen
<1>4. Len(Put(out, fs[m], cap)) <= Len(out) + share /\ Len(Put(out, fs[m], cap)) <= cap
  BY <1>1, <1>2, <1>3
<1>5. \A k \in 1 .. n + 1 : fs[k] \in Field
  OBVIOUS
<1>6. Written(Put(out, fs[n + 1], cap), fs, n + 1)
  BY <1>4, <1>5, WrittenMore
<1> QED
  BY <1>4, <1>6

\* Values that the quirk does not touch: those with their highest bit, and those that
\* have no bit where a shift could leave 0x80 alone.
LEMMA NoQuirk ==
  ASSUME NEW v \in Word(32), 31 \in v \/ (7 \notin v /\ 14 \notin v /\ 21 \notin v /\ 28 \notin v)
  PROVE  ~Quirk(v)
<1> SUFFICES ASSUME NEW k \in 0 .. 4, Shr(v, 7 * k) = {7} PROVE FALSE
  BY DEF Quirk
<1>1. \A b \in v : b \in 0 .. 31
  BY DEF Word
<1>2. \A i : i \in Shr(v, 7 * k) <=> \E b \in v : b >= 7 * k /\ i = b - 7 * k
  BY DEF Shr
<1>3. PICK b \in v : b >= 7 * k /\ 7 = b - 7 * k
  <2>1. 7 \in Shr(v, 7 * k)
    OBVIOUS
  <2> QED
    BY <1>2, <2>1
<1>4. b \in {7, 14, 21, 28} /\ k \in 0 .. 3
  BY <1>1, <1>3
<1>5. CASE 31 \in v
  <2>1. 31 >= 7 * k
    BY <1>4
  <2>2. 31 - 7 * k \in Shr(v, 7 * k)
    BY <1>2, <1>5, <2>1
  <2>3. 31 - 7 * k = 7
    BY <2>2
  <2> QED
    BY <1>4, <2>3
<1>6. CASE 31 \notin v
  BY <1>3, <1>4, <1>6
<1> QED
  BY <1>5, <1>6

\* 32 bits that the quirk spares are received as they are.
LEMMA ReceivedWhole == \A v \in Word(32) : ~Quirk(v) => Received(v) = v
<1> TAKE v \in Word(32)
<1>1. Cut(32, v) = v
  BY DEF Cut, Word
<1> QED
  BY <1>1, RecvIs DEF Recv

\* The words of the two messages.
LEMMA W32Is ==
  ASSUME NEW hi \in Nat, NEW lo \in Nat, hi < 65536, lo < 65536, hi >= 32768
  PROVE  W32(hi, lo) \in Word(32) /\ 31 \in W32(hi, lo)
<1>1. Bits(hi) \in Word(16) /\ Bits(lo) \in Word(16)
  BY BitsBelow
<1>2. 15 \in Bits(hi)
  <2>1. (hi \div 32768) % 2 = 1
    OBVIOUS
  <2>2. P[15] = 32768 /\ 15 \in 0 .. 30
    BY PIs
  <2> QED
    BY <2>1, <2>2, BitsIs
<1> PICK h, l : h = Bits(hi) /\ l = Bits(lo)
  OBVIOUS
<1>3. W32(hi, lo) = {16 + b : b \in h} \cup l
  BY DEF W32
<1>4. h \subseteq 0 .. 15 /\ l \subseteq 0 .. 15 /\ 15 \in h
  BY <1>1, <1>2 DEF Word
<1>5. \A b \in h : 16 + b \in 0 .. 31
  BY <1>4
<1>6. 31 = 16 + 15
  OBVIOUS
<1> QED
  BY <1>3, <1>4, <1>5, <1>6 DEF Word

\* A number the quirk spares, with a key of one byte, is read back.
LEMMA VarintFieldIs ==
  ASSUME NEW idx \in 1 .. 15, NEW v \in Word(32), ~Quirk(v)
  PROVE  LET f == VarintField(idx, v)
         IN  Readable(f) /\ AsRead(f) = f /\ Len(Coded(f)) = 1 + Len(Varint(v)) /\ Len(Coded(f)) <= 6
<1> PICK f : f = VarintField(idx, v)
  OBVIOUS
<1>1. f = [idx |-> idx, kind |-> 0, varint |-> v, data |-> <<>>]
  BY DEF VarintField
<1>2. f \in Field
  <2>1. v \in Word(64)
    BY DEF Word
  <2>2. <<>> \in Text
    BY DEF Text
  <2> QED
    BY <1>1, <2>1, <2>2 DEF Field
<1>3. Readable(f)
  <2>1. f.idx = idx /\ f.kind = 0 /\ f.data = <<>>
    BY <1>1
  <2> QED
    BY <1>2, <2>1 DEF Readable
<1>4. AsRead(f) = f
  <2>1. Received(v) = v
    BY ReceivedWhole
  <2> HIDE DEF Received
  <2> QED
    BY <1>1, <2>1 DEF AsRead
<1>5. Len(Varint(Key(f))) = 1
  <2>1. 8 * f.idx + f.kind \in 0 .. 127
    BY <1>1
  <2>2. Key(f) \in Word(7)
    BY <2>1, BitsBelow DEF Key
  <2> QED
    BY <2>2, VarintLens
<1>6. Len(Coded(f)) = 1 + Len(Varint(v))
  BY <1>1, <1>2, <1>5, CodedText
<1>7. Len(Coded(f)) <= 6
  <2>1. PICK n : n = Len(Varint(v))
    OBVIOUS
  <2>2. n \in 1 .. 5
    BY <2>1, VarintText
  <2>3. Len(Coded(f)) = 1 + n
    BY <1>6, <2>1
  <2> QED
    BY <2>2, <2>3
<1> QED
  BY <1>3, <1>4, <1>6, <1>7

\* The number 1 takes one byte.
LEMMA OneBit == {0} \in Word(32) /\ ~Quirk({0}) /\ Len(Varint({0})) = 1
<1>1. {0} \in Word(32) /\ {0} \in Word(7)
  BY DEF Word
<1> QED
  BY <1>1, NoQuirk, VarintLens

\* The number 8196 takes two bytes.
LEMMA Bits8196 == Bits(8196) \in Word(32) /\ ~Quirk(Bits(8196)) /\ Len(Varint(Bits(8196))) <= 2
<1>0. PICK v : v = Bits(8196)
  OBVIOUS
<1>1. v \in Word(14)
  <2>1. 8196 \in Nat /\ 8196 < 16384
    OBVIOUS
  <2> QED
    BY <1>0, <2>1, BitsBelow
<1>2. v \subseteq 0 .. 13
  BY <1>1 DEF Word
<1>3. 7 \notin v
  <2>1. (8196 \div 128) % 2 # 1
    OBVIOUS
  <2>2. P[7] = 128
    BY PIs
  <2> QED
    BY <1>0, <2>1, <2>2, BitsIs
<1>4. v \in Word(32)
  BY <1>2 DEF Word
<1>5. ~Quirk(v)
  BY <1>2, <1>3, <1>4, NoQuirk
<1>6. Len(Varint(v)) <= 2
  <2>1. Len(Varint(v)) \in 1 .. 2
    BY <1>1, VarintLens, Zenon
  <2>2. \A m \in 1 .. 2 : m <= 2
    OBVIOUS
  <2> QED
    BY <2>1, <2>2, Zenon
<1> QED
  BY <1>0, <1>4, <1>5, <1>6

\* A text of six bytes is read back and takes eight.
LEMMA SixOctets ==
  ASSUME NEW d \in Text, Len(d) = 6
  PROVE  LET f == StringField(1, d)
         IN  Readable(f) /\ AsRead(f) = f /\ Len(Coded(f)) = 8
<1> PICK f : f = StringField(1, d)
  OBVIOUS
<1>1. f = [idx |-> 1, kind |-> 2, varint |-> {}, data |-> d]
  BY DEF StringField
<1>2. f \in Field
  <2>1. {} \in Word(64)
    BY DEF Word
  <2> QED
    BY <1>1, <2>1 DEF Field
<1>3. Bits(6) \in Word(7) /\ Bits(10) \in Word(7)
  BY BitsBelow
<1>4. ~Quirk(Bits(6))
  <2>1. Bits(6) \subseteq 0 .. 6
    BY <1>3 DEF Word
  <2> PICK v : v = Bits(6)
    OBVIOUS
  <2>2. v \in Word(32)
    BY <2>1 DEF Word
  <2>3. 7 \notin v /\ 14 \notin v /\ 21 \notin v /\ 28 \notin v
    BY <2>1
  <2> QED
    BY <2>2, <2>3, NoQuirk
<1>5. Readable(f)
  <2>1. f.idx = 1 /\ f.kind = 2 /\ f.data = d /\ f.varint = {}
    BY <1>1
  <2>2. Len(f.data) = 6
    BY <2>1
  <2>3. f.idx \in 1 .. 25 /\ 8 * f.idx + f.kind # 128 /\ f.kind # 0
    BY <2>1
  <2>4. Short(Len(f.data))
    <3>1. PICK m : m = Len(f.data)
      OBVIOUS
    <3>2. m = 6
      BY <2>2, <3>1
    <3>3. Short(m)
      BY <3>2 DEF Short
    <3> QED
      BY <3>1, <3>3
  <2>5. ~Quirk(Bits(Len(f.data)))
    BY <1>4, <2>2, Zenon
  <2> QED
    BY <1>2, <2>1, <2>3, <2>4, <2>5 DEF Readable
<1>6. AsRead(f) = f
  <2>1. {} \in Word(32)
    BY DEF Word
  <2>2. ~Quirk({})
    BY <2>1, NoQuirk
  <2>3. Received({}) = {}
    BY <2>1, <2>2, ReceivedWhole
  <2> HIDE DEF Received
  <2> QED
    BY <1>1, <2>3 DEF AsRead
<1>7. Len(Coded(f)) = 8
  <2>1. f.idx = 1 /\ f.kind = 2 /\ f.data = d
    BY <1>1
  <2>2. 8 * f.idx + f.kind = 10
    BY <2>1
  <2>3. Key(f) \in Word(7)
    BY <1>3, <2>2 DEF Key
  <2>4. Len(Varint(Key(f))) = 1 /\ Len(Varint(Bits(6))) = 1
    BY <1>3, <2>3, VarintLens
  <2>5. Len(Coded(f)) = Len(Varint(Key(f))) + Len(Varint(Bits(Len(f.data)))) + Len(f.data)
    BY <1>2, <2>1, CodedText
  <2>6. Len(f.data) = 6
    BY <2>1
  <2>7. Len(Varint(Bits(Len(f.data)))) = 1
    BY <2>4, <2>6, Zenon
  <2>8. Len(Coded(f)) = 1 + 1 + 6
    BY <2>4, <2>5, <2>6, <2>7, Zenon
  <2> QED
    BY <2>8
<1> QED
  BY <1>5, <1>6, <1>7

\* Fields that are read back whole, as they are.
Whole(fs, n) ==
  /\ fs \in [1 .. n -> Field] /\ Len(fs) = n
  /\ \A k \in 1 .. n : Readable(fs[k]) /\ AsRead(fs[k]) = fs[k]

\* What is written and whole is read back as it was.
LEMMA WholeReads ==
  ASSUME NEW s, NEW fs, NEW n \in Nat, Written(s, fs, n), Whole(fs, n)
  PROVE  ReadsAs(s, fs)
<1>1. DOMAIN fs = 1 .. n /\ \A k \in 1 .. n : Readable(fs[k]) /\ AsRead(fs[k]) = fs[k]
  BY DEF Whole
<1>2. ReadsAs(s, [k \in DOMAIN fs |-> AsRead(fs[k])])
  BY <1>1, WrittenReads
<1>3. [k \in DOMAIN fs |-> AsRead(fs[k])] = fs
  <2>1. fs = [k \in DOMAIN fs |-> fs[k]]
    BY DEF Whole
  <2> DEFINE r(k) == AsRead(fs[k])
  <2>2. \A k \in DOMAIN fs : r(k) = fs[k]
    BY <1>1
  <2> HIDE DEF r
  <2>3. [k \in DOMAIN fs |-> r(k)] = fs
    BY <2>1, <2>2
  <2> QED
    BY <2>3 DEF r
<1> QED
  BY <1>2, <1>3

\* Three fields that fit are all written.
LEMMA ThreeWritten ==
  ASSUME NEW fs, NEW cap \in Nat, NEW a \in Nat, NEW b \in Nat, NEW c \in Nat, a + b + c <= cap,
         Whole(fs, 3) \/ Whole(fs, 4),
         Len(Coded(fs[1])) <= a, Len(Coded(fs[2])) <= b, Len(Coded(fs[3])) <= c
  PROVE  Written(Upto(fs, cap, 3), fs, 3) /\ Len(Upto(fs, cap, 3)) <= a + b + c
<1>1. \A k \in 1 .. 3 : fs[k] \in Field
  BY DEF Whole
<1>2. PICK s0, s1, s2, s3 :
        /\ s0 = <<>> /\ s1 = Put(s0, fs[1], cap) /\ s2 = Put(s1, fs[2], cap)
        /\ s3 = Put(s2, fs[3], cap)
  OBVIOUS
<1>3. Upto(fs, cap, 3) = s3
  BY <1>2 DEF Upto
<1>4. Written(s0, fs, 0) /\ Len(s0) = 0
  BY <1>2, WrittenNone
<1>5. Written(s1, fs, 1) /\ Len(s1) <= a
  <2>1. Written(Put(s0, fs[1], cap), fs, 1) /\ Len(Put(s0, fs[1], cap)) <= Len(s0) + a
    <3>1. Len(s0) + a <= cap /\ 0 \in Nat /\ 1 = 0 + 1
      BY <1>4
    <3>2. \A k \in 1 .. 1 : fs[k] \in Field
      BY <1>1
    <3> QED
      BY <1>4, <3>1, <3>2, PutMore
  <2> QED
    BY <1>2, <1>4, <2>1
<1>6. Len(s1) \in Nat
  BY <1>5, TextLen DEF Written
<1>7. Written(s2, fs, 2) /\ Len(s2) <= a + b
  <2>1. Written(Put(s1, fs[2], cap), fs, 2) /\ Len(Put(s1, fs[2], cap)) <= Len(s1) + b
    <3>1. Len(s1) + b <= cap /\ 1 \in Nat /\ 2 = 1 + 1
      BY <1>5, <1>6
    <3>2. \A k \in 1 .. 2 : fs[k] \in Field
      BY <1>1
    <3> QED
      BY <1>5, <3>1, <3>2, PutMore
  <2>2. Len(s2) \in Nat
    BY <1>2, <2>1, TextLen DEF Written
  <2> QED
    BY <1>2, <1>5, <1>6, <2>1, <2>2
<1>8. Len(s2) \in Nat
  BY <1>7, TextLen DEF Written
<1>9. Written(s3, fs, 3) /\ Len(s3) <= a + b + c
  <2>1. Written(Put(s2, fs[3], cap), fs, 3) /\ Len(Put(s2, fs[3], cap)) <= Len(s2) + c
    <3>1. Len(s2) + c <= cap /\ 2 \in Nat /\ 3 = 2 + 1
      BY <1>7, <1>8
    <3> QED
      BY <1>1, <1>7, <3>1, PutMore
  <2>2. Len(s3) \in Nat
    BY <1>2, <2>1, TextLen DEF Written
  <2> QED
    BY <1>2, <1>7, <1>8, <2>1, <2>2
<1> QED
  BY <1>3, <1>9

\* Four fields that fit are all written.
LEMMA FourWritten ==
  ASSUME NEW fs, NEW cap \in Nat, NEW a \in Nat, NEW b \in Nat, NEW c \in Nat, NEW d \in Nat,
         a + b + c + d <= cap, Whole(fs, 4), Len(Coded(fs[1])) <= a, Len(Coded(fs[2])) <= b,
         Len(Coded(fs[3])) <= c, Len(Coded(fs[4])) <= d
  PROVE  Written(Upto(fs, cap, 4), fs, 4) /\ Len(Upto(fs, cap, 4)) <= a + b + c + d
<1>1. \A k \in 1 .. 4 : fs[k] \in Field
  BY DEF Whole
<1>2. PICK s : s = Upto(fs, cap, 3)
  OBVIOUS
<1>3. Upto(fs, cap, 4) = Put(s, fs[4], cap)
  BY <1>2 DEF Upto
<1>4. Written(s, fs, 3) /\ Len(s) <= a + b + c
  BY <1>2, ThreeWritten
<1>5. Len(s) \in Nat
  BY <1>4, TextLen DEF Written
<1>6. Written(Put(s, fs[4], cap), fs, 4) /\ Len(Put(s, fs[4], cap)) <= Len(s) + d
  <2>1. Len(s) + d <= cap /\ 3 \in Nat /\ 4 = 3 + 1
    BY <1>4, <1>5
  <2> QED
    BY <1>1, <1>4, <2>1, PutMore
<1>7. PICK t : t = Put(s, fs[4], cap)
  OBVIOUS
<1>8. Len(t) \in Nat
  BY <1>6, <1>7, TextLen DEF Written
<1>9. Len(t) <= a + b + c + d
  BY <1>4, <1>5, <1>6, <1>7, <1>8
<1> QED
  BY <1>3, <1>6, <1>7, <1>9

\* The numbers and the text of the two messages.
LEMMA Whole15 ==
  /\ Whole(Inner15, 4)
  /\ Len(Coded(Inner15[1])) <= 2 /\ Len(Coded(Inner15[2])) <= 2 /\ Len(Coded(Inner15[3])) <= 2
  /\ Len(Coded(Inner15[4])) <= 6
<1>1. PICK v : v = W32(51090, 60620)
  OBVIOUS
<1>2. v \in Word(32) /\ ~Quirk(v)
  <2>1. v \in Word(32) /\ 31 \in v
    BY <1>1, W32Is
  <2> QED
    BY <2>1, NoQuirk
<1>3. Inner15 = <<VarintField(1, {0}), VarintField(2, {0}), VarintField(3, {0}), VarintField(7, v)>>
  BY <1>1 DEF Inner15
<1> DEFINE fine(f) == Readable(f) /\ AsRead(f) = f
<1>4. \A i \in 1 .. 3 : fine(VarintField(i, {0})) /\ Len(Coded(VarintField(i, {0}))) <= 2
  <2> TAKE i \in 1 .. 3
  <2>1. i \in 1 .. 15
    OBVIOUS
  <2>2. fine(VarintField(i, {0})) /\ Len(Coded(VarintField(i, {0}))) = 1 + Len(Varint({0}))
    BY <2>1, VarintFieldIs, OneBit
  <2>3. PICK x : x = Len(Coded(VarintField(i, {0})))
    OBVIOUS
  <2>4. x = 1 + 1
    BY <2>2, <2>3, OneBit, Zenon
  <2>5. x <= 2
    BY <2>4
  <2> QED
    BY <2>2, <2>3, <2>5, Zenon
<1>5. fine(VarintField(7, v)) /\ Len(Coded(VarintField(7, v))) <= 6
  BY <1>2, VarintFieldIs
<1> HIDE DEF fine
<1>6. PICK x, y, z, w :
        /\ x = VarintField(1, {0}) /\ y = VarintField(2, {0}) /\ z = VarintField(3, {0})
        /\ w = VarintField(7, v)
  OBVIOUS
<1>7. /\ fine(x) /\ fine(y) /\ fine(z) /\ fine(w)
      /\ Len(Coded(x)) <= 2 /\ Len(Coded(y)) <= 2 /\ Len(Coded(z)) <= 2 /\ Len(Coded(w)) <= 6
  BY <1>4, <1>5, <1>6
<1>8. PICK fs : fs = <<x, y, z, w>>
  OBVIOUS
<1>9. Inner15 = fs
  BY <1>3, <1>6, <1>8
<1>10. fs[1] = x /\ fs[2] = y /\ fs[3] = z /\ fs[4] = w /\ Len(fs) = 4
  BY <1>8
<1>11. x \in Field /\ y \in Field /\ z \in Field /\ w \in Field
  BY <1>7 DEF Readable, fine
<1>12. fs \in [1 .. 4 -> Field]
  BY <1>8, <1>11
<1>13. \A k \in 1 .. 4 : fine(fs[k])
  BY <1>7, <1>10
<1> QED
  BY <1>7, <1>9, <1>10, <1>12, <1>13 DEF Whole, fine

\* The numbers and the text of the second message.
LEMMA Whole23 ==
  /\ Whole(Inner23, 3)
  /\ Len(Coded(Inner23[1])) <= 8 /\ Len(Coded(Inner23[2])) <= 3 /\ Len(Coded(Inner23[3])) <= 6
<1>1. PICK v : v = W32(32992, 55296)
  OBVIOUS
<1>2. v \in Word(32) /\ ~Quirk(v)
  <2>1. v \in Word(32) /\ 31 \in v
    BY <1>1, W32Is
  <2> QED
    BY <2>1, NoQuirk
<1>3. PICK d : d = Octets(<<78, 88, 53, 53, 49, 74>>)
  OBVIOUS
<1>4. d \in Text /\ Len(d) = 6
  <2>1. d = [k \in 1 .. 6 |-> Byte(<<78, 88, 53, 53, 49, 74>>[k])]
    BY <1>3 DEF Octets
  <2>2. \A n : Byte(n) \in Octet
    BY DEF Byte, Octet, Word
  <2>3. d \in [1 .. 6 -> Octet]
    BY <2>1, <2>2
  <2> QED
    BY <2>3, FcnIsSeq DEF Text
<1>a. PICK u : u = Bits(8196)
  OBVIOUS
<1>b. u \in Word(32) /\ ~Quirk(u) /\ Len(Varint(u)) <= 2
  BY <1>a, Bits8196
<1>c. Inner23 = <<StringField(1, d), VarintField(2, u), VarintField(4, v)>>
  BY <1>1, <1>3, <1>a DEF Inner23
<1> DEFINE fine(f) == Readable(f) /\ AsRead(f) = f
<1>5. PICK x, y, z : x = StringField(1, d) /\ y = VarintField(2, u) /\ z = VarintField(4, v)
  OBVIOUS
<1>6. fine(x) /\ Len(Coded(x)) <= 8
  <2>1. fine(x) /\ Len(Coded(x)) = 8
    BY <1>4, <1>5, SixOctets
  <2> QED
    BY <2>1
<1>7. fine(y) /\ Len(Coded(y)) <= 3
  <2>1. fine(y) /\ Len(Coded(y)) = 1 + Len(Varint(u))
    BY <1>5, <1>b, VarintFieldIs
  <2>2. PICK n : n = Len(Varint(u))
    OBVIOUS
  <2>3. n \in 1 .. 5 /\ n <= 2
    BY <1>b, <2>2, VarintText
  <2>4. 1 + n <= 3
    BY <2>3
  <2> QED
    BY <2>1, <2>2, <2>4
<1>8. fine(z) /\ Len(Coded(z)) <= 6
  BY <1>2, <1>5, VarintFieldIs
<1> HIDE DEF fine
<1>9. PICK fs : fs = <<x, y, z>>
  OBVIOUS
<1>10. Inner23 = fs
  BY <1>5, <1>9, <1>c
<1>11. fs[1] = x /\ fs[2] = y /\ fs[3] = z /\ Len(fs) = 3
  BY <1>9
<1>12. x \in Field /\ y \in Field /\ z \in Field
  BY <1>6, <1>7, <1>8 DEF Readable, fine
<1>13. fs \in [1 .. 3 -> Field]
  BY <1>9, <1>12
<1>14. \A k \in 1 .. 3 : fine(fs[k])
  BY <1>6, <1>7, <1>8, <1>11
<1> QED
  BY <1>6, <1>7, <1>8, <1>10, <1>11, <1>13, <1>14 DEF Whole, fine

\* Both messages fit their buffers and read as they were built.
LEMMA InnerIs ==
  /\ Serialized(Inner15, InnerCap) \in Text /\ Len(Serialized(Inner15, InnerCap)) <= 12
  /\ Serialized(Inner23, InnerCap) \in Text /\ Len(Serialized(Inner23, InnerCap)) <= 17
  /\ ReadsAs(Serialized(Inner15, InnerCap), Inner15)
  /\ ReadsAs(Serialized(Inner23, InnerCap), Inner23)
<1>1. InnerCap \in Nat /\ InnerCap >= 17
  BY CapAssumption
<1>2. PICK m15, m23 : m15 = Upto(Inner15, InnerCap, 4) /\ m23 = Upto(Inner23, InnerCap, 3)
  OBVIOUS
<1>3. Len(Inner15) = 4 /\ Len(Inner23) = 3
  BY Whole15, Whole23 DEF Whole
<1>4. Serialized(Inner15, InnerCap) = m15 /\ Serialized(Inner23, InnerCap) = m23
  BY <1>2, <1>3, SerializedIs
<1>5. Written(m15, Inner15, 4) /\ Len(m15) <= 2 + 2 + 2 + 6
  <2>1. 2 + 2 + 2 + 6 <= InnerCap
    BY <1>1
  <2> QED
    BY <1>1, <1>2, <2>1, Whole15, FourWritten
<1>6. Written(m23, Inner23, 3) /\ Len(m23) <= 8 + 3 + 6
  <2>1. 8 + 3 + 6 <= InnerCap
    BY <1>1
  <2> QED
    BY <1>1, <1>2, <2>1, Whole23, ThreeWritten
<1>7. m15 \in Text /\ m23 \in Text
  BY <1>5, <1>6 DEF Written
<1>8. ReadsAs(m15, Inner15)
  BY <1>5, Whole15, WholeReads
<1>9. ReadsAs(m23, Inner23)
  BY <1>6, Whole23, WholeReads
<1>10. Len(m15) <= 12 /\ Len(m23) <= 17
  BY <1>5, <1>6
<1> QED
  BY <1>4, <1>7, <1>8, <1>9, <1>10

(***************************************************************************)
(* What the fields take in the buffer                                      *)
(***************************************************************************)

KeyLen(idx) == IF idx <= 15 THEN 1 ELSE 2

\* The length of a key.
LEMMA KeyLenIs ==
  ASSUME NEW idx \in 1 .. 25, NEW kind \in {0, 2}
  PROVE  Len(Varint(Bits(8 * idx + kind))) <= KeyLen(idx)
<1> PICK n : n = 8 * idx + kind
  OBVIOUS
<1>1. n \in 0 .. 255 /\ (idx <= 15 => n \in 0 .. 127)
  OBVIOUS
<1>2. n \in Nat /\ n < 16384
  BY <1>1
<1>3. Bits(n) \in Word(14) /\ (idx <= 15 => Bits(n) \in Word(7))
  BY <1>1, <1>2, BitsBelow
<1>4. PICK l : l = Len(Varint(Bits(n)))
  OBVIOUS
<1>5. l \in 1 .. 2 /\ (idx <= 15 => l = 1)
  BY <1>3, <1>4, VarintLens
<1>6. l <= KeyLen(idx)
  BY <1>5 DEF KeyLen
<1> QED
  BY <1>4, <1>6

Tiny(m)  == m <= 127

\* The length of a length.
LEMMA LengthLens ==
  ASSUME NEW m \in Nat
  PROVE  /\ Short(m) => Len(Varint(Bits(m))) \in 1 .. 2
         /\ Tiny(m) => Len(Varint(Bits(m))) = 1
<1>1. Short(m) => Bits(m) \in Word(14)
  BY BitsBelow DEF Short
<1>2. Tiny(m) => Bits(m) \in Word(7)
  <2>1. Tiny(m) => m \in 0 .. 127
    BY DEF Tiny
  <2> QED
    BY <2>1, BitsBelow
<1>3. Short(m) => Len(Varint(Bits(m))) \in 1 .. 2
  BY <1>1, VarintLens
<1>4. Tiny(m) => Len(Varint(Bits(m))) = 1
  BY <1>2, VarintLens
<1> QED
  BY <1>3, <1>4

\* What a text field may take.
LEMMA StringShare ==
  ASSUME NEW idx \in 1 .. 25, NEW d \in Text
  PROVE  LET f == StringField(idx, d)
         IN  /\ f \in Field
             /\ Short(Len(d)) => Len(Coded(f)) <= KeyLen(idx) + 2 + Len(d)
             /\ Tiny(Len(d)) => Len(Coded(f)) <= KeyLen(idx) + 1 + Len(d)
<1> PICK f : f = StringField(idx, d)
  OBVIOUS
<1>1. f = [idx |-> idx, kind |-> 2, varint |-> {}, data |-> d]
  BY DEF StringField
<1>2. f \in Field
  <2>1. {} \in Word(64)
    BY DEF Word
  <2> QED
    BY <1>1, <2>1 DEF Field
<1>a. PICK m : m = Len(d)
  OBVIOUS
<1>3. PICK k, l : k = Len(Varint(Key(f))) /\ l = Len(Varint(Bits(m)))
  OBVIOUS
<1>4. Len(Coded(f)) = k + l + m
  <2>1. f.kind = 2 /\ f.data = d
    BY <1>1
  <2> QED
    BY <1>2, <1>3, <1>a, <2>1, CodedText
<1>5. k <= KeyLen(idx) /\ KeyLen(idx) \in 1 .. 2
  <2>1. f.idx = idx /\ f.kind = 2
    BY <1>1
  <2>2. Key(f) = Bits(8 * idx + 2)
    BY <2>1 DEF Key
  <2>3. KeyLen(idx) \in 1 .. 2
    BY DEF KeyLen
  <2> QED
    BY <1>3, <2>2, <2>3, KeyLenIs
<1>6. k \in Nat /\ l \in Nat /\ m \in Nat
  <2>1. k \in 1 .. 5 /\ l \in 1 .. 5
    BY <1>3, VarintText
  <2> QED
    BY <1>3, <1>a, <2>1, TextLen
<1>7. (Short(m) => l \in 1 .. 2) /\ (Tiny(m) => l = 1)
  BY <1>3, <1>6, LengthLens
<1>8. \A x \in 1 .. 2 : x <= 2
  OBVIOUS
<1>9. PICK q : q = KeyLen(idx)
  OBVIOUS
<1>10. q \in Nat /\ k <= q
  BY <1>5, <1>9
<1>11. Short(m) => k + l + m <= q + 2 + m
  BY <1>6, <1>7, <1>8, <1>10
<1>12. Tiny(m) => k + l + m <= q + 1 + m
  BY <1>6, <1>7, <1>10
<1> QED
  BY <1>2, <1>a, <1>4, <1>9, <1>11, <1>12

\* What a number field may take.
LEMMA VarintShare ==
  ASSUME NEW idx \in 1 .. 25, NEW v \in Word(64)
  PROVE  LET f == VarintField(idx, v)
         IN  /\ f \in Field
             /\ Len(Coded(f)) <= KeyLen(idx) + 5
             /\ v \in Word(14) => Len(Coded(f)) <= KeyLen(idx) + 2
             /\ v \in Word(7) => Len(Coded(f)) <= KeyLen(idx) + 1
<1> PICK f : f = VarintField(idx, v)
  OBVIOUS
<1>1. f = [idx |-> idx, kind |-> 0, varint |-> v, data |-> <<>>]
  BY DEF VarintField
<1>2. f \in Field
  <2>1. <<>> \in Text
    BY DEF Text
  <2> QED
    BY <1>1, <2>1 DEF Field
<1>3. PICK k, l, q : k = Len(Varint(Key(f))) /\ l = Len(Varint(v)) /\ q = KeyLen(idx)
  OBVIOUS
<1>4. Len(Coded(f)) = k + l
  <2>1. f.kind = 0 /\ f.varint = v
    BY <1>1
  <2> QED
    BY <1>2, <1>3, <2>1, CodedText
<1>5. k <= q /\ q \in 1 .. 2
  <2>1. f.idx = idx /\ f.kind = 0
    BY <1>1
  <2>2. Key(f) = Bits(8 * idx + 0)
    BY <2>1 DEF Key
  <2>3. KeyLen(idx) \in 1 .. 2
    BY DEF KeyLen
  <2> QED
    BY <1>3, <2>2, <2>3, KeyLenIs
<1>6. k \in Nat /\ l \in 1 .. 5
  <2>1. k \in 1 .. 5 /\ l \in 1 .. 5
    BY <1>3, VarintText
  <2> QED
    BY <2>1
<1>7. (v \in Word(14) => l \in 1 .. 2) /\ (v \in Word(7) => l = 1)
  BY <1>3, VarintLens
<1>8. k + l <= q + 5 /\ (l \in 1 .. 2 => k + l <= q + 2) /\ (l = 1 => k + l <= q + 1)
  BY <1>5, <1>6
<1> QED
  BY <1>2, <1>3, <1>4, <1>7, <1>8

\* Six bytes of a hash.
LEMMA HashSix == \A msg : LET h == Slice(Hash(msg), 0, 6) IN h \in Text /\ Len(h) = 6
<1> TAKE msg
<1>3. PICK h : h = Hash(msg)
  OBVIOUS
<1>2. PICK v : Hash(msg) = Digest(v)
  BY Zenon DEF Hash
<1>4. \A a, k : Low(a, k) \in Octet
  BY DEF Low, Octet, Word
<1>5. \A k \in 1 .. 32 : h[k] \in Octet
  BY <1>2, <1>3, <1>4 DEF Digest
<1>6. \A k \in 1 .. 6 : h[k] \in Octet
  BY <1>5
<1>7. PICK t : t = SubSeq(h, 1, 6)
  OBVIOUS
<1>8. t \in Seq(Octet) /\ Len(t) = 6
  BY <1>6, <1>7, SubSeqProperties
<1>9. Slice(Hash(msg), 0, 6) = t
  BY <1>3, <1>7 DEF Slice
<1> QED
  BY <1>8, <1>9 DEF Text

\* What is written before each field at most, when the texts fit: the texts that the
\* caller chooses and the rest, which adds up to Overhead.
Spent(c) ==
  LET d == Len(c.device_id)
      v == d + Len(c.version_name)
      s == v + Len(c.sdk_version)
      e == s + Len(c.sec_device_id)
  IN  <<0, 6, 8, 14, 27, 30 + d, 43 + d, 46 + v, 49 + s, 55 + s, 65 + s,
        71 + s, 77 + s, 85 + s, 93 + s, 107 + s, 111 + e, 118 + e, 122 + e, 142 + e, 145 + e>>

Shaped(f) ==
  /\ f \in Field /\ f.idx \in 1 .. 25 /\ 8 * f.idx + f.kind # 128
  /\ f.kind = 0 => f.data = <<>>
  /\ f.kind = 2 => f.varint = {}

\* Every field that argus_get_sign adds can be read to its end.
LEMMA ShapedFields ==
  /\ \A idx \in 1 .. 25, d \in Text : Shaped(StringField(idx, d))
  /\ \A idx \in 1 .. 15 \cup 17 .. 25, v \in Word(64) : Shaped(VarintField(idx, v))
<1>1. ASSUME NEW idx \in 1 .. 25, NEW d \in Text PROVE Shaped(StringField(idx, d))
  <2> PICK f : f = StringField(idx, d)
    OBVIOUS
  <2>1. f \in Field
    BY StringShare
  <2>2. f.idx = idx /\ f.kind = 2 /\ f.varint = {}
    BY DEF StringField
  <2>3. f.idx \in 1 .. 25 /\ 8 * f.idx + f.kind # 128 /\ f.kind # 0
    BY <2>2
  <2> QED
    BY <2>1, <2>2, <2>3 DEF Shaped
<1>2. ASSUME NEW idx \in 1 .. 15 \cup 17 .. 25, NEW v \in Word(64) PROVE Shaped(VarintField(idx, v))
  <2> PICK f : f = VarintField(idx, v)
    OBVIOUS
  <2>1. f \in Field
    <3>1. idx \in 1 .. 25
      OBVIOUS
    <3> QED
      BY <3>1, VarintShare
  <2>2. f.idx = idx /\ f.kind = 0 /\ f.data = <<>>
    BY DEF VarintField
  <2>3. f.idx \in 1 .. 25 /\ 8 * f.idx + f.kind # 128 /\ f.kind # 2
    BY <2>2
  <2> QED
    BY <2>1, <2>2, <2>3 DEF Shaped
<1> QED
  BY <1>1, <1>2

\* Keys up to 15 take one byte, the others two.
LEMMA KeyLens == (\A idx \in 1 .. 15 : KeyLen(idx) = 1) /\ \A idx \in 16 .. 25 : KeyLen(idx) = 2
BY DEF KeyLen

\* The values of the fields.
LEMMA Values ==
  ASSUME NEW c \in Call
  PROVE  /\ Cut(31, c.rand_int) \in Word(64) /\ c.sdk_version_int \in Word(64) /\ c.platform \in Word(64)
         /\ {i + 1 : i \in Cut(63, c.timestamp)} \in Word(64)
<1>1. \A w \in 0 .. 64 : Word(w) \subseteq Word(64)
  BY DEF Word
<1>2. Word(31) \subseteq Word(64) /\ Word(7) \subseteq Word(64) /\ Word(14) \subseteq Word(64)
  BY <1>1
<1>6. Cut(31, c.rand_int) \in Word(64)
  BY <1>2, CutIs
<1>7. c.sdk_version_int \in Word(64) /\ c.platform \in Word(64)
  BY DEF Call
<1>8. {i + 1 : i \in Cut(63, c.timestamp)} \in Word(64)
  <2>1. \A i \in Cut(63, c.timestamp) : i \in 0 .. 62
    BY DEF Cut
  <2>2. \A i \in Cut(63, c.timestamp) : i + 1 \in 0 .. 63
    BY <2>1
  <2>3. 64 - 1 = 63
    OBVIOUS
  <2> HIDE DEF Cut
  <2> QED
    BY <2>2, <2>3 DEF Word
<1> QED
  BY <1>6, <1>7, <1>8

\* The widths of the numbers that are always the same.
LEMMA FixedNumbers ==
  Bits(1077940818) \in Word(64) /\ Bits(2) \in Word(7) /\ Bits(738) \in Word(14)
<1>1. \A n : Bits(n) \in Word(64)
  <2>1. Word(31) \subseteq Word(64)
    BY DEF Word
  <2> QED
    BY <2>1, BitsBelow, SMT
<1>2. Bits(2) \in Word(7)
  BY BitsBelow, SMT
<1>3. Bits(738) \in Word(14)
  BY BitsBelow, SMT
<1> QED
  BY <1>1, <1>2, <1>3, SMT

\* The texts of a call and the lengths that are always the same.
LEMMA Texts ==
  ASSUME NEW c \in Call
  PROVE  /\ c.aid \in Text /\ Len(c.aid) <= 11 /\ c.license_id \in Text /\ Len(c.license_id) <= 11
         /\ c.device_id \in Text /\ c.version_name \in Text /\ c.sdk_version \in Text /\ c.sec_device_id \in Text
         /\ Repeated({}, 8) \in Text /\ Len(Repeated({}, 8)) = 8
         /\ Octets(<<110, 111, 110, 101>>) \in Text /\ Len(Octets(<<110, 111, 110, 101>>)) = 4
<1>1. c.aid \in Decimal /\ c.license_id \in Decimal /\ c.device_id \in Text /\ c.version_name \in Text
      /\ c.sdk_version \in Text /\ c.sec_device_id \in Text
  BY DEF Call
<1>2. c.aid \in Text /\ Len(c.aid) <= 11 /\ c.license_id \in Text /\ Len(c.license_id) <= 11
  BY <1>1 DEF Decimal
<1>3. Repeated({}, 8) \in Text /\ Len(Repeated({}, 8)) = 8
  <2>1. {} \in Octet
    BY DEF Octet, Word
  <2>2. PICK r : r = Repeated({}, 8)
    OBVIOUS
  <2>3. r \in [1 .. 8 -> Octet]
    BY <2>1, <2>2 DEF Repeated
  <2>4. r \in Seq(Octet) /\ Len(r) = 8
    BY <2>3, FcnIsSeq, ZenonT(30)
  <2> QED
    BY <2>2, <2>4, Zenon DEF Text
<1>4. PICK d : d = Octets(<<110, 111, 110, 101>>)
  OBVIOUS
<1>5. d \in Text /\ Len(d) = 4
  <2>1. d = [k \in 1 .. 4 |-> Byte(<<110, 111, 110, 101>>[k])]
    BY <1>4 DEF Octets
  <2>2. \A n : Byte(n) \in Octet
    BY DEF Byte, Octet, Word
  <2>3. d \in [1 .. 4 -> Octet]
    BY <2>1, <2>2
  <2> QED
    BY <2>3, FcnIsSeq DEF Text
<1> QED
  BY <1>1, <1>2, <1>3, <1>4, <1>5

\* Shares of the fields.
LEMMA TextShare ==
  ASSUME NEW idx \in 1 .. 25, NEW d \in Text, NEW most \in 0 .. 127, Len(d) <= most
  PROVE  Len(Coded(StringField(idx, d))) <= KeyLen(idx) + 1 + most
<1> PICK m, l, q : m = Len(d) /\ l = Len(Coded(StringField(idx, d))) /\ q = KeyLen(idx)
  OBVIOUS
<1>1. m \in Nat /\ l \in Nat /\ q \in Nat
  <2>1. l \in Nat
    BY StringShare, CodedText, TextLen
  <2>2. m \in Nat
    BY TextLen
  <2> QED
    BY <2>1, <2>2 DEF KeyLen
<1>2. m <= most
  OBVIOUS
<1>3. Tiny(m)
  BY <1>1, <1>2 DEF Tiny
<1>4. l <= q + 1 + m
  BY <1>3, StringShare
<1>5. l <= q + 1 + most
  BY <1>1, <1>2, <1>4
<1> QED
  BY <1>5

\* Small widths are widths of 64 bits.
LEMMA SmallWords == Word(7) \subseteq Word(64) /\ Word(14) \subseteq Word(64)
<1>1. \A w \in 0 .. 64 : Word(w) \subseteq Word(64)
  BY DEF Word
<1> QED
  BY <1>1

\* The shares of the fields add up to Overhead and the texts.
LEMMA SpentIs ==
  ASSUME NEW c \in Call, TextsOf(c) + Overhead <= BeanCap
  PROVE  /\ Short(Len(c.device_id)) /\ Short(Len(c.version_name)) /\ Short(Len(c.sdk_version)) /\ Short(Len(c.sec_device_id))
         /\ \A k \in 1 .. 21 : Spent(c)[k] \in Nat /\ Spent(c)[k] <= BeanCap
<1>1. PICK d, v, s, e :
        /\ d = Len(c.device_id) /\ v = Len(c.version_name) /\ s = Len(c.sdk_version)
        /\ e = Len(c.sec_device_id)
  OBVIOUS
<1>2. d \in Nat /\ v \in Nat /\ s \in Nat /\ e \in Nat
  BY <1>1, Texts, TextLen
<1>3. BeanCap \in Nat /\ BeanCap <= 16384
  BY CapAssumption
<1>4. d + v + s + e + 145 <= BeanCap
  BY <1>1 DEF TextsOf, Overhead
<1>5. Short(d) /\ Short(v) /\ Short(s) /\ Short(e)
  BY <1>2, <1>3, <1>4 DEF Short
<1>6. PICK t : t = Spent(c)
  OBVIOUS
<1>7. t = <<0, 6, 8, 14, 27, 30 + (d), 43 + (d), 46 + (d + v), 49 + (d + v + s), 55 + (d + v + s),
            65 + (d + v + s), 71 + (d + v + s), 77 + (d + v + s), 85 + (d + v + s), 93 + (d + v + s),
            107 + (d + v + s), 111 + (d + v + s + e), 118 + (d + v + s + e), 122 + (d + v + s + e),
            142 + (d + v + s + e), 145 + (d + v + s + e)>>
  BY <1>1, <1>6 DEF Spent
<1>8. /\ t[1] = 0
      /\ t[2] = 6
      /\ t[3] = 8
      /\ t[4] = 14
      /\ t[5] = 27
      /\ t[6] = 30 + (d)
      /\ t[7] = 43 + (d)
      /\ t[8] = 46 + (d + v)
      /\ t[9] = 49 + (d + v + s)
      /\ t[10] = 55 + (d + v + s)
      /\ t[11] = 65 + (d + v + s)
      /\ t[12] = 71 + (d + v + s)
      /\ t[13] = 77 + (d + v + s)
      /\ t[14] = 85 + (d + v + s)
      /\ t[15] = 93 + (d + v + s)
      /\ t[16] = 107 + (d + v + s)
      /\ t[17] = 111 + (d + v + s + e)
      /\ t[18] = 118 + (d + v + s + e)
      /\ t[19] = 122 + (d + v + s + e)
      /\ t[20] = 142 + (d + v + s + e)
      /\ t[21] = 145 + (d + v + s + e)
  BY <1>7
<1>9. /\ t[1] \in Nat /\ t[1] <= BeanCap
      /\ t[2] \in Nat /\ t[2] <= BeanCap
      /\ t[3] \in Nat /\ t[3] <= BeanCap
      /\ t[4] \in Nat /\ t[4] <= BeanCap
      /\ t[5] \in Nat /\ t[5] <= BeanCap
      /\ t[6] \in Nat /\ t[6] <= BeanCap
      /\ t[7] \in Nat /\ t[7] <= BeanCap
      /\ t[8] \in Nat /\ t[8] <= BeanCap
      /\ t[9] \in Nat /\ t[9] <= BeanCap
      /\ t[10] \in Nat /\ t[10] <= BeanCap
      /\ t[11] \in Nat /\ t[11] <= BeanCap
      /\ t[12] \in Nat /\ t[12] <= BeanCap
      /\ t[13] \in Nat /\ t[13] <= BeanCap
      /\ t[14] \in Nat /\ t[14] <= BeanCap
      /\ t[15] \in Nat /\ t[15] <= BeanCap
      /\ t[16] \in Nat /\ t[16] <= BeanCap
      /\ t[17] \in Nat /\ t[17] <= BeanCap
      /\ t[18] \in Nat /\ t[18] <= BeanCap
      /\ t[19] \in Nat /\ t[19] <= BeanCap
      /\ t[20] \in Nat /\ t[20] <= BeanCap
      /\ t[21] \in Nat /\ t[21] <= BeanCap
  BY <1>2, <1>3, <1>4, <1>8
<1>10. \A k \in 1 .. 21 : t[k] \in Nat /\ t[k] <= BeanCap
  <2>1. \A k \in 1 .. 21 : k \in {1, 2, 3, 4, 5, 6, 7, 8, 9, 10, 11, 12, 13, 14, 15, 16, 17, 18, 19, 20, 21}
    OBVIOUS
  <2>2. \A k \in {1, 2, 3, 4, 5, 6, 7, 8, 9, 10, 11, 12, 13, 14, 15, 16, 17, 18, 19, 20, 21} :
          t[k] \in Nat /\ t[k] <= BeanCap
    BY <1>9
  <2> QED
    BY <2>1, <2>2
<1> QED
  BY <1>1, <1>5, <1>6, <1>10

\* The twenty fields: their shape, their numbers, their shares.
LEMMA FieldsAre ==
  ASSUME NEW c \in Call, NEW b \in Text, NEW q \in Text
  PROVE  LET fs == Fields(c, b, q)
         IN  /\ fs \in Seq(Field) /\ Len(fs) = 20 /\ DOMAIN fs = 1 .. 20
             /\ \A k \in 1 .. 20 : Shaped(fs[k])
             /\ fs[15].data = Serialized(Inner15, InnerCap) /\ fs[19].data = Serialized(Inner23, InnerCap)
             /\ \A k \in 1 .. 20 : (fs[k].idx = 15 <=> k = 15) /\ (fs[k].idx = 23 <=> k = 19)
             /\ Len(b) = 6 /\ Len(q) = 6 /\ TextsOf(c) + Overhead <= BeanCap =>
                  \A k \in 1 .. 20 : Spent(c)[k] + Len(Coded(fs[k])) <= Spent(c)[k + 1]
<1>a0. PICK m1 : m1 = Bits(1077940818)
  BY SMT
<1>a1. PICK m2 : m2 = Bits(738)
  BY SMT
<1>a2. PICK m3 : m3 = Bits(2)
  OBVIOUS
<1>a3. PICK m4 : m4 = {i + 1 : i \in Cut(63, c.timestamp)}
  OBVIOUS
<1>a4. PICK m5 : m5 = Cut(31, c.rand_int)
  OBVIOUS
<1>a5. PICK t : t = Octets(<<110, 111, 110, 101>>)
  OBVIOUS
<1>a6. PICK p : p = Repeated({}, 8)
  OBVIOUS
<1>a7. PICK s15 : s15 = Serialized(Inner15, InnerCap)
  OBVIOUS
<1>a8. PICK s23 : s23 = Serialized(Inner23, InnerCap)
  OBVIOUS
<1>1. /\ m1 = Bits(1077940818)
      /\ m2 = Bits(738)
      /\ m3 = Bits(2)
      /\ m4 = {i + 1 : i \in Cut(63, c.timestamp)}
      /\ m5 = Cut(31, c.rand_int)
      /\ t = Octets(<<110, 111, 110, 101>>)
      /\ p = Repeated({}, 8)
      /\ s15 = Serialized(Inner15, InnerCap)
      /\ s23 = Serialized(Inner23, InnerCap)
  BY <1>a0, <1>a1, <1>a2, <1>a3, <1>a4, <1>a5, <1>a6, <1>a7, <1>a8, SMT
<1>2. /\ m1 \in Word(64) /\ m2 \in Word(14) /\ m3 \in Word(7) /\ m4 \in Word(64) /\ m5 \in Word(64)
      /\ c.sdk_version_int \in Word(64) /\ c.platform \in Word(64)
      /\ t \in Text /\ Len(t) = 4 /\ p \in Text /\ Len(p) = 8
      /\ s15 \in Text /\ Len(s15) <= 12 /\ s23 \in Text /\ Len(s23) <= 17
      /\ c.aid \in Text /\ c.license_id \in Text /\ c.device_id \in Text /\ c.version_name \in Text
      /\ c.sdk_version \in Text /\ c.sec_device_id \in Text
  <2>1. m1 \in Word(64) /\ m2 \in Word(14) /\ m3 \in Word(7)
    BY <1>1, FixedNumbers, SMT
  <2>2. m4 \in Word(64) /\ m5 \in Word(64) /\ c.sdk_version_int \in Word(64) /\ c.platform \in Word(64)
    BY <1>1, Values, SMT
  <2>3. t \in Text /\ Len(t) = 4 /\ p \in Text /\ Len(p) = 8
    BY <1>1, Texts, SMT
  <2>4. s15 \in Text /\ Len(s15) <= 12 /\ s23 \in Text /\ Len(s23) <= 17
    BY <1>1, InnerIs, SMT
  <2> QED
    BY <2>1, <2>2, <2>3, <2>4, Texts
<1>3. m2 \in Word(64) /\ m3 \in Word(64)
  BY <1>2, SmallWords
<1>4. PICK x1, x2, x3, x4, x5, x6, x7, x8, x9, x10, x11, x12, x13, x14, x15, x16, x17, x18, x19, x20 :
          /\ x1 = VarintField(1, m1)
          /\ x2 = VarintField(2, m3)
          /\ x3 = VarintField(3, m5)
          /\ x4 = StringField(4, c.aid)
          /\ x5 = StringField(5, c.device_id)
          /\ x6 = StringField(6, c.license_id)
          /\ x7 = StringField(7, c.version_name)
          /\ x8 = StringField(8, c.sdk_version)
          /\ x9 = VarintField(9, c.sdk_version_int)
          /\ x10 = StringField(10, p)
          /\ x11 = VarintField(11, c.platform)
          /\ x12 = VarintField(12, m4)
          /\ x13 = StringField(13, b)
          /\ x14 = StringField(14, q)
          /\ x15 = StringField(15, s15)
          /\ x16 = StringField(16, c.sec_device_id)
          /\ x17 = StringField(20, t)
          /\ x18 = VarintField(21, m2)
          /\ x19 = StringField(23, s23)
          /\ x20 = VarintField(25, m3)
  OBVIOUS
<1>5. PICK fs : fs = <<x1, x2, x3, x4, x5, x6, x7, x8, x9, x10, x11, x12, x13, x14, x15, x16, x17, x18,
      x19, x20>>
  OBVIOUS
<1>6. Fields(c, b, q) = fs
  BY <1>1, <1>4, <1>5, SMT DEF Fields
<1>7. /\ fs[1] = x1 /\ fs[2] = x2 /\ fs[3] = x3 /\ fs[4] = x4 /\ fs[5] = x5 /\ fs[6] = x6
      /\ fs[7] = x7 /\ fs[8] = x8 /\ fs[9] = x9 /\ fs[10] = x10 /\ fs[11] = x11 /\ fs[12] = x12
      /\ fs[13] = x13 /\ fs[14] = x14 /\ fs[15] = x15 /\ fs[16] = x16 /\ fs[17] = x17
      /\ fs[18] = x18 /\ fs[19] = x19 /\ fs[20] = x20 /\ Len(fs) = 20 /\ DOMAIN fs = 1 .. 20
  BY <1>5
<1>8. /\ Shaped(x1) /\ Shaped(x2) /\ Shaped(x3) /\ Shaped(x4) /\ Shaped(x5) /\ Shaped(x6)
      /\ Shaped(x7) /\ Shaped(x8) /\ Shaped(x9) /\ Shaped(x10) /\ Shaped(x11) /\ Shaped(x12)
      /\ Shaped(x13) /\ Shaped(x14) /\ Shaped(x15) /\ Shaped(x16) /\ Shaped(x17) /\ Shaped(x18)
      /\ Shaped(x19) /\ Shaped(x20)
  <2>1. Shaped(x1)
    <3>1. 1 \in 1 .. 15 \cup 17 .. 25
      OBVIOUS
    <3>2. Shaped(VarintField(1, m1))
      BY <1>2, <1>3, <3>1, ShapedFields
    <3> QED
      BY <1>4, <3>2, Zenon
  <2>2. Shaped(x2)
    <3>1. 2 \in 1 .. 15 \cup 17 .. 25
      OBVIOUS
    <3>2. Shaped(VarintField(2, m3))
      BY <1>2, <1>3, <3>1, ShapedFields
    <3> QED
      BY <1>4, <3>2, Zenon
  <2>3. Shaped(x3)
    <3>1. 3 \in 1 .. 15 \cup 17 .. 25
      OBVIOUS
    <3>2. Shaped(VarintField(3, m5))
      BY <1>2, <1>3, <3>1, ShapedFields
    <3> QED
      BY <1>4, <3>2, Zenon
  <2>4. Shaped(x4)
    <3>1. 4 \in 1 .. 25
      OBVIOUS
    <3>2. Shaped(StringField(4, c.aid))
      BY <1>2, <1>3, <3>1, ShapedFields
    <3> QED
      BY <1>4, <3>2, Zenon
  <2>5. Shaped(x5)
    <3>1. 5 \in 1 .. 25
      OBVIOUS
    <3>2. Shaped(StringField(5, c.device_id))
      BY <1>2, <1>3, <3>1, ShapedFields
    <3> QED
      BY <1>4, <3>2, Zenon
  <2>6. Shaped(x6)
    <3>1. 6 \in 1 .. 25
      OBVIOUS
    <3>2. Shaped(StringField(6, c.license_id))
      BY <1>2, <1>3, <3>1, ShapedFields
    <3> QED
      BY <1>4, <3>2, Zenon
  <2>7. Shaped(x7)
    <3>1. 7 \in 1 .. 25
      OBVIOUS
    <3>2. Shaped(StringField(7, c.version_name))
      BY <1>2, <1>3, <3>1, ShapedFields
    <3> QED
      BY <1>4, <3>2, Zenon
  <2>8. Shaped(x8)
    <3>1. 8 \in 1 .. 25
      OBVIOUS
    <3>2. Shaped(StringField(8, c.sdk_version))
      BY <1>2, <1>3, <3>1, ShapedFields
    <3> QED
      BY <1>4, <3>2, Zenon
  <2>9. Shaped(x9)
    <3>1. 9 \in 1 .. 15 \cup 17 .. 25
      OBVIOUS
    <3>2. Shaped(VarintField(9, c.sdk_version_int))
      BY <1>2, <1>3, <3>1, ShapedFields
    <3> QED
      BY <1>4, <3>2, Zenon
  <2>10. Shaped(x10)
    <3>1. 10 \in 1 .. 25
      OBVIOUS
    <3>2. Shaped(StringField(10, p))
      BY <1>2, <1>3, <3>1, ShapedFields
    <3> QED
      BY <1>4, <3>2, Zenon
  <2>11. Shaped(x11)
    <3>1. 11 \in 1 .. 15 \cup 17 .. 25
      OBVIOUS
    <3>2. Shaped(VarintField(11, c.platform))
      BY <1>2, <1>3, <3>1, ShapedFields
    <3> QED
      BY <1>4, <3>2, Zenon
  <2>12. Shaped(x12)
    <3>1. 12 \in 1 .. 15 \cup 17 .. 25
      OBVIOUS
    <3>2. Shaped(VarintField(12, m4))
      BY <1>2, <1>3, <3>1, ShapedFields
    <3> QED
      BY <1>4, <3>2, Zenon
  <2>13. Shaped(x13)
    <3>1. 13 \in 1 .. 25
      OBVIOUS
    <3>2. Shaped(StringField(13, b))
      BY <1>2, <1>3, <3>1, ShapedFields
    <3> QED
      BY <1>4, <3>2, Zenon
  <2>14. Shaped(x14)
    <3>1. 14 \in 1 .. 25
      OBVIOUS
    <3>2. Shaped(StringField(14, q))
      BY <1>2, <1>3, <3>1, ShapedFields
    <3> QED
      BY <1>4, <3>2, Zenon
  <2>15. Shaped(x15)
    <3>1. 15 \in 1 .. 25
      OBVIOUS
    <3>2. Shaped(StringField(15, s15))
      BY <1>2, <1>3, <3>1, ShapedFields
    <3> QED
      BY <1>4, <3>2, Zenon
  <2>16. Shaped(x16)
    <3>1. 16 \in 1 .. 25
      OBVIOUS
    <3>2. Shaped(StringField(16, c.sec_device_id))
      BY <1>2, <1>3, <3>1, ShapedFields
    <3> QED
      BY <1>4, <3>2, Zenon
  <2>17. Shaped(x17)
    <3>1. 20 \in 1 .. 25
      OBVIOUS
    <3>2. Shaped(StringField(20, t))
      BY <1>2, <1>3, <3>1, ShapedFields
    <3> QED
      BY <1>4, <3>2, Zenon
  <2>18. Shaped(x18)
    <3>1. 21 \in 1 .. 15 \cup 17 .. 25
      OBVIOUS
    <3>2. Shaped(VarintField(21, m2))
      BY <1>2, <1>3, <3>1, ShapedFields
    <3> QED
      BY <1>4, <3>2, Zenon
  <2>19. Shaped(x19)
    <3>1. 23 \in 1 .. 25
      OBVIOUS
    <3>2. Shaped(StringField(23, s23))
      BY <1>2, <1>3, <3>1, ShapedFields
    <3> QED
      BY <1>4, <3>2, Zenon
  <2>20. Shaped(x20)
    <3>1. 25 \in 1 .. 15 \cup 17 .. 25
      OBVIOUS
    <3>2. Shaped(VarintField(25, m3))
      BY <1>2, <1>3, <3>1, ShapedFields
    <3> QED
      BY <1>4, <3>2, Zenon
  <2> QED
    BY <2>1, <2>2, <2>3, <2>4, <2>5, <2>6, <2>7, <2>8, <2>9, <2>10, <2>11, <2>12, <2>13, <2>14, <2>15,
       <2>16, <2>17, <2>18, <2>19, <2>20
<1>9. \A k \in 1 .. 20 : k \in {1, 2, 3, 4, 5, 6, 7, 8, 9, 10, 11, 12, 13, 14, 15, 16, 17, 18, 19, 20}
  OBVIOUS
<1>10. \A k \in 1 .. 20 : Shaped(fs[k])
  <2>1. \A k \in {1, 2, 3, 4, 5, 6, 7, 8, 9, 10, 11, 12, 13, 14, 15, 16, 17, 18, 19, 20} : Shaped(fs[k])
    BY <1>7, <1>8
  <2> QED
    BY <1>9, <2>1
<1>11. fs \in Seq(Field)
  <2>1. \A k \in 1 .. 20 : fs[k] \in Field
    BY <1>10 DEF Shaped
  <2>2. fs = [k \in 1 .. 20 |-> fs[k]]
    BY <1>5
  <2>3. fs \in [1 .. 20 -> Field]
    BY <2>1, <2>2
  <2> QED
    BY <2>3, FcnIsSeq
<1>12. /\ x1.idx = 1
       /\ x2.idx = 2
       /\ x3.idx = 3
       /\ x4.idx = 4
       /\ x5.idx = 5
       /\ x6.idx = 6
       /\ x7.idx = 7
       /\ x8.idx = 8
       /\ x9.idx = 9
       /\ x10.idx = 10
       /\ x11.idx = 11
       /\ x12.idx = 12
       /\ x13.idx = 13
       /\ x14.idx = 14
       /\ x15.idx = 15
       /\ x16.idx = 16
       /\ x17.idx = 20
       /\ x18.idx = 21
       /\ x19.idx = 23
       /\ x20.idx = 25
       /\ x15.data = s15 /\ x19.data = s23
  BY <1>4 DEF StringField, VarintField
<1>13. \A k \in 1 .. 20 : (fs[k].idx = 15 <=> k = 15) /\ (fs[k].idx = 23 <=> k = 19)
  <2>1. \A k \in {1, 2, 3, 4, 5, 6, 7, 8, 9, 10, 11, 12, 13, 14, 15, 16, 17, 18, 19, 20} :
          (fs[k].idx = 15 <=> k = 15) /\ (fs[k].idx = 23 <=> k = 19)
    BY <1>7, <1>12
  <2> QED
    BY <1>9, <2>1
<1>14. ASSUME Len(b) = 6, Len(q) = 6, TextsOf(c) + Overhead <= BeanCap, NEW k \in 1 .. 20
       PROVE  Spent(c)[k] + Len(Coded(fs[k])) <= Spent(c)[k + 1]
  <2>1. /\ Short(Len(c.device_id)) /\ Short(Len(c.version_name)) /\ Short(Len(c.sdk_version))
        /\ Short(Len(c.sec_device_id))
    BY <1>14, SpentIs
  <2>2. /\ Len(Coded(VarintField(1, m1))) <= 6
        /\ Len(Coded(VarintField(2, m3))) <= 2
        /\ Len(Coded(VarintField(3, m5))) <= 6
        /\ Len(Coded(StringField(4, c.aid))) <= 13
        /\ Len(Coded(StringField(5, c.device_id))) <= 3 + Len(c.device_id)
        /\ Len(Coded(StringField(6, c.license_id))) <= 13
        /\ Len(Coded(StringField(7, c.version_name))) <= 3 + Len(c.version_name)
        /\ Len(Coded(StringField(8, c.sdk_version))) <= 3 + Len(c.sdk_version)
        /\ Len(Coded(VarintField(9, c.sdk_version_int))) <= 6
        /\ Len(Coded(StringField(10, p))) <= 10
        /\ Len(Coded(VarintField(11, c.platform))) <= 6
        /\ Len(Coded(VarintField(12, m4))) <= 6
        /\ Len(Coded(StringField(13, b))) <= 8
        /\ Len(Coded(StringField(14, q))) <= 8
        /\ Len(Coded(StringField(15, s15))) <= 14
        /\ Len(Coded(StringField(16, c.sec_device_id))) <= 4 + Len(c.sec_device_id)
        /\ Len(Coded(StringField(20, t))) <= 7
        /\ Len(Coded(VarintField(21, m2))) <= 4
        /\ Len(Coded(StringField(23, s23))) <= 20
        /\ Len(Coded(VarintField(25, m3))) <= 3
    <3>1. Len(Coded(VarintField(1, m1))) <= 6
      <4>1. 1 \in 1 .. 25 /\ KeyLen(1) = 1
        BY KeyLens
      <4>2. Len(Coded(VarintField(1, m1))) <= KeyLen(1) + 5
        BY <1>2, <1>3, <4>1, VarintShare
      <4> QED
        BY <4>1, <4>2
    <3>2. Len(Coded(VarintField(2, m3))) <= 2
      <4>1. 2 \in 1 .. 25 /\ KeyLen(2) = 1
        BY KeyLens
      <4>2. Len(Coded(VarintField(2, m3))) <= KeyLen(2) + 1
        BY <1>2, <1>3, <4>1, VarintShare
      <4> QED
        BY <4>1, <4>2
    <3>3. Len(Coded(VarintField(3, m5))) <= 6
      <4>1. 3 \in 1 .. 25 /\ KeyLen(3) = 1
        BY KeyLens
      <4>2. Len(Coded(VarintField(3, m5))) <= KeyLen(3) + 5
        BY <1>2, <1>3, <4>1, VarintShare
      <4> QED
        BY <4>1, <4>2
    <3>4. Len(Coded(StringField(4, c.aid))) <= 13
      <4>1. 4 \in 1 .. 25 /\ KeyLen(4) = 1
        BY KeyLens
      <4>3. c.aid \in Text /\ Len(c.aid) <= 11
        BY <1>2, <1>14, Texts
      <4>4. 11 \in 0 .. 127
        OBVIOUS
      <4>2. Len(Coded(StringField(4, c.aid))) <= KeyLen(4) + 1 + 11
        BY <4>1, <4>3, <4>4, TextShare
      <4> QED
        BY <4>1, <4>2
    <3>5. Len(Coded(StringField(5, c.device_id))) <= 3 + Len(c.device_id)
      <4>1. 5 \in 1 .. 25 /\ KeyLen(5) = 1
        BY KeyLens
      <4>2. Len(Coded(StringField(5, c.device_id))) <= KeyLen(5) + 2 + Len(c.device_id)
        BY <1>2, <2>1, <4>1, StringShare
      <4>3. PICK n : n = Len(c.device_id)
        OBVIOUS
      <4>4. n \in Nat
        BY <1>2, <4>3, TextLen
      <4>5. Len(Coded(StringField(5, c.device_id))) <= 1 + 2 + n
        BY <4>1, <4>2, <4>3
      <4>6. 1 + 2 + n = 3 + n
        BY <4>4
      <4> QED
        BY <4>3, <4>5, <4>6
    <3>6. Len(Coded(StringField(6, c.license_id))) <= 13
      <4>1. 6 \in 1 .. 25 /\ KeyLen(6) = 1
        BY KeyLens
      <4>3. c.license_id \in Text /\ Len(c.license_id) <= 11
        BY <1>2, <1>14, Texts
      <4>4. 11 \in 0 .. 127
        OBVIOUS
      <4>2. Len(Coded(StringField(6, c.license_id))) <= KeyLen(6) + 1 + 11
        BY <4>1, <4>3, <4>4, TextShare
      <4> QED
        BY <4>1, <4>2
    <3>7. Len(Coded(StringField(7, c.version_name))) <= 3 + Len(c.version_name)
      <4>1. 7 \in 1 .. 25 /\ KeyLen(7) = 1
        BY KeyLens
      <4>2. Len(Coded(StringField(7, c.version_name))) <= KeyLen(7) + 2 + Len(c.version_name)
        BY <1>2, <2>1, <4>1, StringShare
      <4>3. PICK n : n = Len(c.version_name)
        OBVIOUS
      <4>4. n \in Nat
        BY <1>2, <4>3, TextLen
      <4>5. Len(Coded(StringField(7, c.version_name))) <= 1 + 2 + n
        BY <4>1, <4>2, <4>3
      <4>6. 1 + 2 + n = 3 + n
        BY <4>4
      <4> QED
        BY <4>3, <4>5, <4>6
    <3>8. Len(Coded(StringField(8, c.sdk_version))) <= 3 + Len(c.sdk_version)
      <4>1. 8 \in 1 .. 25 /\ KeyLen(8) = 1
        BY KeyLens
      <4>2. Len(Coded(StringField(8, c.sdk_version))) <= KeyLen(8) + 2 + Len(c.sdk_version)
        BY <1>2, <2>1, <4>1, StringShare
      <4>3. PICK n : n = Len(c.sdk_version)
        OBVIOUS
      <4>4. n \in Nat
        BY <1>2, <4>3, TextLen
      <4>5. Len(Coded(StringField(8, c.sdk_version))) <= 1 + 2 + n
        BY <4>1, <4>2, <4>3
      <4>6. 1 + 2 + n = 3 + n
        BY <4>4
      <4> QED
        BY <4>3, <4>5, <4>6
    <3>9. Len(Coded(VarintField(9, c.sdk_version_int))) <= 6
      <4>1. 9 \in 1 .. 25 /\ KeyLen(9) = 1
        BY KeyLens
      <4>2. Len(Coded(VarintField(9, c.sdk_version_int))) <= KeyLen(9) + 5
        BY <1>2, <1>3, <4>1, VarintShare
      <4> QED
        BY <4>1, <4>2
    <3>10. Len(Coded(StringField(10, p))) <= 10
      <4>1. 10 \in 1 .. 25 /\ KeyLen(10) = 1
        BY KeyLens
      <4>3. p \in Text /\ Len(p) <= 8
        BY <1>2, <1>14, Texts
      <4>4. 8 \in 0 .. 127
        OBVIOUS
      <4>2. Len(Coded(StringField(10, p))) <= KeyLen(10) + 1 + 8
        BY <4>1, <4>3, <4>4, TextShare
      <4> QED
        BY <4>1, <4>2
    <3>11. Len(Coded(VarintField(11, c.platform))) <= 6
      <4>1. 11 \in 1 .. 25 /\ KeyLen(11) = 1
        BY KeyLens
      <4>2. Len(Coded(VarintField(11, c.platform))) <= KeyLen(11) + 5
        BY <1>2, <1>3, <4>1, VarintShare
      <4> QED
        BY <4>1, <4>2
    <3>12. Len(Coded(VarintField(12, m4))) <= 6
      <4>1. 12 \in 1 .. 25 /\ KeyLen(12) = 1
        BY KeyLens
      <4>2. Len(Coded(VarintField(12, m4))) <= KeyLen(12) + 5
        BY <1>2, <1>3, <4>1, VarintShare
      <4> QED
        BY <4>1, <4>2
    <3>13. Len(Coded(StringField(13, b))) <= 8
      <4>1. 13 \in 1 .. 25 /\ KeyLen(13) = 1
        BY KeyLens
      <4>3. b \in Text /\ Len(b) <= 6
        BY <1>2, <1>14, Texts
      <4>4. 6 \in 0 .. 127
        OBVIOUS
      <4>2. Len(Coded(StringField(13, b))) <= KeyLen(13) + 1 + 6
        BY <4>1, <4>3, <4>4, TextShare
      <4> QED
        BY <4>1, <4>2
    <3>14. Len(Coded(StringField(14, q))) <= 8
      <4>1. 14 \in 1 .. 25 /\ KeyLen(14) = 1
        BY KeyLens
      <4>3. q \in Text /\ Len(q) <= 6
        BY <1>2, <1>14, Texts
      <4>4. 6 \in 0 .. 127
        OBVIOUS
      <4>2. Len(Coded(StringField(14, q))) <= KeyLen(14) + 1 + 6
        BY <4>1, <4>3, <4>4, TextShare
      <4> QED
        BY <4>1, <4>2
    <3>15. Len(Coded(StringField(15, s15))) <= 14
      <4>1. 15 \in 1 .. 25 /\ KeyLen(15) = 1
        BY KeyLens
      <4>3. s15 \in Text /\ Len(s15) <= 12
        BY <1>2, <1>14, Texts
      <4>4. 12 \in 0 .. 127
        OBVIOUS
      <4>2. Len(Coded(StringField(15, s15))) <= KeyLen(15) + 1 + 12
        BY <4>1, <4>3, <4>4, TextShare
      <4> QED
        BY <4>1, <4>2
    <3>16. Len(Coded(StringField(16, c.sec_device_id))) <= 4 + Len(c.sec_device_id)
      <4>1. 16 \in 1 .. 25 /\ KeyLen(16) = 2
        BY KeyLens
      <4>2. Len(Coded(StringField(16, c.sec_device_id))) <= KeyLen(16) + 2 + Len(c.sec_device_id)
        BY <1>2, <2>1, <4>1, StringShare
      <4>3. PICK n : n = Len(c.sec_device_id)
        OBVIOUS
      <4>4. n \in Nat
        BY <1>2, <4>3, TextLen
      <4>5. Len(Coded(StringField(16, c.sec_device_id))) <= 2 + 2 + n
        BY <4>1, <4>2, <4>3
      <4>6. 2 + 2 + n = 4 + n
        BY <4>4
      <4> QED
        BY <4>3, <4>5, <4>6
    <3>17. Len(Coded(StringField(20, t))) <= 7
      <4>1. 20 \in 1 .. 25 /\ KeyLen(20) = 2
        BY KeyLens
      <4>3. t \in Text /\ Len(t) <= 4
        BY <1>2, <1>14, Texts
      <4>4. 4 \in 0 .. 127
        OBVIOUS
      <4>2. Len(Coded(StringField(20, t))) <= KeyLen(20) + 1 + 4
        BY <4>1, <4>3, <4>4, TextShare
      <4> QED
        BY <4>1, <4>2
    <3>18. Len(Coded(VarintField(21, m2))) <= 4
      <4>1. 21 \in 1 .. 25 /\ KeyLen(21) = 2
        BY KeyLens
      <4>2. Len(Coded(VarintField(21, m2))) <= KeyLen(21) + 2
        BY <1>2, <1>3, <4>1, VarintShare
      <4> QED
        BY <4>1, <4>2
    <3>19. Len(Coded(StringField(23, s23))) <= 20
      <4>1. 23 \in 1 .. 25 /\ KeyLen(23) = 2
        BY KeyLens
      <4>3. s23 \in Text /\ Len(s23) <= 17
        BY <1>2, <1>14, Texts
      <4>4. 17 \in 0 .. 127
        OBVIOUS
      <4>2. Len(Coded(StringField(23, s23))) <= KeyLen(23) + 1 + 17
        BY <4>1, <4>3, <4>4, TextShare
      <4> QED
        BY <4>1, <4>2
    <3>20. Len(Coded(VarintField(25, m3))) <= 3
      <4>1. 25 \in 1 .. 25 /\ KeyLen(25) = 2
        BY KeyLens
      <4>2. Len(Coded(VarintField(25, m3))) <= KeyLen(25) + 1
        BY <1>2, <1>3, <4>1, VarintShare
      <4> QED
        BY <4>1, <4>2
    <3> QED
      BY <3>1, <3>2, <3>3, <3>4, <3>5, <3>6, <3>7, <3>8, <3>9, <3>10, <3>11, <3>12, <3>13, <3>14, <3>15,
         <3>16, <3>17, <3>18, <3>19, <3>20
  <2>3. PICK d, v, s, e :
          /\ d = Len(c.device_id) /\ v = Len(c.version_name) /\ s = Len(c.sdk_version)
          /\ e = Len(c.sec_device_id)
    OBVIOUS
  <2>4. PICK l1, l2, l3, l4, l5, l6, l7, l8, l9, l10, l11, l12, l13, l14, l15, l16, l17, l18, l19, l20 :
          /\ l1 = Len(Coded(x1))
          /\ l2 = Len(Coded(x2))
          /\ l3 = Len(Coded(x3))
          /\ l4 = Len(Coded(x4))
          /\ l5 = Len(Coded(x5))
          /\ l6 = Len(Coded(x6))
          /\ l7 = Len(Coded(x7))
          /\ l8 = Len(Coded(x8))
          /\ l9 = Len(Coded(x9))
          /\ l10 = Len(Coded(x10))
          /\ l11 = Len(Coded(x11))
          /\ l12 = Len(Coded(x12))
          /\ l13 = Len(Coded(x13))
          /\ l14 = Len(Coded(x14))
          /\ l15 = Len(Coded(x15))
          /\ l16 = Len(Coded(x16))
          /\ l17 = Len(Coded(x17))
          /\ l18 = Len(Coded(x18))
          /\ l19 = Len(Coded(x19))
          /\ l20 = Len(Coded(x20))
    OBVIOUS
  <2>5. /\ l1 <= 6
        /\ l2 <= 2
        /\ l3 <= 6
        /\ l4 <= 13
        /\ l5 <= 3 + d
        /\ l6 <= 13
        /\ l7 <= 3 + v
        /\ l8 <= 3 + s
        /\ l9 <= 6
        /\ l10 <= 10
        /\ l11 <= 6
        /\ l12 <= 6
        /\ l13 <= 8
        /\ l14 <= 8
        /\ l15 <= 14
        /\ l16 <= 4 + e
        /\ l17 <= 7
        /\ l18 <= 4
        /\ l19 <= 20
        /\ l20 <= 3
    BY <1>4, <2>2, <2>3, <2>4, Zenon
  <2>6. d \in Nat /\ v \in Nat /\ s \in Nat /\ e \in Nat
    BY <1>2, <2>3, TextLen
  <2>7. /\ l1 \in Nat /\ l2 \in Nat /\ l3 \in Nat /\ l4 \in Nat /\ l5 \in Nat /\ l6 \in Nat
        /\ l7 \in Nat /\ l8 \in Nat /\ l9 \in Nat /\ l10 \in Nat /\ l11 \in Nat /\ l12 \in Nat
        /\ l13 \in Nat /\ l14 \in Nat /\ l15 \in Nat /\ l16 \in Nat /\ l17 \in Nat /\ l18 \in Nat
        /\ l19 \in Nat /\ l20 \in Nat
    <3>1. \A f \in Field : Len(Coded(f)) \in Nat
      BY CodedText, TextLen
    <3>2. /\ x1 \in Field /\ x2 \in Field /\ x3 \in Field /\ x4 \in Field /\ x5 \in Field
          /\ x6 \in Field /\ x7 \in Field /\ x8 \in Field /\ x9 \in Field /\ x10 \in Field
          /\ x11 \in Field /\ x12 \in Field /\ x13 \in Field /\ x14 \in Field /\ x15 \in Field
          /\ x16 \in Field /\ x17 \in Field /\ x18 \in Field /\ x19 \in Field /\ x20 \in Field
      BY <1>8 DEF Shaped
    <3> QED
      BY <2>4, <3>1, <3>2
  <2>8. PICK z : z = Spent(c)
    OBVIOUS
  <2>9. z = <<0, 6, 8, 14, 27, 30 + (d), 43 + (d), 46 + (d + v), 49 + (d + v + s), 55 + (d + v + s),
              65 + (d + v + s), 71 + (d + v + s), 77 + (d + v + s), 85 + (d + v + s), 93 + (d + v + s),
              107 + (d + v + s), 111 + (d + v + s + e), 118 + (d + v + s + e), 122 + (d + v + s + e),
              142 + (d + v + s + e), 145 + (d + v + s + e)>>
    BY <2>3, <2>8, SMT DEF Spent
  <2>10. /\ z[1] = 0
         /\ z[2] = 6
         /\ z[3] = 8
         /\ z[4] = 14
         /\ z[5] = 27
         /\ z[6] = 30 + (d)
         /\ z[7] = 43 + (d)
         /\ z[8] = 46 + (d + v)
         /\ z[9] = 49 + (d + v + s)
         /\ z[10] = 55 + (d + v + s)
         /\ z[11] = 65 + (d + v + s)
         /\ z[12] = 71 + (d + v + s)
         /\ z[13] = 77 + (d + v + s)
         /\ z[14] = 85 + (d + v + s)
         /\ z[15] = 93 + (d + v + s)
         /\ z[16] = 107 + (d + v + s)
         /\ z[17] = 111 + (d + v + s + e)
         /\ z[18] = 118 + (d + v + s + e)
         /\ z[19] = 122 + (d + v + s + e)
         /\ z[20] = 142 + (d + v + s + e)
         /\ z[21] = 145 + (d + v + s + e)
    BY <2>9
  <2>11. /\ z[1] + l1 <= z[2]
         /\ z[2] + l2 <= z[3]
         /\ z[3] + l3 <= z[4]
         /\ z[4] + l4 <= z[5]
         /\ z[5] + l5 <= z[6]
         /\ z[6] + l6 <= z[7]
         /\ z[7] + l7 <= z[8]
         /\ z[8] + l8 <= z[9]
         /\ z[9] + l9 <= z[10]
         /\ z[10] + l10 <= z[11]
         /\ z[11] + l11 <= z[12]
         /\ z[12] + l12 <= z[13]
         /\ z[13] + l13 <= z[14]
         /\ z[14] + l14 <= z[15]
         /\ z[15] + l15 <= z[16]
         /\ z[16] + l16 <= z[17]
         /\ z[17] + l17 <= z[18]
         /\ z[18] + l18 <= z[19]
         /\ z[19] + l19 <= z[20]
         /\ z[20] + l20 <= z[21]
    BY <2>5, <2>6, <2>7, <2>10
  <2>12. \A j \in {1, 2, 3, 4, 5, 6, 7, 8, 9, 10, 11, 12, 13, 14, 15, 16, 17, 18, 19, 20} :
           z[j] + Len(Coded(fs[j])) <= z[j + 1]
    <3>1. /\ z[1] + Len(Coded(fs[1])) <= z[2]
          /\ z[2] + Len(Coded(fs[2])) <= z[3]
          /\ z[3] + Len(Coded(fs[3])) <= z[4]
          /\ z[4] + Len(Coded(fs[4])) <= z[5]
          /\ z[5] + Len(Coded(fs[5])) <= z[6]
          /\ z[6] + Len(Coded(fs[6])) <= z[7]
          /\ z[7] + Len(Coded(fs[7])) <= z[8]
          /\ z[8] + Len(Coded(fs[8])) <= z[9]
          /\ z[9] + Len(Coded(fs[9])) <= z[10]
          /\ z[10] + Len(Coded(fs[10])) <= z[11]
          /\ z[11] + Len(Coded(fs[11])) <= z[12]
          /\ z[12] + Len(Coded(fs[12])) <= z[13]
          /\ z[13] + Len(Coded(fs[13])) <= z[14]
          /\ z[14] + Len(Coded(fs[14])) <= z[15]
          /\ z[15] + Len(Coded(fs[15])) <= z[16]
          /\ z[16] + Len(Coded(fs[16])) <= z[17]
          /\ z[17] + Len(Coded(fs[17])) <= z[18]
          /\ z[18] + Len(Coded(fs[18])) <= z[19]
          /\ z[19] + Len(Coded(fs[19])) <= z[20]
          /\ z[20] + Len(Coded(fs[20])) <= z[21]
      BY <1>7, <2>4, <2>11
    <3>2. /\ z[1] + Len(Coded(fs[1])) <= z[1 + 1]
          /\ z[2] + Len(Coded(fs[2])) <= z[2 + 1]
          /\ z[3] + Len(Coded(fs[3])) <= z[3 + 1]
          /\ z[4] + Len(Coded(fs[4])) <= z[4 + 1]
          /\ z[5] + Len(Coded(fs[5])) <= z[5 + 1]
          /\ z[6] + Len(Coded(fs[6])) <= z[6 + 1]
          /\ z[7] + Len(Coded(fs[7])) <= z[7 + 1]
          /\ z[8] + Len(Coded(fs[8])) <= z[8 + 1]
          /\ z[9] + Len(Coded(fs[9])) <= z[9 + 1]
          /\ z[10] + Len(Coded(fs[10])) <= z[10 + 1]
          /\ z[11] + Len(Coded(fs[11])) <= z[11 + 1]
          /\ z[12] + Len(Coded(fs[12])) <= z[12 + 1]
          /\ z[13] + Len(Coded(fs[13])) <= z[13 + 1]
          /\ z[14] + Len(Coded(fs[14])) <= z[14 + 1]
          /\ z[15] + Len(Coded(fs[15])) <= z[15 + 1]
          /\ z[16] + Len(Coded(fs[16])) <= z[16 + 1]
          /\ z[17] + Len(Coded(fs[17])) <= z[17 + 1]
          /\ z[18] + Len(Coded(fs[18])) <= z[18 + 1]
          /\ z[19] + Len(Coded(fs[19])) <= z[19 + 1]
          /\ z[20] + Len(Coded(fs[20])) <= z[20 + 1]
      BY <3>1
    <3> QED
      BY <3>2, Zenon
  <2> QED
    BY <1>9, <2>8, <2>12
<1> QED
  BY <1>1, <1>6, <1>7, <1>10, <1>11, <1>12, <1>13, <1>14, SMT

(***************************************************************************)
(* The invariant                                                           *)
(***************************************************************************)

\* Whatever the length of the texts: hashes first, then the fields, then what is
\* written of them, which stands in the buffer whole as long as it has not left it.
\* Where the texts leave room, each field stays within its share of the buffer.
BeanInv ==
  /\ call \in Calls
  /\ pc \in {"body", "query", "fields", "bean", "done", "undefined"}
  /\ bh \in Text /\ (pc # "body" => Len(bh) = 6)
  /\ qh \in Text /\ (pc \notin {"body", "query"} => Len(qh) = 6)
  /\ pc \in {"body", "query", "fields"} => fields = <<>> /\ written = 0 /\ bean = <<>>
  /\ pc \in {"bean", "done", "undefined"} => fields = Fields(call, bh, qh) /\ written \in 0 .. 20
  /\ bean \in Bytes
  /\ pc \in {"bean", "done"} => Len(bean) <= BeanCap /\ Written(bean, fields, written)
  /\ pc = "done" => written = 20
  /\ TextsOf(call) + Overhead <= BeanCap =>
       pc # "undefined" /\ (pc \in {"bean", "done"} => Len(bean) <= Spent(call)[written + 1])

\* The invariant gives the types.
LEMMA TypeOfInv == BeanInv => TypeOK
<1> SUFFICES ASSUME BeanInv PROVE TypeOK
  OBVIOUS
<1>1. call \in Call
  BY CallAssumption DEF BeanInv
<1>2. fields \in Seq(Field) /\ written \in 0 .. Len(fields)
  <2>1. CASE pc \in {"body", "query", "fields"}
    <3>1. fields = <<>> /\ written = 0
      BY <2>1 DEF BeanInv
    <3>2. <<>> \in Seq(Field) /\ 0 \in 0 .. Len(<<>>)
      OBVIOUS
    <3> QED
      BY <3>1, <3>2
  <2>2. CASE pc \in {"bean", "done", "undefined"}
    <3>1. fields = Fields(call, bh, qh) /\ written \in 0 .. 20 /\ bh \in Text /\ qh \in Text
      BY <2>2 DEF BeanInv
    <3>2. fields \in Seq(Field) /\ Len(fields) = 20
      BY <1>1, <3>1, FieldsAre
    <3> QED
      BY <3>1, <3>2
  <2> QED
    BY <2>1, <2>2 DEF BeanInv
<1> QED
  BY <1>2 DEF BeanInv, TypeOK, Bytes

\* The invariant holds at first.
LEMMA InvInit == Init => BeanInv
<1> SUFFICES ASSUME Init PROVE BeanInv
  OBVIOUS
<1>1. <<>> \in Text /\ <<>> \in Bytes
  BY DEF Text, Bytes
<1>2. call \in Calls /\ pc = "body" /\ bh = <<>> /\ qh = <<>> /\ fields = <<>> /\ written = 0 /\ bean = <<>>
  BY DEF Init
<1> QED
  BY <1>1, <1>2 DEF BeanInv

\* Hashing the body keeps the invariant.
LEMMA InvBodyHash == BeanInv /\ BodyHash => BeanInv'
<1> SUFFICES ASSUME BeanInv, BodyHash PROVE BeanInv'
  OBVIOUS
<1>1. bh' \in Text /\ Len(bh') = 6
  BY HashSix DEF BodyHash
<1>2. /\ pc = "body" /\ pc' = "query" /\ call' = call /\ qh' = qh /\ fields' = fields
      /\ written' = written /\ bean' = bean
  BY DEF BodyHash
<1> QED
  BY <1>1, <1>2 DEF BeanInv

\* Hashing the query keeps the invariant.
LEMMA InvQueryHash == BeanInv /\ QueryHash => BeanInv'
<1> SUFFICES ASSUME BeanInv, QueryHash PROVE BeanInv'
  OBVIOUS
<1>1. qh' \in Text /\ Len(qh') = 6
  BY HashSix DEF QueryHash
<1>2. /\ pc = "query" /\ pc' = "fields" /\ call' = call /\ bh' = bh /\ fields' = fields
      /\ written' = written /\ bean' = bean
  BY DEF QueryHash
<1> QED
  BY <1>1, <1>2 DEF BeanInv

\* Building the fields keeps the invariant.
LEMMA InvBuildFields == BeanInv /\ BuildFields => BeanInv'
<1> SUFFICES ASSUME BeanInv, BuildFields PROVE BeanInv'
  OBVIOUS
<1>1. /\ pc = "fields" /\ pc' = "bean" /\ call' = call /\ bh' = bh /\ qh' = qh /\ written' = written /\ bean' = bean
      /\ fields' = Fields(call, bh, qh)
  BY DEF BuildFields
<1>2. written = 0 /\ bean = <<>> /\ call \in Calls
  BY <1>1 DEF BeanInv
<1>3. Len(<<>>) = 0 /\ BeanCap \in Nat
  BY CapAssumption
<1>4. Written(bean, fields', 0)
  BY <1>2, WrittenNone
<1>5. TextsOf(call) + Overhead <= BeanCap => Spent(call)[1] \in Nat
  <2>1. call \in Call /\ 1 \in 1 .. 21
    BY <1>2, CallAssumption
  <2> QED
    BY <2>1, SpentIs
<1>6. TextsOf(call) + Overhead <= BeanCap => Len(bean) <= Spent(call)[0 + 1]
  BY <1>2, <1>3, <1>5
<1>7. Len(bean) <= BeanCap /\ 0 \in 0 .. 20
  BY <1>2, <1>3
<1> HIDE DEF Fields, Written
<1> QED
  BY <1>1, <1>2, <1>4, <1>6, <1>7 DEF BeanInv

\* Serializing one more field keeps the invariant.
LEMMA InvSerializeField == BeanInv /\ SerializeField => BeanInv'
<1> SUFFICES ASSUME BeanInv, SerializeField PROVE BeanInv'
  OBVIOUS
<1>1. /\ pc = "bean" /\ call' = call /\ bh' = bh /\ qh' = qh /\ fields' = fields
      /\ written < Len(fields) /\ written' = written + 1
      /\ bean' = Put(bean, fields[written + 1], BeanCap)
      /\ pc' = IF Len(bean') > BeanCap THEN "undefined" ELSE "bean"
  BY DEF SerializeField
<1>2. /\ call \in Calls /\ bh \in Text /\ Len(bh) = 6 /\ qh \in Text /\ Len(qh) = 6
      /\ fields = Fields(call, bh, qh) /\ written \in 0 .. 20 /\ Len(bean) <= BeanCap /\ Written(bean,
         fields, written)
      /\ (TextsOf(call) + Overhead <= BeanCap => Len(bean) <= Spent(call)[written + 1])
  BY <1>1 DEF BeanInv
<1>3. call \in Call /\ BeanCap \in Nat
  BY <1>2, CallAssumption, CapAssumption
<1>4. /\ fields \in Seq(Field) /\ Len(fields) = 20 /\ \A k \in 1 .. 20 : Shaped(fields[k])
      /\ (TextsOf(call) + Overhead <= BeanCap =>
            \A k \in 1 .. 20 : Spent(call)[k] + Len(Coded(fields[k])) <= Spent(call)[k + 1])
  BY <1>2, <1>3, FieldsAre
<1>5. written + 1 \in 1 .. 20 /\ written' \in 0 .. 20 /\ written \in Nat
  <2>1. written < 20 /\ written' = written + 1 /\ written \in 0 .. 20
    BY <1>1, <1>2, <1>4, Zenon
  <2> QED
    BY <2>1
<1>6. \A k \in 1 .. 20 : fields[k] \in Field
  BY <1>4 DEF Shaped
<1>7. PICK f : f = fields[written + 1]
  OBVIOUS
<1>8. f \in Field /\ bean' = Put(bean, f, BeanCap) /\ bean \in Text /\ Len(bean) \in Nat
  BY <1>1, <1>2, <1>5, <1>6, <1>7, TextLen DEF Written
<1>9. bean' \in Bytes /\ Len(bean') = Len(bean) + Len(Coded(f)) /\ Len(Coded(f)) \in Nat
  BY <1>3, <1>8, PutIs, CodedText, TextLen
<1>10. Len(bean') <= BeanCap => Written(bean', fields, written + 1)
  <2> SUFFICES ASSUME Len(bean') <= BeanCap PROVE Written(bean', fields, written + 1)
    OBVIOUS
  <2>1. \A k \in 1 .. written + 1 : fields[k] \in Field
    <3>1. PICK j : j = written + 1
      OBVIOUS
    <3>2. \A k \in 1 .. j : k \in 1 .. 20
      BY <1>5, <3>1
    <3> QED
      BY <1>6, <3>1, <3>2
  <2>2. Len(Put(bean, fields[written + 1], BeanCap)) <= BeanCap
    BY <1>7, <1>8
  <2>3. Written(Put(bean, fields[written + 1], BeanCap), fields, written + 1)
    BY <1>2, <1>3, <1>5, <2>1, <2>2, WrittenMore
  <2> QED
    BY <1>7, <1>8, <2>3
<1>11. ASSUME TextsOf(call) + Overhead <= BeanCap
       PROVE  Len(bean') <= Spent(call)[written' + 1] /\ Len(bean') <= BeanCap
  <2>1. PICK j, x, y : j = written + 1 /\ x = Spent(call)[j] /\ y = Spent(call)[j + 1]
    OBVIOUS
  <2>2. j \in 1 .. 21 /\ j + 1 \in 1 .. 21 /\ j \in 1 .. 20
    BY <1>5, <2>1
  <2>3. x \in Nat /\ y \in Nat /\ y <= BeanCap
    BY <1>3, <1>11, <2>1, <2>2, SpentIs
  <2>4. x + Len(Coded(f)) <= y
    BY <1>4, <1>7, <1>11, <2>1, <2>2
  <2>5. Len(bean) <= x
    BY <1>2, <1>11, <2>1
  <2>6. Len(bean') <= y
    BY <1>8, <1>9, <2>3, <2>4, <2>5
  <2>7. Len(bean') \in Nat
    BY <1>8, <1>9
  <2>8. Len(bean') <= BeanCap
    BY <1>3, <2>3, <2>6, <2>7
  <2> QED
    BY <1>1, <2>1, <2>6, <2>8
<1>12. Len(bean') \in Nat
  BY <1>8, <1>9
<1>13. CASE Len(bean') > BeanCap
  <2>1. pc' = "undefined" /\ ~(Len(bean') <= BeanCap)
    BY <1>1, <1>3, <1>12, <1>13
  <2>2. ~(TextsOf(call) + Overhead <= BeanCap)
    BY <1>11, <2>1
  <2>3. (TextsOf(call) + Overhead <= BeanCap)' <=> TextsOf(call) + Overhead <= BeanCap
    BY <1>1 DEF TextsOf, Overhead
  <2> HIDE DEF Fields, Written, Put
  <2> QED
    BY <1>1, <1>2, <1>5, <1>9, <2>1, <2>2, <2>3 DEF BeanInv
<1>14. CASE ~(Len(bean') > BeanCap)
  <2>1. pc' = "bean" /\ Len(bean') <= BeanCap
    BY <1>1, <1>3, <1>12, <1>14
  <2>2. Written(bean', fields', written')
    BY <1>1, <1>10, <2>1
  <2>3. TextsOf(call') + Overhead <= BeanCap => Len(bean') <= Spent(call')[written' + 1]
    BY <1>1, <1>11
  <2> HIDE DEF Fields, Written, Put
  <2> QED
    BY <1>1, <1>2, <1>5, <1>9, <2>1, <2>2, <2>3 DEF BeanInv
<1> QED
  BY <1>13, <1>14

\* Returning keeps the invariant.
LEMMA InvReturn == BeanInv /\ Return => BeanInv'
<1> SUFFICES ASSUME BeanInv, Return PROVE BeanInv'
  OBVIOUS
<1>1. /\ pc = "bean" /\ pc' = "done" /\ written = Len(fields) /\ call' = call /\ bh' = bh /\ qh' = qh
      /\ fields' = fields /\ written' = written /\ bean' = bean
  BY DEF Return
<1>2. call \in Call /\ bh \in Text /\ qh \in Text /\ fields = Fields(call, bh, qh)
  BY <1>1, CallAssumption DEF BeanInv
<1>3. Len(fields) = 20
  BY <1>2, FieldsAre
<1> HIDE DEF Fields, Written
<1> QED
  BY <1>1, <1>3 DEF BeanInv

\* A step that changes nothing keeps the invariant.
LEMMA InvStutter == BeanInv /\ UNCHANGED vars => BeanInv'
<1> SUFFICES ASSUME BeanInv, UNCHANGED vars PROVE BeanInv'
  OBVIOUS
<1>1. /\ call' = call /\ pc' = pc /\ bh' = bh /\ qh' = qh
      /\ fields' = fields /\ written' = written /\ bean' = bean
  BY DEF vars
<1>2. /\ call' \in Calls
      /\ pc' \in {"body", "query", "fields", "bean", "done", "undefined"}
      /\ bh' \in Text /\ (pc' # "body" => Len(bh') = 6)
      /\ qh' \in Text /\ (pc' \notin {"body", "query"} => Len(qh') = 6)
      /\ pc' \in {"body", "query", "fields"} => fields' = <<>> /\ written' = 0 /\ bean' = <<>>
  BY <1>1, Zenon DEF BeanInv
<1>3. pc' \in {"bean", "done", "undefined"} => fields' = Fields(call', bh', qh') /\ written' \in 0 .. 20
  BY <1>1, Zenon DEF BeanInv
<1>4. /\ bean' \in Bytes
      /\ pc' \in {"bean", "done"} => Len(bean') <= BeanCap /\ Written(bean', fields', written')
      /\ pc' = "done" => written' = 20
  BY <1>1, Zenon DEF BeanInv
<1>5. TextsOf(call') + Overhead <= BeanCap =>
        pc' # "undefined" /\ (pc' \in {"bean", "done"} => Len(bean') <= Spent(call')[written' + 1])
  BY <1>1, Zenon DEF BeanInv
<1> QED
  BY <1>2, <1>3, <1>4, <1>5, Zenon DEF BeanInv

\* Every step keeps the invariant.
LEMMA InvNext == BeanInv /\ [Next]_vars => BeanInv'
BY InvBodyHash, InvQueryHash, InvBuildFields, InvSerializeField, InvReturn, InvStutter, Zenon DEF Next

\* The invariant holds throughout, for every call and every size of the buffers.
THEOREM BeanInductive == Spec => []BeanInv
BY InvInit, InvNext, PTL DEF Spec

\* The data of the fields 15 and 23 are the two messages.
LEMMA InnerData ==
  ASSUME BeanInv, pc = "done"
  PROVE  DataOf(15) = Serialized(Inner15, InnerCap) /\ DataOf(23) = Serialized(Inner23, InnerCap)
<1>1. call \in Call /\ bh \in Text /\ qh \in Text /\ fields = Fields(call, bh, qh)
  BY CallAssumption DEF BeanInv
<1>2. /\ DOMAIN fields = 1 .. 20
      /\ fields[15].data = Serialized(Inner15, InnerCap) /\ fields[19].data = Serialized(Inner23, InnerCap)
      /\ \A k \in 1 .. 20 : (fields[k].idx = 15 <=> k = 15) /\ (fields[k].idx = 23 <=> k = 19)
  BY <1>1, FieldsAre
<1>3. \A k \in DOMAIN fields : fields[k].idx = 15 <=> k = 15
  BY <1>2
<1>4. \A k \in DOMAIN fields : fields[k].idx = 23 <=> k = 19
  BY <1>2
<1>5. 15 \in DOMAIN fields /\ 19 \in DOMAIN fields
  BY <1>2
<1>6. (CHOOSE k \in DOMAIN fields : fields[k].idx = 15) = 15
  BY <1>3, <1>5
<1>7. (CHOOSE k \in DOMAIN fields : fields[k].idx = 23) = 19
  BY <1>4, <1>5
<1> QED
  BY <1>2, <1>6, <1>7 DEF DataOf

\* The invariant gives Complete.
LEMMA InvComplete == BeanInv => Complete
<1> SUFFICES ASSUME BeanInv PROVE Complete
  OBVIOUS
<1>1. TypeOK
  BY TypeOfInv
<1>2. TextsOf(call) + Overhead <= BeanCap => pc # "undefined"
  BY DEF BeanInv
<1>3. ASSUME pc = "done"
      PROVE  /\ Len(bean) <= BeanCap /\ \A k \in DOMAIN bean : bean[k] # Junk
             /\ Len(DataOf(15)) <= InnerCap /\ Len(DataOf(23)) <= InnerCap
  <2>1. Len(bean) <= BeanCap /\ bean \in Text
    BY <1>3 DEF BeanInv, Written
  <2>2. \A k \in DOMAIN bean : bean[k] \in Octet
    BY <2>1, TextLen
  <2>3. Junk \notin Octet
    BY DEF Junk, Octet, Word
  <2>4. PICK x, y : x = Serialized(Inner15, InnerCap) /\ y = Serialized(Inner23, InnerCap)
    OBVIOUS
  <2>5. x \in Text /\ y \in Text /\ Len(x) <= 12 /\ Len(y) <= 17
    BY <2>4, InnerIs
  <2>6. Len(x) \in Nat /\ Len(y) \in Nat /\ InnerCap \in Nat /\ InnerCap >= 17
    BY <2>5, TextLen, CapAssumption
  <2>7. Len(x) <= InnerCap /\ Len(y) <= InnerCap
    BY <2>5, <2>6
  <2>8. DataOf(15) = x /\ DataOf(23) = y
    BY <1>3, <2>4, InnerData
  <2> QED
    BY <2>1, <2>2, <2>3, <2>7, <2>8
<1> QED
  BY <1>1, <1>2, <1>3 DEF Complete

\* The invariant gives BeanReads.
LEMMA InvBeanReads == BeanInv => BeanReads
<1> SUFFICES ASSUME BeanInv, pc = "done", TextsAnnounced
             PROVE  /\ ReadsAs(bean, [k \in DOMAIN fields |-> [fields[k] EXCEPT !.varint = Received(@)]])
                    /\ ReadsAs(DataOf(15), Inner15) /\ ReadsAs(DataOf(23), Inner23)
  BY DEF BeanReads
<1>1. call \in Call /\ bh \in Text /\ qh \in Text /\ fields = Fields(call, bh, qh) /\ written = 20
      /\ Len(bean) <= BeanCap /\ Written(bean, fields, 20)
  BY CallAssumption DEF BeanInv
<1>2. DOMAIN fields = 1 .. 20 /\ \A k \in 1 .. 20 : Shaped(fields[k])
  BY <1>1, FieldsAre
<1>3. bean \in Text /\ Len(bean) \in Nat /\ BeanCap \in Nat /\ BeanCap <= 16384
  BY <1>1, TextLen, CapAssumption DEF Written
<1>4. \A k \in 1 .. 20 : ~Quirk(Bits(Len(fields[k].data)))
  BY <1>2 DEF TextsAnnounced
<1>5. PICK p \in [0 .. 20 -> Nat \ {0}] :
        \A k \in 1 .. 20 : Stands(Coded(fields[k]), bean, p[k - 1]) /\ p[k] = p[k - 1] + Len(Coded(fields[k]))
  BY <1>1 DEF Written
<1>6. ASSUME NEW k \in 1 .. 20 PROVE Readable(fields[k])
  <2>1. PICK f : f = fields[k]
    OBVIOUS
  <2>2. Shaped(f) /\ ~Quirk(Bits(Len(f.data)))
    BY <1>2, <1>4, <2>1
  <2>3. f \in Field /\ f.data \in Text
    BY <2>2 DEF Shaped, Field
  <2>4. PICK at : Stands(Coded(f), bean, at)
    BY <1>5, <2>1
  <2>5. Len(Coded(f)) \in Nat /\ Len(f.data) \in Nat /\ at \in Nat \ {0} /\ at + Len(Coded(f)) <= Len(bean) + 1
    BY <2>3, <2>4, CodedText, TextLen DEF Stands
  <2>6. ASSUME f.kind = 2 PROVE Short(Len(f.data))
    <3>1. PICK x, y, z, l : x = Len(Varint(Key(f))) /\ y = Len(Varint(Bits(Len(f.data)))) /\ z = Len(f.data)
                            /\ l = Len(Coded(f))
      OBVIOUS
    <3>2. l = x + y + z
      BY <2>3, <2>6, <3>1, CodedText
    <3>3. x \in 1 .. 5 /\ y \in 1 .. 5
      BY <3>1, VarintText
    <3>4. z \in Nat /\ l \in Nat /\ l <= 16384
      BY <1>1, <1>3, <2>5, <3>1
    <3>5. Short(z)
      BY <3>2, <3>3, <3>4 DEF Short
    <3> QED
      BY <3>1, <3>5
  <2>7. Readable(f)
    BY <2>2, <2>6 DEF Readable, Shaped
  <2> QED
    BY <2>1, <2>7
<1>7. ReadsAs(bean, [k \in DOMAIN fields |-> AsRead(fields[k])])
  <2>1. 20 \in Nat
    OBVIOUS
  <2> QED
    BY <1>1, <1>2, <1>6, <2>1, WrittenReads
<1>8. ReadsAs(bean, [k \in DOMAIN fields |-> [fields[k] EXCEPT !.varint = Received(@)]])
  BY <1>7, Zenon DEF AsRead
<1>9. ReadsAs(DataOf(15), Inner15) /\ ReadsAs(DataOf(23), Inner23)
  BY InnerData, InnerIs
<1> QED
  BY <1>8, <1>9

\* One number of zeros below 64 fills the blocks.
LEMMA OneFilling ==
  ASSUME NEW l \in Nat, NEW y \in 0 .. 63, NEW z \in 0 .. 63, (l + 1 + y + 8) % 64 = 0, (l + 1 + z + 8) % 64 = 0
  PROVE  y = z
OBVIOUS

\* The zeros of sm3_hash fill the last block but for the length.
LEMMA ZerosAre ==
  ASSUME NEW l \in Nat
  PROVE  LET reserve == (l % 64) + 1
             zeros   == RangeEnd(reserve) - reserve
         IN  zeros \in 0 .. 63 /\ (l + 1 + zeros + 8) % 64 = 0
BY DEF RangeEnd

\* A length below 2^31 is what the int makes of it.
LEMMA Int32Keeps == ASSUME NEW n \in Nat, n <= MaxLen PROVE Int32(n) = n
<1>1. n < 2147483648
  BY DEF MaxLen
<1>2. PICK h : h = n \div 1073741824
  OBVIOUS
<1>3. h \in {0, 1} /\ n = 1073741824 * h + (n % 1073741824)
  BY <1>1, <1>2
<1>4. h % 4 = h /\ h < 2
  BY <1>3
<1>5. Int32(n) = (n % 1073741824) + 1073741824 * h
  BY <1>2, <1>4 DEF Int32, GiB
<1> QED
  BY <1>3, <1>5

\* Dividing twice is dividing by the product, for the quotients needed here.
LEMMA DivTwice ==
  \A n \in Nat :
    /\ \A i \in 0 .. 7 : (n \div 32) \div P[i] = n \div P[i + 5]
    /\ \A i \in 0 .. 7 : (n \div 8192) \div P[i] = n \div P[i + 13]
    /\ \A i \in 0 .. 7 : (n \div 2097152) \div P[i] = n \div P[i + 21]
    /\ \A i \in 0 .. 1 : (n \div 536870912) \div P[i] = n \div P[i + 29]
<1> TAKE n \in Nat
<1> DEFINE ok(x, p, q) == (n \div x) \div p = n \div q
<1>1. /\ ok(32, 1, 32) /\ ok(32, 2, 64) /\ ok(32, 4, 128) /\ ok(32, 8, 256)
      /\ ok(32, 16, 512) /\ ok(32, 32, 1024) /\ ok(32, 64, 2048) /\ ok(32, 128, 4096)
  OBVIOUS
<1>2. /\ ok(8192, 1, 8192) /\ ok(8192, 2, 16384) /\ ok(8192, 4, 32768) /\ ok(8192, 8, 65536)
      /\ ok(8192, 16, 131072) /\ ok(8192, 32, 262144) /\ ok(8192, 64, 524288) /\ ok(8192, 128, 1048576)
  OBVIOUS
<1>3. /\ ok(2097152, 1, 2097152) /\ ok(2097152, 2, 4194304) /\ ok(2097152, 4, 8388608)
      /\ ok(2097152, 8, 16777216) /\ ok(2097152, 16, 33554432) /\ ok(2097152, 32, 67108864)
      /\ ok(2097152, 64, 134217728) /\ ok(2097152, 128, 268435456)
  OBVIOUS
<1>4. ok(536870912, 1, 536870912) /\ ok(536870912, 2, 1073741824)
  OBVIOUS
<1> HIDE DEF ok
<1>5. \A i \in 0 .. 7 : ok(32, P[i], P[i + 5])
  BY <1>1, PIs
<1>6. \A i \in 0 .. 7 : ok(8192, P[i], P[i + 13])
  BY <1>2, PIs
<1>7. \A i \in 0 .. 7 : ok(2097152, P[i], P[i + 21])
  BY <1>3, PIs
<1>8. \A i \in 0 .. 1 : ok(536870912, P[i], P[i + 29])
  BY <1>4, PIs
<1> QED
  BY <1>5, <1>6, <1>7, <1>8 DEF ok

\* The bits below 2^30 are those of the remainder.
LEMMA ModBits ==
  \A n \in Nat : \A i \in 0 .. 29 : ((n % 1073741824) \div P[i]) % 2 = (n \div P[i]) % 2
<1> TAKE n \in Nat
<1> DEFINE m == n % 1073741824
           ok(p) == (m \div p) % 2 = (n \div p) % 2
<1>1. PICK q \in Nat : n = 1073741824 * q + m
  OBVIOUS
<1>2. m \in Nat /\ m < 1073741824
  OBVIOUS
<1> HIDE DEF m
<1>3. ok(1) /\ ok(2) /\ ok(4) /\ ok(8) /\ ok(16) /\ ok(32)
  BY <1>1, <1>2
<1>4. ok(64) /\ ok(128) /\ ok(256) /\ ok(512) /\ ok(1024) /\ ok(2048)
  BY <1>1, <1>2
<1>5. ok(4096) /\ ok(8192) /\ ok(16384) /\ ok(32768) /\ ok(65536) /\ ok(131072)
  BY <1>1, <1>2
<1>6. ok(262144) /\ ok(524288) /\ ok(1048576) /\ ok(2097152) /\ ok(4194304) /\ ok(8388608)
  BY <1>1, <1>2
<1>7. ok(16777216) /\ ok(33554432) /\ ok(67108864) /\ ok(134217728) /\ ok(268435456) /\ ok(536870912)
  BY <1>1, <1>2
<1> HIDE DEF ok
<1>8. \A i \in 0 .. 29 : ok(P[i])
  <2> TAKE i \in 0 .. 29
  <2>1. i \in 0 .. 5 => ok(P[i])
    BY <1>3, PIs
  <2>2. i \in 6 .. 11 => ok(P[i])
    BY <1>4, PIs
  <2>3. i \in 12 .. 17 => ok(P[i])
    BY <1>5, PIs
  <2>4. i \in 18 .. 23 => ok(P[i])
    BY <1>6, PIs
  <2>5. i \in 24 .. 29 => ok(P[i])
    BY <1>7, PIs
  <2> QED
    BY <2>1, <2>2, <2>3, <2>4, <2>5
<1> QED
  BY <1>8 DEF ok, m

\* Below 2^31 the 64-bit word is that of Bits.
LEMMA Bits64Is == ASSUME NEW n \in Nat, n < 2147483648 PROVE Bits64(n) = Bits(n)
<1>1. PICK h, r : h = n \div 1073741824 /\ r = n % 1073741824
  OBVIOUS
<1>2. h \in {0, 1} /\ r \in Nat /\ r < 1073741824 /\ h % 1073741824 = h /\ (h \div 1073741824) % 16 = 0
  BY <1>1
<1>3. Bits64(n) = Bits(r) \cup {30 + b : b \in Bits(h)} \cup {60 + b : b \in Bits(0)}
  BY <1>1, <1>2 DEF Bits64, GiB
<1>4. Bits(0) = {}
  <2>1. \A i \in 0 .. 30 : P[i] \in Nat /\ 0 < P[i]
    BY PIs
  <2>2. ASSUME NEW i \in 0 .. 30 PROVE (0 \div P[i]) % 2 # 1
    <3>1. PICK p \in Nat : p = P[i] /\ 0 < p
      BY <2>1
    <3>2. 0 \div p = 0
      BY <3>1, SmallDiv
    <3> QED
      BY <3>1, <3>2
  <2> QED
    BY <2>2, BitsIs
<1>5. \A b : b \in Bits(h) <=> b = 0 /\ h = 1
  <2>1. \A i \in 1 .. 30 : P[i] \in Nat /\ 1 < P[i]
    BY PIs
  <2>2. ASSUME NEW i \in 1 .. 30 PROVE (h \div P[i]) % 2 # 1
    <3>1. PICK p \in Nat : p = P[i] /\ h < p
      BY <1>2, <2>1
    <3>2. h \div p = 0
      BY <1>2, <3>1, SmallDiv
    <3> QED
      BY <3>1, <3>2
  <2>3. (h \div P[0]) % 2 = h
    BY <1>2, PIs
  <2> QED
    BY <1>2, <2>2, <2>3, BitsIs
<1>6. \A i \in 0 .. 29 : (r \div P[i]) % 2 = (n \div P[i]) % 2
  BY <1>1, ModBits
<1>7. r \div P[30] = 0 /\ (n \div P[30]) % 2 = h
  BY <1>1, <1>2, PIs
<1>8. \A i : i \in Bits(n) <=> i \in Bits(r) \/ (i = 30 /\ h = 1)
  <2>1. \A i \in 0 .. 30 : i \in 0 .. 29 \/ i = 30
    OBVIOUS
  <2> QED
    BY <1>2, <1>6, <1>7, <2>1, BitsIs
<1>9. {30 + b : b \in Bits(h)} = {x \in {30} : h = 1}
  BY <1>5
<1>10. {60 + b : b \in Bits(0)} = {}
  BY <1>4
<1> QED
  BY <1>3, <1>8, <1>9, <1>10

\* m has the bits of n from bit o on, as far as Bits tells them.
Quotient(m, n, o) ==
  /\ \A i \in 0 .. 7 : i + o <= 30 => m \div P[i] = n \div P[i + o]
  /\ \A i \in 0 .. 7 : i + o > 30 => m < P[i]

\* An octet of bit_len is the octet of a quotient.
LEMMA OctetOf ==
  ASSUME NEW n \in Nat, NEW m \in Nat, NEW o \in Nat, NEW k \in Nat, o + 3 = 8 * k,
         Quotient(m, n, o)
  PROVE  Low({b + 3 : b \in Bits(n)}, k) = Byte(m)
<1>0. /\ \A i \in 0 .. 7 : i + o <= 30 => m \div P[i] = n \div P[i + o]
      /\ \A i \in 0 .. 7 : i + o > 30 => m < P[i]
  BY DEF Quotient
<1>1. \A j \in 0 .. 7 : j \in Byte(m) <=> (m \div P[j]) % 2 = 1
  BY BitsIs DEF Byte
<1>2. \A j \in 0 .. 7 : 8 * k + j \in {b + 3 : b \in Bits(n)} <=> j + o \in Bits(n)
  <2>1. \A j \in 0 .. 7 : \A b \in 0 .. 30 : b + 3 = 8 * k + j <=> b = j + o
    OBVIOUS
  <2>2. \A b \in Bits(n) : b \in 0 .. 30
    BY BitsIs
  <2> QED
    BY <2>1, <2>2
<1>3. \A j \in 0 .. 7 : j + o <= 30 => (j + o \in Bits(n) <=> (n \div P[j + o]) % 2 = 1)
  <2>1. \A j \in 0 .. 7 : j + o <= 30 => j + o \in 0 .. 30
    OBVIOUS
  <2> QED
    BY <2>1, BitsIs
<1>4. \A j \in 0 .. 7 : j + o > 30 => j + o \notin Bits(n) /\ (m \div P[j]) % 2 # 1
  <2>1. \A j \in 0 .. 7 : j + o > 30 => j + o \notin 0 .. 30
    OBVIOUS
  <2>2. \A j \in 0 .. 7 : P[j] \in Nat
    BY PIs
  <2>3. ASSUME NEW j \in 0 .. 7, j + o > 30 PROVE (m \div P[j]) % 2 # 1
    <3>1. PICK p \in Nat : p = P[j] /\ m < p
      BY <1>0, <2>2, <2>3
    <3>2. m \div p = 0
      BY <3>1, SmallDiv
    <3> QED
      BY <3>1, <3>2
  <2> QED
    BY <2>1, <2>3, BitsIs
<1>5. \A j \in 0 .. 7 : j \in Byte(m) <=> j + o \in Bits(n)
  <2> TAKE j \in 0 .. 7
  <2>1. CASE j + o <= 30
    BY <1>0, <1>1, <1>3, <2>1
  <2>2. CASE j + o > 30
    BY <1>1, <1>4, <2>2
  <2> QED
    BY <2>1, <2>2
<1>6. Byte(m) \subseteq 0 .. 7
  BY DEF Byte
<1>7. Low({b + 3 : b \in Bits(n)}, k) = {j \in 0 .. 7 : 8 * k + j \in {b + 3 : b \in Bits(n)}}
  BY DEF Low
<1> QED
  BY <1>2, <1>5, <1>6, <1>7

\* The lowest octet of bit_len.
LEMMA LowestOctet ==
  ASSUME NEW n \in Nat
  PROVE  Low({b + 3 : b \in Bits(n)}, 0) = Byte(8 * (n % 32))
<1> DEFINE m == 8 * (n % 32)
<1>1. m \in Nat
  OBVIOUS
<1>2. (m \div P[0]) % 2 # 1 /\ (m \div P[1]) % 2 # 1 /\ (m \div P[2]) % 2 # 1
  BY PIs
<1>3. \A j \in 3 .. 7 : (m \div P[j]) % 2 = (n \div P[j - 3]) % 2
  <2>1. (m \div 8) % 2 = (n \div 1) % 2 /\ (m \div 16) % 2 = (n \div 2) % 2
    OBVIOUS
  <2>2. (m \div 32) % 2 = (n \div 4) % 2 /\ (m \div 64) % 2 = (n \div 8) % 2
    OBVIOUS
  <2>3. (m \div 128) % 2 = (n \div 16) % 2
    OBVIOUS
  <2> HIDE DEF m
  <2> QED
    BY <2>1, <2>2, <2>3, PIs
<1> HIDE DEF m
<1>4. \A j \in 0 .. 7 : j \in Byte(m) <=> (m \div P[j]) % 2 = 1
  BY BitsIs DEF Byte
<1>5. \A j \in 3 .. 7 : j \in Byte(m) <=> j - 3 \in Bits(n)
  <2>1. \A j \in 3 .. 7 : j \in 0 .. 7 /\ j - 3 \in 0 .. 30
    OBVIOUS
  <2> QED
    BY <1>3, <1>4, <2>1, BitsIs
<1>6. \A j \in 0 .. 2 : j \notin Byte(m)
  BY <1>2, <1>4
<1>7. Byte(m) \subseteq 0 .. 7
  BY DEF Byte
<1>8. \A j \in 0 .. 7 : 8 * 0 + j \in {b + 3 : b \in Bits(n)} <=> j - 3 \in Bits(n)
  <2>1. \A b \in Bits(n) : b \in 0 .. 30
    BY BitsIs
  <2> QED
    BY <2>1
<1>9. \A j \in 0 .. 2 : j - 3 \notin Bits(n)
  BY BitsIs
<1>10. \A j \in 0 .. 7 : j \in 0 .. 2 \/ j \in 3 .. 7
  OBVIOUS
<1>11. Low({b + 3 : b \in Bits(n)}, 0) = {j \in 0 .. 7 : 8 * 0 + j \in {b + 3 : b \in Bits(n)}}
  BY DEF Low
<1> QED
  BY <1>5, <1>6, <1>7, <1>8, <1>9, <1>10, <1>11 DEF m

\* The eight octets that sm3_hash writes are those of the standard.
LEMMA LengthIs ==
  ASSUME NEW n \in Nat, n <= MaxLen
  PROVE  BigEndian(8, BitLen(n)) = LengthOctets(n)
<1>1. n < 2147483648
  BY DEF MaxLen
<1>2. PICK w : w = {b + 3 : b \in Bits(n)}
  OBVIOUS
<1>3. BitLen(n) = w
  <2>1. w \subseteq 0 .. 63
    BY <1>2, BitsIs
  <2>2. Bits64(n) = Bits(n)
    BY <1>1, Bits64Is
  <2>3. BitLen(n) = w \cap (0 .. 63)
    BY <1>2, <2>2 DEF BitLen, Cut
  <2> QED
    BY <2>1, <2>3
<1>4. Low(w, 0) = Byte(8 * (n % 32))
  BY <1>2, LowestOctet
<1>5. Low(w, 1) = Byte(n \div 32)
  <2>1. PICK m \in Nat : m = n \div 32
    OBVIOUS
  <2>2. \A i \in 0 .. 7 : m \div P[i] = n \div P[i + 5]
    BY <2>1, DivTwice
  <2>3. \A i \in 0 .. 7 : i + 5 <= 30
    OBVIOUS
  <2>4. Quotient(m, n, 5)
    BY <2>2, <2>3 DEF Quotient
  <2>5. Low({b + 3 : b \in Bits(n)}, 1) = Byte(m)
    BY <2>1, <2>4, OctetOf
  <2> QED
    BY <1>2, <2>1, <2>5
<1>6. Low(w, 2) = Byte(n \div 8192)
  <2>1. PICK m \in Nat : m = n \div 8192
    OBVIOUS
  <2>2. \A i \in 0 .. 7 : m \div P[i] = n \div P[i + 13]
    BY <2>1, DivTwice
  <2>3. \A i \in 0 .. 7 : i + 13 <= 30
    OBVIOUS
  <2>4. Quotient(m, n, 13)
    BY <2>2, <2>3 DEF Quotient
  <2>5. Low({b + 3 : b \in Bits(n)}, 2) = Byte(m)
    BY <2>1, <2>4, OctetOf
  <2> QED
    BY <1>2, <2>1, <2>5
<1>7. Low(w, 3) = Byte(n \div 2097152)
  <2>1. PICK m \in Nat : m = n \div 2097152
    OBVIOUS
  <2>2. \A i \in 0 .. 7 : m \div P[i] = n \div P[i + 21]
    BY <2>1, DivTwice
  <2>3. \A i \in 0 .. 7 : i + 21 <= 30
    OBVIOUS
  <2>4. Quotient(m, n, 21)
    BY <2>2, <2>3 DEF Quotient
  <2>5. Low({b + 3 : b \in Bits(n)}, 3) = Byte(m)
    BY <2>1, <2>4, OctetOf
  <2> QED
    BY <1>2, <2>1, <2>5
<1>8. Low(w, 4) = Byte(n \div 536870912)
  <2>1. PICK m \in 0 .. 3 : m = n \div 536870912
    BY <1>1
  <2>2. \A i \in 0 .. 7 : i + 29 > 30 => m < P[i]
    <3>1. \A i \in 0 .. 7 : i + 29 > 30 => i \in 2 .. 7
      OBVIOUS
    <3>2. \A i \in 2 .. 7 : 3 < P[i]
      BY PIs
    <3>3. \A i \in 0 .. 7 : P[i] \in Nat
      BY PIs
    <3> QED
      BY <3>1, <3>2, <3>3
  <2>3. \A i \in 0 .. 7 : i + 29 <= 30 => m \div P[i] = n \div P[i + 29]
    <3>1. \A i \in 0 .. 7 : i + 29 <= 30 => i \in 0 .. 1
      OBVIOUS
    <3> QED
      BY <2>1, <3>1, DivTwice
  <2>4. Quotient(m, n, 29)
    BY <2>2, <2>3 DEF Quotient
  <2>5. Low({b + 3 : b \in Bits(n)}, 4) = Byte(m)
    BY <2>1, <2>4, OctetOf
  <2> QED
    BY <1>2, <2>1, <2>5
<1>9. \A k \in {5, 6, 7} : Low(w, k) = {}
  <2>1. \A b \in w : b \in 3 .. 33
    BY <1>2, BitsIs
  <2> QED
    BY <2>1 DEF Low
<1>10. BigEndian(8, w) = << Low(w, 7), Low(w, 6), Low(w, 5), Low(w, 4), Low(w, 3), Low(w, 2), Low(w, 1), Low(w, 0) >>
  <2> DEFINE low(k) == Low(w, k)
  <2>1. BigEndian(8, w) = [k \in 1 .. 8 |-> low(8 - k)]
    BY DEF BigEndian
  <2> HIDE DEF low
  <2>2. [k \in 1 .. 8 |-> low(8 - k)] = << low(7), low(6), low(5), low(4), low(3), low(2), low(1), low(0) >>
    OBVIOUS
  <2> QED
    BY <2>1, <2>2 DEF low
<1> QED
  BY <1>3, <1>4, <1>5, <1>6, <1>7, <1>8, <1>9, <1>10 DEF LengthOctets

\* sm3_hash pads as the standard does.
LEMMA PaddedIs ==
  ASSUME NEW s \in Text, Len(s) <= MaxLen
  PROVE  Len(Padded(s)) % 64 = 0 /\ Padded(s) = StandardPadding(s)
<1>1. PICK l \in Nat : l = Len(s)
  BY TextLen
<1> DEFINE reserve == (l % 64) + 1
<1>2. PICK zeros : zeros = RangeEnd(reserve) - reserve
  OBVIOUS
<1>3. zeros \in 0 .. 63 /\ (l + 1 + zeros + 8) % 64 = 0
  BY <1>2, ZerosAre
<1>4. (CHOOSE z \in 0 .. 63 : (l + 1 + z + 8) % 64 = 0) = zeros
  BY <1>3, OneFilling
<1>5. PICK tail : tail = BigEndian(8, BitLen(l))
  OBVIOUS
<1>6. Padded(s) = s \o <<{7}>> \o Repeated({}, zeros) \o tail
  <2>1. Int32(l) = l
    BY <1>1, Int32Keeps
  <2>2. ((l + 1) + zeros) - (l + 1) = zeros
    BY <1>3
  <2> QED
    BY <1>1, <1>2, <1>5, <2>1, <2>2 DEF Padded
<1>7. StandardPadding(s) = s \o <<{7}>> \o Repeated({}, zeros) \o tail
  <2>1. LengthOctets(l) = tail
    BY <1>1, <1>5, LengthIs
  <2> QED
    BY <1>1, <1>4, <2>1 DEF StandardPadding
<1>8. Len(Padded(s)) = l + 1 + zeros + 8
  <2>1. <<{7}>> \in Text /\ Len(<<{7}>>) = 1
    <3>1. {7} \in Octet
      BY DEF Octet, Word
    <3> QED
      BY <3>1, ByteText
  <2>2. Repeated({}, zeros) \in Text /\ Len(Repeated({}, zeros)) = zeros
    <3>1. {} \in Octet
      BY DEF Octet, Word
    <3>2. Repeated({}, zeros) \in [1 .. zeros -> Octet] /\ zeros \in Nat
      BY <1>3, <3>1 DEF Repeated
    <3> QED
      BY <3>2, FcnIsSeq DEF Text
  <2>3. tail \in Text /\ Len(tail) = 8
    <3>1. \A a, k : Low(a, k) \in Octet
      BY DEF Low, Octet, Word
    <3>2. tail \in [1 .. 8 -> Octet]
      BY <1>5, <3>1 DEF BigEndian
    <3> QED
      BY <3>2, FcnIsSeq DEF Text
  <2>4. PICK one, z : one = <<{7}>> /\ z = Repeated({}, zeros)
    OBVIOUS
  <2>5. s \o one \in Text /\ Len(s \o one) = l + 1
    BY <1>1, <2>1, <2>4, ConcatIs
  <2>6. (s \o one) \o z \in Text /\ Len((s \o one) \o z) = l + 1 + zeros
    BY <2>2, <2>4, <2>5, ConcatIs
  <2>7. Len(((s \o one) \o z) \o tail) = l + 1 + zeros + 8
    BY <2>3, <2>6, ConcatIs
  <2> QED
    BY <1>6, <2>4, <2>7
<1> QED
  BY <1>3, <1>6, <1>7, <1>8

\* The invariant gives PadsWhole.
LEMMA InvPadsWhole == BeanInv => PadsWhole
<1> SUFFICES ASSUME BeanInv PROVE PadsWhole
  OBVIOUS
<1>1. call.query \in Text /\ call.stub \in Seq(Word(4))
  BY CallAssumption DEF BeanInv, Call
<1>2. Zero16 \in Text
  <2>1. {} \in Octet
    BY DEF Octet, Word
  <2>2. Zero16 \in [1 .. 16 -> Octet]
    BY <2>1 DEF Zero16, Repeated
  <2> QED
    BY <2>2, FcnIsSeq DEF Text
<1>3. Unhexed(call.stub) \in Text
  <2>1. PICK st : st = call.stub
    OBVIOUS
  <2>2. Len(st) \in Nat /\ \A k \in 1 .. Len(st) : st[k] \in Word(4)
    BY <1>1, <2>1
  <2>3. PICK n \in Nat : n = Len(st) \div 2
    BY <2>2
  <2>4. ASSUME NEW k \in 1 .. n PROVE {b + 4 : b \in st[2 * k - 1]} \cup st[2 * k] \in Octet
    <3>1. 2 * k - 1 \in 1 .. Len(st) /\ 2 * k \in 1 .. Len(st)
      BY <2>2, <2>3
    <3>2. st[2 * k - 1] \in Word(4) /\ st[2 * k] \in Word(4)
      BY <2>2, <3>1
    <3>3. PICK x, y : x = st[2 * k - 1] /\ y = st[2 * k]
      OBVIOUS
    <3>4. x \subseteq 0 .. 3 /\ y \subseteq 0 .. 3
      BY <3>2, <3>3 DEF Word
    <3>5. {b + 4 : b \in x} \cup y \subseteq 0 .. 8 - 1
      BY <3>4
    <3>6. {b + 4 : b \in x} \cup y \in Octet
      BY <3>5 DEF Octet, Word
    <3> QED
      BY <3>3, <3>6, Zenon
  <2>5. [k \in 1 .. n |-> {b + 4 : b \in st[2 * k - 1]} \cup st[2 * k]] \in [1 .. n -> Octet]
    BY <2>4
  <2>6. Unhexed(st) = [k \in 1 .. n |-> {b + 4 : b \in st[2 * k - 1]} \cup st[2 * k]]
    BY <2>3 DEF Unhexed
  <2> QED
    BY <2>1, <2>5, <2>6, FcnIsSeq DEF Text
<1>4. HashedBody(call) \in Text /\ HashedQuery(call) \in Text
  BY <1>1, <1>2, <1>3 DEF HashedBody, HashedQuery
<1> QED
  BY <1>4, PaddedIs, Zenon DEF PadsWhole

\* Texts that leave Overhead in the buffer never make pb_serialize write past it, and
\* a call that ends has left no text out of the bean or of the two messages in it:
\* for any buffer of up to 2^14 bytes and any texts.
THEOREM BeanComplete == Spec => []Complete
BY BeanInductive, InvComplete, PTL

\* A reader of standard protobuf finds the fields that were built, in their order, in
\* the bean and in the messages inside, although pb_varint cuts its value to 32 bits
\* and stops at 0x80.
THEOREM BeanIsRead == Spec => []BeanReads
BY BeanInductive, InvBeanReads, PTL

\* sm3_hash pads the body and the query as the standard does, for any texts of up to
\* the 2^31 - 65 bytes whose length the int in sm3.c:100 keeps.
THEOREM HashesPadded == Spec => []PadsWhole
BY BeanInductive, InvPadsWhole, PTL

(***************************************************************************)
(* The draws of random bytes                                               *)
(***************************************************************************)

(***************************************************************************)
(* What each part of a draw relies on: a descriptor is open exactly while  *)
(* the draw reads, and `total' is what was written unless a byte is lost.  *)
(***************************************************************************)
DrawInv ==
  /\ files = IF step \in {"read", "count", "close"} THEN 1 ELSE 0
  /\ step \in {"open", "read", "count", "fallback"} => failures = 0
  /\ fn = "crypto_rand_byte" => wanted = 1
  /\ fn = "crypto_rand_bytes" /\ step \in {"open", "read", "close"} => filled = total
  /\ step = "count" => fn = "crypto_rand_bytes" /\ got <= wanted - total
                      /\ filled = total + (IF got > 0 THEN got ELSE 0)
  /\ step = "close" /\ failures = 0 => filled = wanted
  /\ step = "idle" /\ draws > 0 /\ failures = 0 => filled = wanted

RandInv == TypeRand /\ DrawInv

\* RandInv is inductive.
THEOREM RandInductive == SpecRand => []RandInv
<1>1. InitRand => RandInv
  BY BoundAssumption DEF InitRand, RandInv, TypeRand, DrawInv
<1>2. RandInv /\ [NextRand]_randVars => RandInv'
  <2> SUFFICES ASSUME RandInv, [NextRand]_randVars PROVE RandInv'
    OBVIOUS
  <2> USE SizeAssumption, BoundAssumption DEF RandInv, TypeRand, DrawInv
  <2>0. wanted \in Nat \ {0}
    OBVIOUS
  <2>1. ASSUME NEW f, NEW k \in Sizes \cup {1}, Draw(f, k),
               \/ f = "crypto_rand_byte" /\ k = 1
               \/ f = "crypto_rand_bytes"
        PROVE  RandInv'
    BY <2>1 DEF Draw
  <2>2. CASE Open
    BY <2>2 DEF Open
  <2>3. CASE ReadByte
    <3>1. PICK r \in Reads(1) : filled' = (IF r > 0 THEN r ELSE 0) /\ failures' = (IF r > 0 THEN 0 ELSE 1)
      BY <2>3 DEF ReadByte
    <3>2. r \in {-1, 0, 1}
      BY <3>1 DEF Reads
    <3>3. filled' \in 0 .. 1 /\ (failures' = 0 => filled' = 1)
      BY <3>1, <3>2
    <3> QED
      BY <2>0, <2>3, <3>1, <3>3 DEF ReadByte
  <2>4. CASE ReadBytes
    <3>1. PICK r \in Reads(Asked) : got' = r /\ filled' = total + (IF r > 0 THEN r ELSE 0)
      BY <2>4 DEF ReadBytes
    <3>2. r \in -1 .. wanted - total
      BY <2>0, <3>1 DEF Reads, Asked
    <3>3. got' \in -1 .. wanted - total /\ filled' \in 0 .. wanted
      BY <2>0, <3>1, <3>2
    <3> QED
      BY <2>0, <2>4, <3>1, <3>3 DEF ReadBytes
  <2>5. CASE CountBytes
    <3>1. CASE GivesUp(got)
      BY <2>0, <2>5, <3>1 DEF CountBytes, GivesUp
    <3>2. CASE ~GivesUp(got)
      <4>1. total' \in 0 .. wanted /\ filled' = total'
        BY <2>0, <2>5, <3>2 DEF CountBytes, GivesUp
      <4> QED
        BY <2>0, <2>5, <3>2, <4>1 DEF CountBytes
    <3> QED
      BY <3>1, <3>2
  <2>6. CASE HasAll
    BY <2>0, <2>6 DEF HasAll
  <2>7. CASE Close
    BY <2>7 DEF Close, Closed
  <2>8. CASE UseRand
    BY <2>0, <2>8 DEF UseRand, Fallback
  <2>9. CASE UNCHANGED randVars
    BY <2>9 DEF randVars
  <2> QED
    BY <2>1, <2>2, <2>3, <2>4, <2>5, <2>6, <2>7, <2>8, <2>9 DEF NextRand
<1> QED
  BY <1>1, <1>2, PTL DEF SpecRand

\* No draw leaves its descriptor open, however its reads end.
THEOREM FilesClosed == SpecRand => []NoFileLeft
<1>1. RandInv => NoFileLeft
  BY DEF RandInv, DrawInv, NoFileLeft
<1> QED
  BY <1>1, RandInductive, PTL

\* A draw of any size is filled to its last byte by any number of short reads, or
\* by rand(), unless a read fails.
THEOREM DrawsFilled == SpecRand => []FilledUnlessReadFails
<1>1. RandInv => FilledUnlessReadFails
  BY DEF RandInv, DrawInv, FilledUnlessReadFails
<1> QED
  BY <1>1, RandInductive, PTL

\* The bytes counted and written never exceed those asked for.
THEOREM RandTypes == SpecRand => []TypeRand
<1>1. RandInv => TypeRand
  BY DEF RandInv
<1> QED
  BY <1>1, RandInductive, PTL

================================================================================
