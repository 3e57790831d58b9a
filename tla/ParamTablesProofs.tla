--------------------------- MODULE ParamTablesProofs ---------------------------
(***************************************************************************)
(* Theorems about ParamTables, for all urls, lists and texts and every     *)
(* first size of a table.                                                  *)
(***************************************************************************)
EXTENDS ParamTables, QueryTextProofs

--------------------------------------------------------------------------------
(* The operators of the steps *)

LEMMA AppendIs ==
  ASSUME NEW S, NEW s \in Seq(S), NEW e \in S
  PROVE  Append(s, e) = [j \in 1 .. Len(s) + 1 |-> IF j <= Len(s) THEN s[j] ELSE e]
<1>1. PICK t \in Seq(S) : t = Append(s, e)
  BY AppendProperties
<1>2. /\ Len(t) = Len(s) + 1 /\ \A i \in 1 .. Len(s) : t[i] = s[i]
      /\ t[Len(s) + 1] = e
  BY <1>1, AppendProperties
<1>3. Len(s) \in Nat /\ DOMAIN t = 1 .. Len(s) + 1
  BY <1>2, LenProperties
<1>4. \A j \in 1 .. Len(s) + 1 : t[j] = IF j <= Len(s) THEN s[j] ELSE e
  <2> TAKE j \in 1 .. Len(s) + 1
  <2>1. (j <= Len(s) => j \in 1 .. Len(s)) /\ (~(j <= Len(s)) => j = Len(s) + 1)
    BY <1>3
  <2> QED
    BY <1>2, <2>1
<1>5. t = [j \in 1 .. Len(s) + 1 |-> t[j]]
  BY <1>3
<1> QED
  BY <1>1, <1>4, <1>5

LEMMA EmptyText == <<>> \in Text /\ Len(<<>>) = 0
BY EmptySeq DEF Text

LEMMA TokensText ==
  ASSUME NEW s \in Text
  PROVE  Tokens(s) \in Seq(Text \ {<<>>})
<1>1. Seq(Byte \ {Amp}) \ {<<>>} \subseteq Text \ {<<>>}
  BY SeqMonotonic DEF Text
<1>2. Tokens(s) \in Seq(Seq(Byte \ {Amp}) \ {<<>>})
  BY TokensAre DEF Text
<1> QED
  BY <1>1, <1>2, SeqMonotonic

LEMMA KeyValueEntry ==
  ASSUME NEW t \in Text
  PROVE  /\ KeyOf(t) \in Text /\ ValueOf(t) \in Text
         /\ DecodedKey(t) \in Text /\ DecodedValue(t) \in Text
         /\ Pair(KeyOf(t), ValueOf(t)) \in Entry
         /\ Pair(DecodedKey(t), DecodedValue(t)) \in Entry
<1>1. KeyOf(t) \in Text /\ ValueOf(t) \in Text
  BY KeyValueText DEF Text
<1>2. DecodedKey(t) \in Text /\ DecodedValue(t) \in Text
  BY <1>1, UnquotedText DEF Text, DecodedKey, DecodedValue
<1> QED
  BY <1>1, <1>2 DEF Pair, Entry

LEMMA QueryOfText ==
  ASSUME NEW u \in Text
  PROVE  QueryOf(u) \in Text
<1> DEFINE S == {n \in 1 .. Len(u) : u[n] = QuestionMark}
           q == IF S # {} THEN Min(S) ELSE 0
<1>0. Len(u) \in Nat /\ u \in Seq(Byte)
  BY LenProperties DEF Text
<1>1. QueryOf(u) = IF q = 0 THEN <<>> ELSE SubSeq(u, q + 1, Len(u))
  BY DEF QueryOf, SelectInSeq
<1>2. q \in Nat
  <2>1. S \in SUBSET Nat
    OBVIOUS
  <2>2. S # {} => Min(S) \in S
    BY <2>1, MinIs
  <2> QED
    BY <2>1, <2>2
<1> HIDE DEF q
<1>3. SubSeq(u, q + 1, Len(u)) \in Seq(Byte)
  <2>1. \A m \in q + 1 .. Len(u) : u[m] \in Byte
    <3> TAKE m \in q + 1 .. Len(u)
    <3>1. m \in 1 .. Len(u)
      BY <1>0, <1>2
    <3> QED
      BY <1>0, <3>1, ElementOfSeq
  <2>2. q + 1 \in Int /\ Len(u) \in Int
    BY <1>0, <1>2
  <2> QED
    BY <2>1, <2>2, SubSeqProperties
<1> QED
  BY <1>1, <1>3, EmptyText DEF Text

\* Place is the first entry of its key.
LEMMA PlaceIs ==
  ASSUME NEW l \in Seq(Entry), NEW k, Has(l, k)
  PROVE  /\ Place(l, k) \in 1 .. Len(l) /\ l[Place(l, k)].key = k
         /\ \A m \in 1 .. Len(l) : l[m].key = k => Place(l, k) <= m
<1> DEFINE S == {n \in 1 .. Len(l) : l[n].key = k}
<1>0. Len(l) \in Nat /\ DOMAIN l = 1 .. Len(l)
  BY LenProperties
<1>1. S \in SUBSET Nat /\ S # {}
  BY <1>0 DEF Has
<1>2. Place(l, k) = Min(S)
  BY <1>1 DEF Place, SelectInSeq
<1>3. Min(S) \in S /\ \A n \in S : Min(S) <= n
  BY <1>1, MinIs
<1> QED
  BY <1>2, <1>3

--------------------------------------------------------------------------------
(* Types *)

Typed ==
  /\ source \in {"url", "list", "text"}
  /\ pc \in {"url", "url_table", "encode", "query", "query_table", "read", "done"}
  /\ url \in Text /\ text \in Text
  /\ tokens \in Seq(Text \ {<<>>})
  /\ list \in Seq(Entry) /\ found \in Seq(Entry)
  /\ cap \in Nat

\* Head and tail of what strtok_r has yet to return.
LEMMA TokenTaken ==
  ASSUME Typed, tokens # <<>>
  PROVE  Head(tokens) \in Text /\ Tail(tokens) \in Seq(Text \ {<<>>})
BY HeadTailProperties DEF Typed

LEMMA RoomIs ==
  ASSUME NEW n \in Nat, NEW room \in Nat, n <= room
  PROVE  Room(n, room) \in Nat /\ (room > 0 => n + 1 <= Room(n, room) /\ Room(n, room) > 0)
BY DEF Room

\* The text of a list, and what its parser makes of it.
EncodedText(l) == FlattenSeq([n \in DOMAIN l |-> EncodedPair(l, n)])

\* The encoding of a text codes it, and has no separator in it.
LEMMA QuoteAllIs ==
  ASSUME NEW s \in Text
  PROVE  /\ QuoteAll(s) \in Seq(Clean)
         /\ \E p : IsCoding(p, QuoteAll(s), s, Len(s))
<1> DEFINE N == Len(s)
           seqs == [n \in DOMAIN s |-> QuotedByte(s[n])]
<1>0. N \in Nat /\ DOMAIN s = 1 .. N /\ s \in Seq(Byte)
  BY LenProperties DEF Text
<1>1. \A n \in 1 .. N : QuotedByte(s[n]) \in Seq(Clean)
  BY <1>0, ElementOfSeq, QuotedByteClean
<1>2. seqs \in Seq(Seq(Clean)) /\ Len(seqs) = N /\ \A n \in 1 .. N : seqs[n] = QuotedByte(s[n])
  BY <1>0, <1>1
<1> HIDE DEF seqs
<1>3. PICK f : Accumulates(f, seqs, Clean, N) /\ FlattenSeq(seqs) = f[N]
  BY <1>2, FlattenIs
<1>4. /\ f \in [0 .. N -> Seq(Clean)] /\ f[0] = <<>>
      /\ \A n \in 1 .. N : f[n] = f[n - 1] \o QuotedByte(s[n])
  BY <1>2, <1>3 DEF Accumulates
<1> DEFINE Wrong == {n \in 0 .. N : ~\E p : IsCoding(p, f[n], s, n)}
<1>5. Wrong = {}
  <2> SUFFICES ASSUME Wrong # {} PROVE FALSE
    OBVIOUS
  <2>1. Wrong \in SUBSET Nat
    BY <1>0
  <2>2. PICK k \in Wrong : \A j \in Wrong : k <= j
    BY <2>1, LeastNatural
  <2>3. k \in 0 .. N /\ ~\E p : IsCoding(p, f[k], s, k)
    OBVIOUS
  <2>4. CASE k = 0
    BY <1>4, <2>3, <2>4, CodingStarts
  <2>5. CASE k # 0
    <3>1. k - 1 \in 0 .. N /\ k - 1 \in Nat /\ k - 1 < N /\ (k - 1) + 1 = k /\ ~(k <= k - 1) /\ k \in 1 .. N
      BY <1>0, <2>3, <2>5
    <3>2. k - 1 \notin Wrong
      <4> HIDE DEF Wrong
      <4> QED
        BY <2>2, <3>1
    <3>3. PICK p : IsCoding(p, f[k - 1], s, k - 1)
      BY <3>1, <3>2
    <3>4. f[k - 1] \in Seq(Byte)
      <4>1. f[k - 1] \in Seq(Clean)
        BY <1>4, <3>1
      <4> QED
        BY <4>1, SeqMonotonic DEF Clean
    <3>5. \E q : IsCoding(q, f[k - 1] \o QuotedByte(s[(k - 1) + 1]), s, (k - 1) + 1)
      BY <1>0, <3>1, <3>3, <3>4, CodingGrows
    <3> QED
      BY <1>4, <2>3, <3>1, <3>5
  <2> QED
    BY <2>4, <2>5
<1>6. f[N] \in Seq(Clean) /\ \E p : IsCoding(p, f[N], s, N)
  <2>1. N \in 0 .. N
    BY <1>0
  <2> QED
    BY <1>4, <1>5, <2>1
<1>7. QuoteAll(s) = f[N]
  BY <1>3 DEF QuoteAll, seqs
<1> QED
  BY <1>6, <1>7

LEMMA QuoteAllBack ==
  ASSUME NEW s \in Text
  PROVE  /\ QuoteAll(s) \in Text /\ Unquoted(QuoteAll(s)) = s
         /\ QuoteAll(s) = <<>> <=> s = <<>>
<1>1. QuoteAll(s) \in Seq(Byte)
  BY QuoteAllIs, SeqMonotonic DEF Clean
<1>2. Unquoted(QuoteAll(s)) = s
  BY <1>1, QuoteAllIs, UnquotedBack DEF Text
<1>3. QuoteAll(<<>>) = <<>>
  BY DEF QuoteAll, FlattenSeq
<1>4. Unquoted(QuoteAll(<<>>)) = <<>>
  <2>1. \E p : IsCoding(p, QuoteAll(<<>>), <<>>, Len(<<>>))
    BY EmptyText, QuoteAllIs
  <2> QED
    BY <1>3, <2>1, EmptyText, UnquotedBack DEF Text
<1> QED
  BY <1>1, <1>2, <1>3, <1>4 DEF Text

TokenOf(e) == (QuoteAll(e.key) \o <<Equals>>) \o QuoteAll(e.value)

LEMMA TokenOfIs ==
  ASSUME NEW e \in Entry
  PROVE  LET t == TokenOf(e)
         IN  /\ t \in Seq(Byte \ {Amp}) /\ t # <<>> /\ HasEquals(t)
             /\ Unquoted(KeyOf(t)) = e.key /\ Unquoted(ValueOf(t)) = e.value
             /\ ValueOf(t) = <<>> <=> e.value = <<>>
             /\ \A k \in Nat : ((Separator(k) \o QuoteAll(e.key)) \o <<Equals>>)
                               \o QuoteAll(e.value) = Separator(k) \o t
<1>1. e.key \in Text /\ e.value \in Text
  BY DEF Entry
<1>2. PICK a \in Seq(Clean) : a = QuoteAll(e.key)
  BY <1>1, QuoteAllIs
<1>3. PICK b \in Seq(Clean) : b = QuoteAll(e.value)
  BY <1>1, QuoteAllIs
<1>4. a \in Seq(Byte \ {Amp, Equals}) /\ b \in Seq(Byte \ {Amp})
  BY SeqMonotonic DEF Clean
<1>5. LET t == (a \o <<Equals>>) \o b
      IN  /\ t \in Seq(Byte \ {Amp}) /\ t # <<>>
          /\ HasEquals(t) /\ KeyOf(t) = a /\ ValueOf(t) = b
          /\ \A k \in Nat : ((Separator(k) \o a) \o <<Equals>>) \o b = Separator(k) \o t
  BY <1>4, PairToken
<1>6. Unquoted(a) = e.key /\ Unquoted(b) = e.value /\ (b = <<>> <=> e.value = <<>>)
  BY <1>1, <1>2, <1>3, QuoteAllBack
<1> QED
  BY <1>2, <1>3, <1>5, <1>6, Zenon DEF TokenOf

\* The parser finds in the encoded text the list that was encoded.
LEMMA EncodedTextIs ==
  ASSUME NEW l \in Seq(Entry)
  PROVE  /\ EncodedText(l) \in Text
         /\ QueryPairs(EncodedText(l)) = l
         /\ Counting(EncodedText(l)) = {n \in DOMAIN l : l[n].value # <<>>}
<1> DEFINE N == Len(l)
           seqs == [n \in DOMAIN l |-> EncodedPair(l, n)]
           toks(n) == [k \in 1 .. n |-> TokenOf(l[k])]
<1>0. N \in Nat /\ DOMAIN l = 1 .. N /\ \A n \in 1 .. N : l[n] \in Entry
  BY LenProperties, ElementOfSeq
<1>1. ASSUME NEW n \in 1 .. N
      PROVE  /\ EncodedPair(l, n) = Separator(n - 1) \o TokenOf(l[n])
             /\ EncodedPair(l, n) \in Seq(Byte)
  <2>1. n - 1 \in Nat /\ (n > 1 <=> n - 1 > 0)
    BY <1>0
  <2>2. l[n] \in Entry
    BY <1>0
  <2>3. EncodedPair(l, n) = ((Separator(n - 1) \o QuoteAll(l[n].key)) \o <<Equals>>)
                            \o QuoteAll(l[n].value)
    BY <2>1 DEF EncodedPair, Separator
  <2>4. EncodedPair(l, n) = Separator(n - 1) \o TokenOf(l[n])
    BY <2>1, <2>2, <2>3, TokenOfIs
  <2>5. Separator(n - 1) \in Seq(Byte) /\ TokenOf(l[n]) \in Seq(Byte)
    BY <2>1, <2>2, SeparatorIs, TokenOfIs, SeqMonotonic
  <2> QED
    BY <2>4, <2>5, ConcatProperties
<1>2. /\ seqs \in Seq(Seq(Byte)) /\ Len(seqs) = N
      /\ \A n \in 1 .. N : seqs[n] = Separator(n - 1) \o TokenOf(l[n])
  BY <1>0, <1>1
<1> HIDE DEF seqs
<1>3. PICK f : Accumulates(f, seqs, Byte, N) /\ FlattenSeq(seqs) = f[N]
  BY <1>2, FlattenIs
<1>4. /\ f \in [0 .. N -> Seq(Byte)] /\ f[0] = <<>>
      /\ \A n \in 1 .. N : f[n] = f[n - 1] \o (Separator(n - 1) \o TokenOf(l[n]))
  BY <1>2, <1>3 DEF Accumulates
<1> DEFINE Wrong == {n \in 0 .. N : ~\E p : Joins(p, f[n], toks(n))}
<1>5. Wrong = {}
  <2> SUFFICES ASSUME Wrong # {} PROVE FALSE
    OBVIOUS
  <2>1. Wrong \in SUBSET Nat
    BY <1>0
  <2>2. PICK k \in Wrong : \A j \in Wrong : k <= j
    BY <2>1, LeastNatural
  <2>3. k \in 0 .. N /\ ~\E p : Joins(p, f[k], toks(k))
    OBVIOUS
  <2>4. CASE k = 0
    <3>1. toks(0) = <<>>
      OBVIOUS
    <3> QED
      BY <1>4, <2>3, <2>4, <3>1, JoinStarts
  <2>5. CASE k # 0
    <3>1. /\ k - 1 \in 0 .. N /\ k - 1 \in Nat /\ (k - 1) + 1 = k /\ ~(k <= k - 1)
          /\ k \in 1 .. N
      BY <1>0, <2>3, <2>5
    <3>2. k - 1 \notin Wrong
      <4> HIDE DEF Wrong
      <4> QED
        BY <2>2, <3>1
    <3>3. PICK p : Joins(p, f[k - 1], toks(k - 1))
      BY <3>1, <3>2
    <3>4. f[k - 1] \in Seq(Byte)
      BY <1>4, <3>1
    <3>5. Len(toks(k - 1)) = k - 1
      BY <3>1
    <3>6. PICK x \in Seq(Byte \ {Amp}) : x = TokenOf(l[k]) /\ x # <<>>
      BY <1>0, <3>1, TokenOfIs
    <3>7. Append(toks(k - 1), x) = toks(k)
      <4>1. Append(toks(k - 1), x) = [j \in 1 .. (k - 1) + 1 |-> IF j <= k - 1 THEN toks(k - 1)[j] ELSE x]
        BY <3>1, <3>5
      <4>2. \A j \in 1 .. k : (IF j <= k - 1 THEN toks(k - 1)[j] ELSE x) = TokenOf(l[j])
        <5> TAKE j \in 1 .. k
        <5>1. j <= k - 1 => j \in 1 .. k - 1
          BY <3>1
        <5>2. ~(j <= k - 1) => j = k
          BY <3>1
        <5> QED
          BY <3>6, <5>1, <5>2
      <4> QED
        BY <3>1, <4>1, <4>2
    <3>8. \E q : Joins(q, (f[k - 1] \o Separator(k - 1)) \o x, toks(k))
      <4>1. \E q : Joins(q, (f[k - 1] \o Separator(Len(toks(k - 1)))) \o x, Append(toks(k - 1), x))
        <5> HIDE DEF toks
        <5> QED
          BY <3>3, <3>4, <3>6, JoinGrows
      <4> QED
        BY <3>5, <3>7, <4>1, Zenon
    <3>9. (f[k - 1] \o Separator(k - 1)) \o x = f[k]
      <4>1. Separator(k - 1) \in Seq(Byte) /\ x \in Seq(Byte)
        BY <3>1, SeparatorIs, SeqMonotonic
      <4>2. (f[k - 1] \o Separator(k - 1)) \o x = f[k - 1] \o (Separator(k - 1) \o x)
        BY <3>4, <4>1, AssociativeText, Zenon
      <4> QED
        BY <1>4, <3>1, <3>6, <4>2, Zenon
    <3> QED
      BY <2>3, <3>8, <3>9
  <2> QED
    BY <2>4, <2>5
<1> DEFINE T == EncodedText(l)
<1>6. T \in Seq(Byte) /\ \E p : Joins(p, T, toks(N))
  <2>1. N \in 0 .. N
    BY <1>0
  <2>2. T = f[N]
    BY <1>3 DEF EncodedText, seqs
  <2> QED
    BY <1>4, <1>5, <2>1, <2>2
<1>7. Tokens(T) = toks(N)
  BY <1>6, JoinTakenApart
<1> HIDE DEF T
<1>8. DOMAIN Tokens(T) = 1 .. N /\ \A n \in 1 .. N : Tokens(T)[n] = TokenOf(l[n])
  BY <1>7
<1>9. ASSUME NEW n \in 1 .. N
      PROVE  /\ Pair(Unquoted(KeyOf(Tokens(T)[n])), Unquoted(ValueOf(Tokens(T)[n]))) = l[n]
             /\ HasEquals(Tokens(T)[n]) /\ (ValueOf(Tokens(T)[n]) = <<>> <=> l[n].value = <<>>)
  <2>1. l[n] \in Entry /\ Tokens(T)[n] = TokenOf(l[n])
    BY <1>0, <1>8
  <2>2. l[n] = [key |-> l[n].key, value |-> l[n].value]
    BY <2>1 DEF Entry
  <2> QED
    BY <2>1, <2>2, TokenOfIs DEF Pair
<1> DEFINE pr(n) == Pair(Unquoted(KeyOf(Tokens(T)[n])), Unquoted(ValueOf(Tokens(T)[n])))
<1>10. QueryPairs(T) = l
  <2>1. QueryPairs(T) = [n \in 1 .. N |-> pr(n)]
    BY <1>8 DEF QueryPairs
  <2>2. \A n \in 1 .. N : pr(n) = l[n]
    BY <1>9
  <2>3. l = [n \in 1 .. N |-> l[n]]
    BY <1>0
  <2> HIDE DEF pr
  <2> QED
    BY <2>1, <2>2, <2>3
<1>11. Counting(T) = {n \in DOMAIN l : l[n].value # <<>>}
  BY <1>0, <1>8, <1>9 DEF Counting
<1> QED
  BY <1>6, <1>10, <1>11 DEF T, Text

--------------------------------------------------------------------------------
(* The first and the last entry of a key *)

FirstOnes(l, N) == {n \in N : \A m \in N : m < n => l[m].key # l[n].key}
Repeated(l, N, k) == \E n \in N : l[n].key = k

LEMMA FirstsIs ==
  ASSUME NEW l \in Seq(Entry), NEW N \in SUBSET (1 .. Len(l))
  PROVE  /\ FirstOnes(l, N) \in SUBSET (1 .. Len(l)) /\ FirstOnes(l, N) \in SUBSET N
         /\ Firsts(l, N) = InOrder(FirstOnes(l, N))
         /\ Firsts(l, N) \in Seq(N) /\ DOMAIN Firsts(l, N) = 1 .. Len(Firsts(l, N))
         /\ Len(Firsts(l, N)) \in Nat
         /\ \A n \in FirstOnes(l, N) : \E j \in 1 .. Len(Firsts(l, N)) : Firsts(l, N)[j] = n
<1> DEFINE S == FirstOnes(l, N)
<1>0. Len(l) \in Nat
  BY LenProperties
<1>1. S \in SUBSET (1 .. Len(l)) /\ S \in SUBSET N
  BY DEF FirstOnes
<1>2. Firsts(l, N) = InOrder(S)
  BY DEF Firsts, FirstOnes
<1> HIDE DEF S
<1>3. InOrder(S) \in Seq(S) /\ Len(InOrder(S)) = Cardinality(S)
  BY <1>0, <1>1, InOrderIs
<1>4. InOrder(S) \in Seq(N)
  BY <1>1, <1>3, SeqMonotonic
<1>5. \A n \in S : \E j \in 1 .. Cardinality(S) : InOrder(S)[j] = n
  BY <1>0, <1>1, InOrderGrows
<1>6. Len(InOrder(S)) \in Nat /\ DOMAIN InOrder(S) = 1 .. Len(InOrder(S))
  BY <1>3, LenProperties
<1> QED
  BY <1>1, <1>2, <1>3, <1>4, <1>5, <1>6 DEF S

\* Two of the first ones with the same key are one, and in one place.
LEMMA FirstsDiffer ==
  ASSUME NEW l \in Seq(Entry), NEW N \in SUBSET (1 .. Len(l)),
         NEW i \in 1 .. Len(Firsts(l, N)), NEW j \in 1 .. Len(Firsts(l, N)),
         l[Firsts(l, N)[i]].key = l[Firsts(l, N)[j]].key
  PROVE  i = j
<1> DEFINE S == FirstOnes(l, N)
<1>0. Len(l) \in Nat /\ S \in SUBSET (1 .. Len(l)) /\ Firsts(l, N) = InOrder(S)
  BY FirstsIs, LenProperties
<1>1. \A m, n \in S : m < n => l[m].key # l[n].key
  BY DEF FirstOnes
<1> HIDE DEF S
<1>2. InOrder(S) \in Seq(S) /\ Len(InOrder(S)) = Cardinality(S)
  BY <1>0, InOrderIs
<1>3. PICK m \in S : m = InOrder(S)[i] /\ Below(S, m) = i - 1
  BY <1>0, <1>2, InOrderIs, ElementOfSeq
<1>4. PICK n \in S : n = InOrder(S)[j] /\ Below(S, n) = j - 1
  BY <1>0, <1>2, InOrderIs, ElementOfSeq
<1>5. l[m].key = l[n].key
  BY <1>0, <1>3, <1>4
<1>6. m = n
  <2>1. m \in Nat /\ n \in Nat
    BY <1>0
  <2>2. ~(m < n) /\ ~(n < m)
    BY <1>1, <1>5
  <2> QED
    BY <2>1, <2>2
<1>7. i - 1 = j - 1 /\ i \in Int /\ j \in Int
  BY <1>3, <1>4, <1>6
<1> QED
  BY <1>7

\* Every key that is given is the key of a first one.
LEMMA FirstsAll ==
  ASSUME NEW l \in Seq(Entry), NEW N \in SUBSET (1 .. Len(l)), NEW k
  PROVE  Repeated(l, N, k) <=> \E j \in 1 .. Len(Firsts(l, N)) : l[Firsts(l, N)[j]].key = k
<1>1. ASSUME Repeated(l, N, k)
      PROVE  \E j \in 1 .. Len(Firsts(l, N)) : l[Firsts(l, N)[j]].key = k
  <2> DEFINE T == {n \in N : l[n].key = k}
  <2>1. T \in SUBSET Nat /\ T # {}
    <3>1. Len(l) \in Nat
      BY LenProperties
    <3>2. N \in SUBSET Nat
      BY <3>1
    <3>3. \E n \in N : l[n].key = k
      BY <1>1 DEF Repeated
    <3> QED
      BY <3>2, <3>3
  <2>2. PICK n \in T : \A m \in T : n <= m
    BY <2>1, LeastNatural
  <2>3. n \in FirstOnes(l, N)
    <3>1. ASSUME NEW m \in N, m < n PROVE l[m].key # l[n].key
      <4>1. m \in Nat /\ n \in Nat /\ ~(n <= m)
        BY <3>1
      <4>2. m \notin T
        <5> HIDE DEF T
        <5> QED
          BY <2>2, <4>1
      <4> QED
        BY <4>2
    <3> QED
      BY <3>1 DEF FirstOnes
  <2>4. PICK j \in 1 .. Len(Firsts(l, N)) : Firsts(l, N)[j] = n
    BY <2>3, FirstsIs
  <2> QED
    BY <2>4
<1>2. ASSUME NEW j \in 1 .. Len(Firsts(l, N)), l[Firsts(l, N)[j]].key = k
      PROVE  Repeated(l, N, k)
  <2>1. Firsts(l, N)[j] \in N
    BY FirstsIs, ElementOfSeq
  <2> QED
    BY <1>2, <2>1 DEF Repeated
<1> QED
  BY <1>1, <1>2

\* A further entry is a first one unless its key was there.
LEMMA FirstsGrow ==
  ASSUME NEW l \in Seq(Entry), NEW k \in Nat, k + 1 \in 1 .. Len(l), NEW N \in SUBSET (1 .. k)
  PROVE  Firsts(l, N \cup {k + 1}) = IF Repeated(l, N, l[k + 1].key) THEN Firsts(l, N)
                                     ELSE Append(Firsts(l, N), k + 1)
<1> DEFINE M == N \cup {k + 1}
           S == FirstOnes(l, N)
<1>0. Len(l) \in Nat /\ N \in SUBSET (1 .. Len(l)) /\ M \in SUBSET (1 .. Len(l))
  BY LenProperties
<1>1. Firsts(l, N) = InOrder(S) /\ Firsts(l, M) = InOrder(FirstOnes(l, M))
  BY <1>0, FirstsIs
<1>2. \A m \in N : m < k + 1 /\ ~(k + 1 < m) /\ m # k + 1
  OBVIOUS
<1>3. \A n \in N : n \in FirstOnes(l, M) <=> n \in S
  BY <1>2 DEF FirstOnes
<1>4. k + 1 \in FirstOnes(l, M) <=> ~Repeated(l, N, l[k + 1].key)
  <2>1. ~(k + 1 < k + 1)
    OBVIOUS
  <2> QED
    BY <1>2, <2>1 DEF FirstOnes, Repeated
<1>5. FirstOnes(l, M) \subseteq M /\ S \subseteq N
  BY DEF FirstOnes
<1>6. CASE Repeated(l, N, l[k + 1].key)
  <2>1. FirstOnes(l, M) = S
    BY <1>2, <1>3, <1>4, <1>5, <1>6
  <2> QED
    BY <1>1, <1>6, <2>1
<1>7. CASE ~Repeated(l, N, l[k + 1].key)
  <2>1. FirstOnes(l, M) = S \cup {k + 1}
    BY <1>2, <1>3, <1>4, <1>5, <1>7
  <2>2. S \in SUBSET (1 .. k)
    BY <1>5
  <2>3. InOrder(S \cup {k + 1}) = Append(InOrder(S), k + 1)
    BY <2>2, InOrderAppend
  <2> QED
    BY <1>1, <1>7, <2>1, <2>3
<1> QED
  BY <1>6, <1>7

\* The table of the first entries: which keys it has, and how it grows.
LEMMA FirstPerKeyIs ==
  ASSUME NEW l \in Seq(Entry), NEW N \in SUBSET (1 .. Len(l))
  PROVE  /\ DOMAIN FirstPerKey(l, N) = 1 .. Len(Firsts(l, N))
         /\ \A k : Has(FirstPerKey(l, N), k) <=> Repeated(l, N, k)
<1>1. DOMAIN Firsts(l, N) = 1 .. Len(Firsts(l, N))
  BY FirstsIs
<1>2. /\ DOMAIN FirstPerKey(l, N) = 1 .. Len(Firsts(l, N))
      /\ \A j \in 1 .. Len(Firsts(l, N)) : FirstPerKey(l, N)[j] = l[Firsts(l, N)[j]]
  BY <1>1 DEF FirstPerKey
<1> QED
  BY <1>2, FirstsAll DEF Has

LEMMA FirstPerKeyNone ==
  ASSUME NEW l
  PROVE  FirstPerKey(l, {}) = <<>>
<1>1. Firsts(l, {}) = <<>>
  BY InOrderEmpty DEF Firsts
<1> QED
  BY <1>1 DEF FirstPerKey

LEMMA FirstPerKeyGrows ==
  ASSUME NEW l \in Seq(Entry), NEW k \in Nat, k + 1 \in 1 .. Len(l), NEW N \in SUBSET (1 .. k)
  PROVE  FirstPerKey(l, N \cup {k + 1}) =
           IF Has(FirstPerKey(l, N), l[k + 1].key) THEN FirstPerKey(l, N)
           ELSE Append(FirstPerKey(l, N), l[k + 1])
<1> DEFINE F == Firsts(l, N)  M == N \cup {k + 1}  L == Len(F)
<1>0. Len(l) \in Nat /\ N \in SUBSET (1 .. Len(l))
  BY LenProperties
<1>1. Has(FirstPerKey(l, N), l[k + 1].key) <=> Repeated(l, N, l[k + 1].key)
  BY <1>0, FirstPerKeyIs
<1>2. L \in Nat /\ DOMAIN F = 1 .. L /\ F \in Seq(N)
  BY <1>0, FirstsIs
<1>3. Firsts(l, M) = IF Repeated(l, N, l[k + 1].key) THEN F ELSE Append(F, k + 1)
  BY FirstsGrow
<1>4. CASE Repeated(l, N, l[k + 1].key)
  BY <1>1, <1>3, <1>4 DEF FirstPerKey
<1>5. CASE ~Repeated(l, N, l[k + 1].key)
  <2>1. F \in Seq(Nat) /\ k + 1 \in Nat
    <3>1. N \subseteq Nat
      OBVIOUS
    <3>2. Seq(N) \subseteq Seq(Nat)
      BY <3>1, SeqMonotonic
    <3>3. k + 1 \in Nat
      OBVIOUS
    <3> QED
      BY <1>2, <3>2, <3>3, Zenon
  <2>2. /\ Append(F, k + 1) \in Seq(Nat) /\ Len(Append(F, k + 1)) = L + 1
        /\ \A j \in 1 .. L : Append(F, k + 1)[j] = F[j]
        /\ Append(F, k + 1)[L + 1] = k + 1
    BY <2>1, AppendProperties
  <2>3. Firsts(l, M) = Append(F, k + 1)
    BY <1>3, <1>5
  <2> DEFINE G == Append(F, k + 1)
  <2>4. DOMAIN G = 1 .. L + 1
    BY <2>2, LenProperties
  <2> HIDE DEF F, G, L
  <2>5. FirstPerKey(l, M) = [j \in 1 .. L + 1 |-> l[G[j]]]
    BY <2>3, <2>4 DEF FirstPerKey, G
  <2>6. FirstPerKey(l, N) = [j \in 1 .. L |-> l[F[j]]]
    BY <1>2 DEF FirstPerKey, F
  <2>7. Len(FirstPerKey(l, N)) = L
    BY <1>2, <2>6
  <2>8. Append(FirstPerKey(l, N), l[k + 1]) =
          [j \in 1 .. L + 1 |-> IF j <= L THEN l[F[j]] ELSE l[k + 1]]
    <3>1. Append(FirstPerKey(l, N), l[k + 1]) =
            [j \in 1 .. L + 1 |-> IF j <= L THEN FirstPerKey(l, N)[j] ELSE l[k + 1]]
      BY <1>2, <2>6, <2>7
    <3>2. \A j \in 1 .. L + 1 : j <= L => FirstPerKey(l, N)[j] = l[F[j]]
      BY <1>2, <2>6
    <3> QED
      BY <3>1, <3>2
  <2>9. \A j \in 1 .. L + 1 : l[G[j]] = IF j <= L THEN l[F[j]] ELSE l[k + 1]
    <3> TAKE j \in 1 .. L + 1
    <3>1. j <= L => j \in 1 .. L
      BY <1>2
    <3>2. ~(j <= L) => j = L + 1
      BY <1>2
    <3> QED
      BY <2>2, <3>1, <3>2 DEF G, F, L
  <2>10. FirstPerKey(l, M) = Append(FirstPerKey(l, N), l[k + 1])
    BY <2>5, <2>8, <2>9
  <2> QED
    BY <1>1, <1>5, <2>10
<1> QED
  BY <1>4, <1>5

\* The last entry of a key is the only one without another after it.
IsLast(l, N, k, n) == n \in N /\ l[n].key = k /\ \A m \in N : m > n => l[m].key # k

LEMMA LastOfIs ==
  ASSUME NEW l, NEW N \in SUBSET Nat, NEW n, NEW k, IsLast(l, N, k, n)
  PROVE  LastOf(l, N, k) = n
<1>1. LastOf(l, N, k) = CHOOSE x \in N : l[x].key = k /\ \A m \in N : m > x => l[m].key # k
  BY DEF LastOf
<1>2. IsLast(l, N, k, LastOf(l, N, k))
  BY <1>1 DEF IsLast
<1>3. ASSUME NEW x, IsLast(l, N, k, x) PROVE x = n
  <2>1. x \in N /\ n \in N /\ ~(x > n) /\ ~(n > x)
    BY <1>3 DEF IsLast
  <2>2. x \in Nat /\ n \in Nat
    BY <2>1
  <2> QED
    BY <2>1, <2>2
<1> QED
  BY <1>2, <1>3

\* There is one, for a key that is given.
LEMMA LastExists ==
  ASSUME NEW l, NEW b \in Nat, NEW k, Repeated(l, 1 .. b, k)
  PROVE  IsLast(l, 1 .. b, k, LastOf(l, 1 .. b, k))
<1> DEFINE T == {n \in 1 .. b : l[n].key = k}
<1>1. T \in SUBSET (0 .. b) /\ T # {}
  BY DEF Repeated
<1>2. PICK n \in T : \A m \in T : m <= n
  BY <1>1, GreatestNatural
<1>3. n \in 1 .. b /\ l[n].key = k
  OBVIOUS
<1>4. ASSUME NEW m \in 1 .. b, m > n PROVE l[m].key # k
  <2>1. ~(m <= n)
    BY <1>3, <1>4
  <2>2. m \notin T
    <3> HIDE DEF T
    <3> QED
      BY <1>2, <2>1
  <2> QED
    BY <2>2
<1>5. IsLast(l, 1 .. b, k, n)
  BY <1>3, <1>4 DEF IsLast
<1>6. 1 .. b \in SUBSET Nat
  OBVIOUS
<1> QED
  BY <1>5, <1>6, LastOfIs

\* A further entry is the last one of its key, and of no other.
LEMMA LastOfGrows ==
  ASSUME NEW l, NEW b \in Nat, NEW k
  PROVE  /\ k = l[b + 1].key => LastOf(l, 1 .. b + 1, k) = b + 1
         /\ k # l[b + 1].key /\ Repeated(l, 1 .. b, k) =>
              LastOf(l, 1 .. b + 1, k) = LastOf(l, 1 .. b, k)
<1>0. 1 .. b + 1 \in SUBSET Nat /\ b + 1 \in 1 .. b + 1
  OBVIOUS
<1>1. ASSUME k = l[b + 1].key PROVE LastOf(l, 1 .. b + 1, k) = b + 1
  <2>1. \A m \in 1 .. b + 1 : ~(m > b + 1)
    OBVIOUS
  <2>2. IsLast(l, 1 .. b + 1, k, b + 1)
    BY <1>0, <1>1, <2>1 DEF IsLast
  <2> QED
    BY <1>0, <2>2, LastOfIs
<1>2. ASSUME k # l[b + 1].key, Repeated(l, 1 .. b, k)
      PROVE  LastOf(l, 1 .. b + 1, k) = LastOf(l, 1 .. b, k)
  <2>1. PICK n : n = LastOf(l, 1 .. b, k) /\ IsLast(l, 1 .. b, k, n)
    BY <1>2, LastExists
  <2>2. n \in 1 .. b + 1 /\ l[n].key = k
    BY <2>1 DEF IsLast
  <2>3. ASSUME NEW m \in 1 .. b + 1, m > n PROVE l[m].key # k
    <3>1. m \in 1 .. b \/ m = b + 1
      OBVIOUS
    <3> QED
      BY <1>2, <2>1, <2>3, <3>1 DEF IsLast
  <2>4. IsLast(l, 1 .. b + 1, k, n)
    BY <2>2, <2>3 DEF IsLast
  <2> QED
    BY <1>0, <2>1, <2>4, LastOfIs
<1> QED
  BY <1>1, <1>2

LEMMA LastPerKeyIs ==
  ASSUME NEW l \in Seq(Entry), NEW N \in SUBSET (1 .. Len(l))
  PROVE  /\ LastPerKey(l, N) = [j \in 1 .. Len(Firsts(l, N)) |->
                                  Pair(l[Firsts(l, N)[j]].key,
                                       l[LastOf(l, N, l[Firsts(l, N)[j]].key)].value)]
         /\ \A k : Has(LastPerKey(l, N), k) <=> Repeated(l, N, k)
<1>1. DOMAIN Firsts(l, N) = 1 .. Len(Firsts(l, N))
  BY FirstsIs
<1>2. LastPerKey(l, N) = [j \in 1 .. Len(Firsts(l, N)) |->
                            Pair(l[Firsts(l, N)[j]].key,
                                 l[LastOf(l, N, l[Firsts(l, N)[j]].key)].value)]
  BY <1>1 DEF LastPerKey
<1>3. \A j \in 1 .. Len(Firsts(l, N)) : LastPerKey(l, N)[j].key = l[Firsts(l, N)[j]].key
  BY <1>2 DEF Pair
<1>4. DOMAIN LastPerKey(l, N) = 1 .. Len(Firsts(l, N))
  BY <1>2
<1>5. ASSUME NEW k PROVE Has(LastPerKey(l, N), k) <=> Repeated(l, N, k)
  <2>1. Has(LastPerKey(l, N), k) <=> \E j \in 1 .. Len(Firsts(l, N)) : l[Firsts(l, N)[j]].key = k
    BY <1>3, <1>4 DEF Has
  <2> QED
    BY <2>1, FirstsAll
<1> QED
  BY <1>2, <1>5

LEMMA LastPerKeyNone ==
  ASSUME NEW l
  PROVE  LastPerKey(l, {}) = <<>>
<1>1. Firsts(l, {}) = <<>>
  BY InOrderEmpty DEF Firsts
<1> QED
  BY <1>1 DEF LastPerKey

\* The table of the last values: a further entry of a key that is there changes its
\* value in its place, one of another key is added.
LEMMA LastPerKeyGrows ==
  ASSUME NEW l \in Seq(Entry), NEW b \in Nat, b + 1 \in 1 .. Len(l),
         LastPerKey(l, 1 .. b) \in Seq(Entry)
  PROVE  LET T == LastPerKey(l, 1 .. b)
             k == l[b + 1].key
             v == l[b + 1].value
         IN  LastPerKey(l, 1 .. b + 1) = IF Has(T, k) THEN [T EXCEPT ![Place(T, k)].value = v]
                                         ELSE Append(T, Pair(k, v))
<1> DEFINE T == LastPerKey(l, 1 .. b)
           F == Firsts(l, 1 .. b)
           L == Len(F)
           k == l[b + 1].key
           v == l[b + 1].value
           G == Firsts(l, 1 .. b + 1)
<1>0. /\ 1 .. b \in SUBSET (1 .. Len(l)) /\ 1 .. b + 1 \in SUBSET (1 .. Len(l))
      /\ (1 .. b) \cup {b + 1} = 1 .. b + 1
  <2>1. Len(l) \in Nat
    BY LenProperties
  <2> QED
    BY <2>1
<1>1. /\ T = [j \in 1 .. L |-> Pair(l[F[j]].key, l[LastOf(l, 1 .. b, l[F[j]].key)].value)]
      /\ Has(T, k) <=> Repeated(l, 1 .. b, k)
  BY <1>0, LastPerKeyIs
<1>2. LastPerKey(l, 1 .. b + 1) =
        [j \in 1 .. Len(G) |-> Pair(l[G[j]].key, l[LastOf(l, 1 .. b + 1, l[G[j]].key)].value)]
  BY <1>0, LastPerKeyIs
<1>3. G = IF Repeated(l, 1 .. b, k) THEN F ELSE Append(F, b + 1)
  <2>1. Firsts(l, (1 .. b) \cup {b + 1}) = IF Repeated(l, 1 .. b, k) THEN F ELSE Append(F, b + 1)
    BY FirstsGrow
  <2> QED
    BY <1>0, <2>1
<1>4. L \in Nat /\ F \in Seq(1 .. b) /\ \A j \in 1 .. L : Repeated(l, 1 .. b, l[F[j]].key)
  <2>1. L \in Nat /\ F \in Seq(1 .. b)
    BY <1>0, FirstsIs
  <2>2. \A j \in 1 .. L : F[j] \in 1 .. b
    BY <2>1, ElementOfSeq
  <2> QED
    BY <2>1, <2>2 DEF Repeated
<1>5. \A i, j \in 1 .. L : l[F[i]].key = l[F[j]].key => i = j
  BY <1>0, FirstsDiffer
<1>6. \A x : /\ x = k => LastOf(l, 1 .. b + 1, x) = b + 1
             /\ x # k /\ Repeated(l, 1 .. b, x) => LastOf(l, 1 .. b + 1, x) = LastOf(l, 1 .. b, x)
  BY LastOfGrows
<1>7. Len(T) = L /\ DOMAIN T = 1 .. L
  BY <1>1, <1>4
<1>8. \A j \in 1 .. L : T[j].key = l[F[j]].key /\ T[j].value = l[LastOf(l, 1 .. b, l[F[j]].key)].value
  BY <1>1 DEF Pair
<1>9. CASE Repeated(l, 1 .. b, k)
  <2>1. PICK p \in 1 .. L : p = Place(T, k) /\ T[p].key = k
    BY <1>1, <1>7, <1>9, PlaceIs
  <2>2. G = F
    BY <1>3, <1>9
  <2>3. ASSUME NEW j \in 1 .. L
        PROVE  Pair(l[F[j]].key, l[LastOf(l, 1 .. b + 1, l[F[j]].key)].value)
                 = [T EXCEPT ![p].value = v][j]
    <3>1. CASE j = p
      <4>1. l[F[j]].key = k
        BY <1>8, <2>1, <3>1
      <4>2. Pair(l[F[j]].key, l[LastOf(l, 1 .. b + 1, l[F[j]].key)].value) = Pair(k, v)
        BY <1>6, <4>1
      <4>3. T[p] = Pair(k, T[p].value)
        BY <1>1, <2>1 DEF Pair
      <4>4. [T EXCEPT ![p].value = v][p] = [T[p] EXCEPT !.value = v]
        BY <1>7
      <4>5. [T[p] EXCEPT !.value = v] = Pair(k, v)
        <5>1. \A x : [Pair(k, x) EXCEPT !.value = v] = Pair(k, v)
          BY DEF Pair
        <5> QED
          BY <4>3, <5>1, Zenon
      <4> QED
        BY <3>1, <4>2, <4>4, <4>5
    <3>2. CASE j # p
      <4>1. l[F[j]].key # k
        BY <1>5, <1>8, <2>1, <3>2, SMTT(30)
      <4>2. LastOf(l, 1 .. b + 1, l[F[j]].key) = LastOf(l, 1 .. b, l[F[j]].key)
        BY <1>4, <1>6, <4>1
      <4>3. [T EXCEPT ![p].value = v][j] = T[j]
        BY <1>7, <3>2
      <4> QED
        BY <1>1, <4>2, <4>3
    <3> QED
      BY <3>1, <3>2
  <2>4. [T EXCEPT ![p].value = v] = [j \in 1 .. L |-> [T EXCEPT ![p].value = v][j]]
    BY <1>7
  <2>5. LastPerKey(l, 1 .. b + 1) = [T EXCEPT ![p].value = v]
    BY <1>2, <2>2, <2>3, <2>4, ZenonT(40)
  <2> QED
    BY <1>1, <1>9, <2>1, <2>5
<1>10. CASE ~Repeated(l, 1 .. b, k)
  <2>1. G = Append(F, b + 1)
    BY <1>3, <1>10
  <2>2. /\ Len(G) = L + 1 /\ \A j \in 1 .. L : G[j] = F[j]
        /\ G[L + 1] = b + 1
    <3>1. F \in Seq(Nat) /\ b + 1 \in Nat
      <4>1. 1 .. b \subseteq Nat
        OBVIOUS
      <4>2. Seq(1 .. b) \subseteq Seq(Nat)
        BY <4>1, SeqMonotonic
      <4> QED
        BY <1>4, <4>2
    <3>2. /\ Len(Append(F, b + 1)) = Len(F) + 1
          /\ \A j \in 1 .. Len(F) : Append(F, b + 1)[j] = F[j]
          /\ Append(F, b + 1)[Len(F) + 1] = b + 1
      BY <3>1, AppendProperties
    <3> QED
      BY <2>1, <3>2, Zenon
  <2>3. Append(T, Pair(k, v)) = [j \in 1 .. L + 1 |-> IF j <= L THEN T[j] ELSE Pair(k, v)]
    <3>1. Append(T, Pair(k, v)) = [j \in 1 .. Len(T) + 1 |-> IF j <= Len(T) THEN T[j] ELSE Pair(k, v)]
      <4>1. l[b + 1] \in Entry
        BY ElementOfSeq
      <4>2. PICK e \in Entry : e = Pair(k, v)
        BY <4>1 DEF Pair, Entry
      <4>3. T \in Seq(Entry)
        OBVIOUS
      <4> HIDE DEF T, L, k, v
      <4>4. Append(T, e) = [j \in 1 .. Len(T) + 1 |-> IF j <= Len(T) THEN T[j] ELSE e]
        BY <4>3, AppendIs
      <4> QED
        BY <4>2, <4>4, Zenon
    <3> QED
      BY <1>7, <3>1, Zenon
  <2>4. ASSUME NEW j \in 1 .. L + 1
        PROVE  Pair(l[G[j]].key, l[LastOf(l, 1 .. b + 1, l[G[j]].key)].value)
                 = IF j <= L THEN T[j] ELSE Pair(k, v)
    <3>1. CASE j <= L
      <4>1. j \in 1 .. L
        BY <1>4, <3>1
      <4>2. Repeated(l, 1 .. b, l[F[j]].key) /\ l[F[j]].key # k
        BY <1>4, <1>10, <4>1
      <4>3. LastOf(l, 1 .. b + 1, l[F[j]].key) = LastOf(l, 1 .. b, l[F[j]].key)
        BY <1>6, <4>2
      <4> QED
        BY <1>1, <2>2, <3>1, <4>1, <4>3
    <3>2. CASE ~(j <= L)
      <4>1. j = L + 1
        BY <1>4, <3>2
      <4> QED
        BY <1>6, <2>2, <3>2, <4>1
    <3> QED
      BY <3>1, <3>2
  <2>5. LastPerKey(l, 1 .. b + 1) = Append(T, Pair(k, v))
    BY <1>2, <2>2, <2>3, <2>4
  <2> QED
    BY <1>1, <1>10, <2>5
<1> QED
  BY <1>9, <1>10

--------------------------------------------------------------------------------
(***************************************************************************)
(* The heap: what is allocated is the table of the url, the table of the   *)
(* text and the copy of the parser that runs.  A url's table has room as   *)
(* soon as it has an entry, so that freeing it by its length frees it all. *)
(***************************************************************************)
ListBlocks == IF source = "url" THEN Blocks(Len(list), Len(list)) ELSE 0

TableInv ==
  /\ pc \in {"url", "url_table"} => source = "url"
  /\ pc \in {"url", "url_table", "encode", "query"} => found = <<>>
  /\ pc = "url" => list = <<>> /\ live = 0
  /\ pc = "url_table" => /\ cap = 0 <=> Len(list) = 0
                         /\ Len(list) <= cap
                         /\ live = Blocks(Len(list), cap) + 1
  /\ pc \in {"encode", "query"} => live = ListBlocks
  /\ pc = "query_table" => /\ cap > 0 /\ Len(found) <= cap
                           /\ live = ListBlocks + Blocks(Len(found), cap) + 1
  /\ pc = "read" => live = ListBlocks + Blocks(Len(found), cap)
  /\ pc = "done" => live = 0

LEMMA BlocksIs ==
  /\ \A n, room \in Nat : Blocks(n, room) \in Nat
  /\ Blocks(0, 0) = 0
  /\ \A n, room \in Nat : (room = 0 <=> n = 0) => Blocks(n, room) = Blocks(n, n)
BY DEF Blocks

\* One entry more, with the room it needs.
LEMMA EntryAdded ==
  ASSUME NEW l \in Seq(Entry), NEW e \in Entry
  PROVE  Append(l, e) \in Seq(Entry) /\ Len(Append(l, e)) = Len(l) + 1
BY AppendProperties

THEOREM TablesInductive == Spec => [](Typed /\ TableInv)
<1>1. Init => Typed /\ TableInv
  <2> SUFFICES ASSUME Init PROVE Typed /\ TableInv
    OBVIOUS
  <2>0. <<>> \in Seq(Text \ {<<>>}) /\ <<>> \in Seq(Entry) /\ <<>> \in Text
    BY EmptySeq DEF Text
  <2>1. ASSUME NEW u \in UrlTexts, Start("url", u, <<>>, <<>>) PROVE Typed /\ TableInv
    <3>1. u \in Text
      BY InputAssumption
    <3> QED
      BY <2>0, <2>1, <3>1 DEF Start, Typed, TableInv
  <2>2. ASSUME NEW l \in CallerLists, Start("list", <<>>, l, <<>>) PROVE Typed /\ TableInv
    <3>1. l \in Seq(Entry)
      BY InputAssumption
    <3> QED
      BY <2>0, <2>2, <3>1 DEF Start, Typed, TableInv, ListBlocks
  <2>3. ASSUME NEW t \in QueryTexts, Start("text", <<>>, <<>>, t) PROVE Typed /\ TableInv
    <3>1. t \in Text
      BY InputAssumption
    <3> QED
      BY <2>0, <2>3, <3>1 DEF Start, Typed, TableInv, ListBlocks
  <2> QED
    BY <2>1, <2>2, <2>3 DEF Init
<1>2. Typed /\ TableInv /\ [Next]_vars => Typed' /\ TableInv'
  <2> SUFFICES ASSUME Typed, TableInv, [Next]_vars PROVE Typed' /\ TableInv'
    OBVIOUS
  <2>0. /\ Len(list) \in Nat /\ Len(found) \in Nat /\ cap \in Nat
        /\ TableCap \in Nat \ {0} /\ Len(<<>>) = 0
    BY LenProperties, InputAssumption DEF Typed
  <2>1. CASE OpenUrl
    <3>1. QueryOf(url) \in Text /\ Tokens(QueryOf(url)) \in Seq(Text \ {<<>>})
      BY QueryOfText, TokensText DEF Typed
    <3>2. CASE QueryOf(url) = <<>>
      BY <2>0, <2>1, <3>2, BlocksIs DEF OpenUrl, Typed, TableInv, ListBlocks
    <3>3. CASE QueryOf(url) # <<>>
      BY <2>0, <2>1, <3>1, <3>3, BlocksIs DEF OpenUrl, Typed, TableInv
    <3> QED
      BY <3>2, <3>3
  <2>2. CASE UrlUpdate
    <3>1. Head(tokens) \in Text /\ Tail(tokens) \in Seq(Text \ {<<>>})
      BY <2>2, TokenTaken DEF UrlUpdate
    <3> DEFINE t == Head(tokens)  p == Place(list, KeyOf(t))
    <3>2. /\ KeyOf(t) \in Text /\ ValueOf(t) \in Text /\ Has(list, KeyOf(t))
          /\ list' = [list EXCEPT ![p].value = ValueOf(t)]
      BY <2>2, <3>1, KeyValueEntry DEF UrlUpdate
    <3> HIDE DEF t, p
    <3>3. list' \in Seq(Entry) /\ Len(list') = Len(list)
      <4>1. list \in [1 .. Len(list) -> Entry]
        BY LenProperties DEF Typed
      <4>2. \A n \in 1 .. Len(list) : [list[n] EXCEPT !.value = ValueOf(t)] \in Entry
        BY <3>2, <4>1 DEF Entry
      <4>3. list' \in [1 .. Len(list) -> Entry]
        BY <3>2, <4>1, <4>2
      <4> QED
        BY <2>0, <4>3
    <3>4. /\ pc = "url_table" /\ tokens' = Tail(tokens)
          /\ UNCHANGED <<source, url, text, pc, found, cap, live>>
      BY <2>2 DEF UrlUpdate, NextToken
    <3> QED
      BY <2>0, <3>1, <3>3, <3>4 DEF Typed, TableInv
  <2>3. CASE UrlAppend
    <3>1. Head(tokens) \in Text /\ Tail(tokens) \in Seq(Text \ {<<>>})
      BY <2>3, TokenTaken DEF UrlAppend
    <3>2. PICK e \in Entry : e = Pair(KeyOf(Head(tokens)), ValueOf(Head(tokens)))
      BY <3>1, KeyValueEntry
    <3>3. /\ list' = Append(list, e) /\ pc = "url_table" /\ tokens' = Tail(tokens)
          /\ cap' = IF cap = 0 THEN TableCap ELSE Room(Len(list), cap)
          /\ live' = live + Blocks(Len(list'), cap') - Blocks(Len(list), cap)
          /\ UNCHANGED <<source, url, text, pc, found>>
      BY <2>3, <3>2 DEF UrlAppend, NextToken
    <3>4. list' \in Seq(Entry) /\ Len(list') = Len(list) + 1
      BY <3>3, EntryAdded DEF Typed
    <3>5. /\ cap = 0 <=> Len(list) = 0
          /\ Len(list) <= cap /\ live = Blocks(Len(list), cap) + 1
      BY <3>3 DEF TableInv
    <3>6. cap' \in Nat /\ cap' > 0 /\ Len(list') <= cap'
      <4>1. CASE cap = 0
        BY <2>0, <3>3, <3>4, <3>5, <4>1
      <4>2. CASE cap # 0
        <5>1. cap' = Room(Len(list), cap)
          BY <3>3, <4>2
        <5>2. Room(Len(list), cap) \in Nat /\ Len(list) + 1 <= Room(Len(list), cap) /\ Room(Len(list), cap) > 0
          BY <2>0, <3>5, <4>2, RoomIs
        <5> QED
          BY <3>4, <5>1, <5>2
      <4> QED
        BY <4>1, <4>2
    <3>7. live' = Blocks(Len(list'), cap') + 1
      <4>1. Blocks(Len(list'), cap') \in Nat /\ Blocks(Len(list), cap) \in Nat
        <5>1. Len(list') \in Nat /\ cap' \in Nat
          BY <2>0, <3>4, <3>6
        <5> QED
          BY <2>0, <5>1, BlocksIs, Zenon
      <4> QED
        BY <3>3, <3>5, <4>1
    <3>8. Typed'
      BY <3>1, <3>3, <3>4, <3>6 DEF Typed
    <3> QED
      BY <2>0, <3>3, <3>4, <3>6, <3>7, <3>8 DEF TableInv
  <2>4. CASE UrlReturn
    <3>1. /\ pc = "url_table" /\ pc' = "encode" /\ live' = live - 1
          /\ UNCHANGED <<source, url, text, tokens, list, found, cap>>
      BY <2>4 DEF UrlReturn
    <3>2. source = "url" /\ live = Blocks(Len(list), cap) + 1 /\ (cap = 0 <=> Len(list) = 0)
      BY <3>1 DEF TableInv
    <3>3. Blocks(Len(list), cap) = Blocks(Len(list), Len(list)) /\ Blocks(Len(list), cap) \in Nat
      BY <2>0, <3>2, BlocksIs
    <3>4. live' = ListBlocks'
      BY <3>1, <3>2, <3>3 DEF ListBlocks
    <3> QED
      BY <3>1, <3>4 DEF Typed, TableInv
  <2>5. CASE Encode
    <3>1. /\ pc = "encode" /\ pc' = "query" /\ text' = EncodedText(list)
          /\ UNCHANGED <<source, url, tokens, list, found, cap, live>>
      BY <2>5 DEF Encode, EncodedText
    <3>2. text' \in Text
      BY <3>1, EncodedTextIs DEF Typed
    <3>3. ListBlocks' = ListBlocks
      BY <3>1 DEF ListBlocks
    <3> QED
      BY <3>1, <3>2, <3>3 DEF Typed, TableInv
  <2>6. CASE OpenQuery
    <3>1. ListBlocks' = ListBlocks /\ ListBlocks \in Nat
      BY <2>0, <2>6, BlocksIs DEF OpenQuery, ListBlocks
    <3>2. Tokens(text) \in Seq(Text \ {<<>>})
      BY TokensText DEF Typed
    <3>3. pc = "query" /\ found = <<>> /\ live = ListBlocks
      BY <2>6 DEF OpenQuery, TableInv
    <3>4. CASE text = <<>>
      BY <2>0, <2>6, <3>1, <3>3, <3>4, BlocksIs DEF OpenQuery, Typed, TableInv
    <3>5. CASE text # <<>>
      <4>1. Blocks(0, TableCap) \in Nat
        BY <2>0, BlocksIs
      <4>2. /\ pc' = "query_table" /\ cap' = TableCap /\ tokens' = Tokens(text)
            /\ live' = live + Blocks(0, TableCap) + 1 /\ found' = found
            /\ UNCHANGED <<source, url, text, list>>
        BY <2>6, <3>5 DEF OpenQuery
      <4>3. Typed'
        BY <2>0, <3>2, <4>2 DEF Typed
      <4> QED
        BY <2>0, <3>1, <3>3, <4>1, <4>2, <4>3 DEF TableInv
    <3> QED
      BY <3>4, <3>5
  <2>7. CASE QuerySkip
    <3>1. Tail(tokens) \in Seq(Text \ {<<>>})
      BY <2>7, TokenTaken DEF QuerySkip
    <3>2. /\ pc = "query_table" /\ tokens' = Tail(tokens)
          /\ UNCHANGED <<source, url, text, pc, list, found, cap, live>>
      BY <2>7 DEF QuerySkip, NextToken
    <3> QED
      BY <3>1, <3>2 DEF Typed, TableInv, ListBlocks
  <2>8. CASE QueryDuplicate
    <3>1. Tail(tokens) \in Seq(Text \ {<<>>})
      BY <2>8, TokenTaken DEF QueryDuplicate
    <3>2. /\ pc = "query_table" /\ tokens' = Tail(tokens) /\ live' = live + 0
          /\ UNCHANGED <<source, url, text, pc, list, found, cap>>
      BY <2>8 DEF QueryDuplicate, NextToken, LeftByDuplicate
    <3>3. ListBlocks' = ListBlocks /\ ListBlocks \in Nat /\ Blocks(Len(found), cap) \in Nat
      BY <2>0, <3>2, BlocksIs DEF ListBlocks
    <3>4. live = ListBlocks + Blocks(Len(found), cap) + 1
      BY <3>2 DEF TableInv
    <3>5. live' = live
      BY <3>2, <3>3, <3>4
    <3> QED
      BY <3>1, <3>2, <3>3, <3>5 DEF Typed, TableInv
  <2>9. CASE QueryAppend
    <3>1. Head(tokens) \in Text /\ Tail(tokens) \in Seq(Text \ {<<>>})
      BY <2>9, TokenTaken DEF QueryAppend
    <3>2. PICK e \in Entry : e = Pair(DecodedKey(Head(tokens)), DecodedValue(Head(tokens)))
      BY <3>1, KeyValueEntry
    <3>3. /\ found' = Append(found, e) /\ pc = "query_table" /\ tokens' = Tail(tokens)
          /\ cap' = Room(Len(found), cap)
          /\ live' = live + Blocks(Len(found'), cap') - Blocks(Len(found), cap)
          /\ UNCHANGED <<source, url, text, pc, list>>
      BY <2>9, <3>2 DEF QueryAppend, NextToken
    <3>4. found' \in Seq(Entry) /\ Len(found') = Len(found) + 1
      BY <3>3, EntryAdded DEF Typed
    <3>5. /\ cap > 0 /\ Len(found) <= cap
          /\ live = ListBlocks + Blocks(Len(found), cap) + 1
      BY <3>3 DEF TableInv
    <3>6. cap' \in Nat /\ cap' > 0 /\ Len(found') <= cap'
      <4>1. Room(Len(found), cap) \in Nat /\ Len(found) + 1 <= Room(Len(found), cap) /\ Room(Len(found), cap) > 0
        BY <2>0, <3>5, RoomIs
      <4> QED
        BY <3>3, <3>4, <4>1
    <3>7. ListBlocks' = ListBlocks /\ ListBlocks \in Nat
      BY <2>0, <3>3, BlocksIs DEF ListBlocks
    <3>8. live' = ListBlocks + Blocks(Len(found'), cap') + 1
      <4>1. Blocks(Len(found'), cap') \in Nat /\ Blocks(Len(found), cap) \in Nat
        <5>1. Len(found') \in Nat /\ cap' \in Nat
          BY <2>0, <3>4, <3>6
        <5> QED
          BY <2>0, <5>1, BlocksIs, Zenon
      <4> QED
        BY <3>3, <3>5, <3>7, <4>1
    <3>9. Typed'
      BY <3>1, <3>3, <3>4, <3>6 DEF Typed
    <3> QED
      BY <3>3, <3>6, <3>7, <3>8, <3>9 DEF TableInv
  <2>10. CASE QueryReturn
    <3>1. /\ pc = "query_table" /\ pc' = "read" /\ live' = live - 1
          /\ UNCHANGED <<source, url, text, tokens, list, found, cap>>
      BY <2>10 DEF QueryReturn
    <3>2. ListBlocks' = ListBlocks /\ ListBlocks \in Nat /\ Blocks(Len(found), cap) \in Nat
      BY <2>0, <3>1, BlocksIs DEF ListBlocks
    <3>3. live = ListBlocks + Blocks(Len(found), cap) + 1
      BY <3>1 DEF TableInv
    <3>4. live' = ListBlocks + Blocks(Len(found), cap)
      BY <3>1, <3>2, <3>3
    <3> QED
      BY <3>1, <3>2, <3>4 DEF Typed, TableInv
  <2>11. CASE Free
    <3>1. /\ pc = "read" /\ pc' = "done"
          /\ live' = (live - Blocks(Len(found), cap)) - ListBlocks
          /\ UNCHANGED <<source, url, text, tokens, list, found, cap>>
      BY <2>11 DEF Free, ListBlocks
    <3>2. ListBlocks \in Nat /\ Blocks(Len(found), cap) \in Nat
      BY <2>0, <3>1, BlocksIs DEF ListBlocks
    <3>3. live = ListBlocks + Blocks(Len(found), cap)
      BY <3>1 DEF TableInv
    <3>4. live' = 0
      BY <3>1, <3>2, <3>3
    <3> QED
      BY <3>1, <3>4 DEF Typed, TableInv
  <2>12. CASE UNCHANGED vars
    BY <2>12 DEF vars, Typed, TableInv, ListBlocks
  <2> QED
    BY <2>1, <2>2, <2>3, <2>4, <2>5, <2>6, <2>7, <2>8, <2>9, <2>10, <2>11, <2>12 DEF Next
<1> QED
  BY <1>1, <1>2, PTL DEF Spec

\* The parsers keep the types of their tables, and never free more than there is.
THEOREM TablesTyped == Spec => []TypeOK
<1>1. Typed /\ TableInv => TypeOK
  <2> SUFFICES ASSUME Typed, TableInv PROVE TypeOK
    OBVIOUS
  <2>1. Len(list) \in Nat /\ Len(found) \in Nat /\ cap \in Nat
    BY LenProperties DEF Typed
  <2>2. Blocks(Len(list), cap) \in Nat /\ Blocks(Len(found), cap) \in Nat /\ ListBlocks \in Nat
    BY <2>1, BlocksIs DEF ListBlocks
  <2>3. live \in Nat
    BY <2>2 DEF Typed, TableInv
  <2> QED
    BY <2>3 DEF Typed, TypeOK
<1> QED
  BY <1>1, TablesInductive, PTL

\* No entry is written past the end of its table, for every first size.
THEOREM TablesStoreInside == Spec => []StoresInside
<1>1. Typed /\ TableInv => StoresInside
  BY DEF Typed, TableInv, StoresInside
<1> QED
  BY <1>1, TablesInductive, PTL

\* What the tables, their strings and the parsers took from the heap is given back.
THEOREM TablesFreed == Spec => []AllFreed
<1>1. TableInv => AllFreed
  BY DEF TableInv, AllFreed
<1> QED
  BY <1>1, TablesInductive, PTL

--------------------------------------------------------------------------------
(***************************************************************************)
(* What the tables hold: of the tokens that strtok_r has returned, the     *)
(* last value of each key, or the first that counts; and of a list that    *)
(* was encoded, the text has the pairs.                                    *)
(***************************************************************************)
Rest(T, k) == SubSeq(T, k + 1, Len(T))

UrlInv ==
  /\ pc = "url_table" =>
       \E k \in 0 .. Len(Tokens(QueryOf(url))) :
         /\ tokens = Rest(Tokens(QueryOf(url)), k)
         /\ list = LastPerKey(UrlPairs(QueryOf(url)), 1 .. k)
  /\ source = "url" /\ pc \notin {"url", "url_table"} =>
       list = LastPerKey(UrlPairs(QueryOf(url)), DOMAIN UrlPairs(QueryOf(url)))

EncodedInv ==
  source # "text" /\ pc \in {"query", "query_table", "read", "done"} =>
    /\ QueryPairs(text) = list
    /\ Counting(text) = {n \in DOMAIN list : list[n].value # <<>>}

QueryInv ==
  /\ pc = "query_table" =>
       \E k \in 0 .. Len(Tokens(text)) :
         /\ tokens = Rest(Tokens(text), k)
         /\ found = FirstPerKey(QueryPairs(text), Counting(text) \cap (1 .. k))
  /\ pc \in {"read", "done"} => found = FirstPerKey(QueryPairs(text), Counting(text))

ContentInv == UrlInv /\ EncodedInv /\ QueryInv

\* The next token, and that there is one.
LEMMA RestIs ==
  ASSUME NEW S, NEW T \in Seq(S), NEW k \in 0 .. Len(T)
  PROVE  /\ Rest(T, k) = <<>> => k = Len(T)
         /\ Rest(T, k) # <<>> => /\ k + 1 \in 1 .. Len(T) /\ k + 1 \in 0 .. Len(T)
                                 /\ Head(Rest(T, k)) = T[k + 1]
                                 /\ Tail(Rest(T, k)) = Rest(T, k + 1)
<1>0. Len(T) \in Nat /\ k \in Nat
  BY LenProperties
<1>1. CASE k = Len(T)
  <2>1. Rest(T, k) = <<>>
    BY <1>0, <1>1, SubSeqEmpty DEF Rest
  <2> QED
    BY <1>1, <2>1
<1>2. CASE k # Len(T)
  <2>1. k + 1 \in 1 .. Len(T) /\ k + 1 \in 0 .. Len(T) /\ Len(T) \in k + 1 .. Len(T)
    BY <1>0, <1>2
  <2>2. /\ Head(SubSeq(T, k + 1, Len(T))) = T[k + 1]
        /\ Tail(SubSeq(T, k + 1, Len(T))) = SubSeq(T, (k + 1) + 1, Len(T))
    BY <2>1, HeadTailOfSubSeq
  <2>3. Rest(T, k) # <<>>
    <3>1. \A m \in k + 1 .. Len(T) : T[m] \in S
      <4> TAKE m \in k + 1 .. Len(T)
      <4>1. m \in 1 .. Len(T)
        BY <1>0
      <4> QED
        BY <4>1, ElementOfSeq
    <3>2. k + 1 \in Int /\ Len(T) \in Int /\ k + 1 <= Len(T) /\ Len(T) - (k + 1) + 1 # 0
      BY <1>0, <2>1
    <3>3. Len(SubSeq(T, k + 1, Len(T))) = Len(T) - (k + 1) + 1
      BY <3>1, <3>2, SubSeqProperties
    <3>4. Len(<<>>) = 0
      OBVIOUS
    <3> QED
      BY <3>2, <3>3, <3>4, Zenon DEF Rest
  <2> QED
    BY <2>1, <2>2, <2>3, Zenon DEF Rest
<1> QED
  BY <1>1, <1>2

LEMMA NoTokens == Tokens(<<>>) = <<>>
BY EmptyText, JoinStarts, JoinTakenApart DEF Text

LEMMA PairsAre ==
  ASSUME NEW s \in Text
  PROVE  LET T == Tokens(s)
         IN  /\ T \in Seq(Text \ {<<>>}) /\ Len(T) \in Nat
             /\ UrlPairs(s) \in Seq(Entry) /\ Len(UrlPairs(s)) = Len(T)
             /\ DOMAIN UrlPairs(s) = 1 .. Len(T)
             /\ \A n \in 1 .. Len(T) : UrlPairs(s)[n] = Pair(KeyOf(T[n]), ValueOf(T[n]))
             /\ QueryPairs(s) \in Seq(Entry) /\ Len(QueryPairs(s)) = Len(T)
             /\ \A n \in 1 .. Len(T) : QueryPairs(s)[n] = Pair(DecodedKey(T[n]), DecodedValue(T[n]))
             /\ Counting(s) \in SUBSET (1 .. Len(T))
             /\ \A n \in 1 .. Len(T) : n \in Counting(s) <=> ~Skipped(T[n])
<1> DEFINE T == Tokens(s)
           N == Len(T)
           e(n) == Pair(KeyOf(T[n]), ValueOf(T[n]))
           d(n) == Pair(DecodedKey(T[n]), DecodedValue(T[n]))
<1>1. T \in Seq(Text \ {<<>>}) /\ N \in Nat /\ DOMAIN T = 1 .. N
  BY TokensText, LenProperties
<1>2. \A n \in 1 .. N : e(n) \in Entry /\ d(n) \in Entry
  <2> TAKE n \in 1 .. N
  <2>1. T[n] \in Text
    BY <1>1, ElementOfSeq
  <2> QED
    BY <2>1, KeyValueEntry
<1>3. UrlPairs(s) = [n \in 1 .. N |-> e(n)]
  BY <1>1 DEF UrlPairs
<1>4. QueryPairs(s) = [n \in 1 .. N |-> d(n)]
  BY <1>1 DEF QueryPairs, DecodedKey, DecodedValue
<1>5. Counting(s) = {n \in 1 .. N : ~Skipped(T[n])}
  BY <1>1 DEF Counting, Skipped
<1> HIDE DEF T, e, d, N
<1>6. /\ UrlPairs(s) \in Seq(Entry) /\ Len(UrlPairs(s)) = N /\ DOMAIN UrlPairs(s) = 1 .. N
      /\ \A n \in 1 .. N : UrlPairs(s)[n] = e(n)
  BY <1>1, <1>2, <1>3
<1>7. /\ QueryPairs(s) \in Seq(Entry) /\ Len(QueryPairs(s)) = N
      /\ \A n \in 1 .. N : QueryPairs(s)[n] = d(n)
  BY <1>1, <1>2, <1>4
<1>8. /\ Counting(s) \in SUBSET (1 .. N)
      /\ \A n \in 1 .. N : n \in Counting(s) <=> ~Skipped(T[n])
  BY <1>5
<1> QED
  BY <1>1, <1>6, <1>7, <1>8 DEF T, e, d, N

\* What one round of params_from_url makes of its table.
LEMMA UrlRound ==
  ASSUME Typed, UrlInv, pc = "url_table", tokens # <<>>
  PROVE  \E k \in 0 .. Len(Tokens(QueryOf(url))) :
           LET key   == KeyOf(Head(tokens))
               value == ValueOf(Head(tokens))
           IN  /\ Tail(tokens) = Rest(Tokens(QueryOf(url)), k)
               /\ LastPerKey(UrlPairs(QueryOf(url)), 1 .. k) =
                    IF Has(list, key) THEN [list EXCEPT ![Place(list, key)].value = value]
                    ELSE Append(list, Pair(key, value))
<1> DEFINE s == QueryOf(url)  T == Tokens(s)  P == UrlPairs(s)
<1>1. /\ T \in Seq(Text \ {<<>>}) /\ P \in Seq(Entry) /\ Len(P) = Len(T)
      /\ \A n \in 1 .. Len(T) : P[n] = Pair(KeyOf(T[n]), ValueOf(T[n]))
  BY QueryOfText, PairsAre DEF Typed
<1>2. PICK b \in 0 .. Len(T) : tokens = Rest(T, b) /\ list = LastPerKey(P, 1 .. b)
  BY DEF UrlInv
<1> HIDE DEF T, P
<1>3. /\ b + 1 \in 1 .. Len(T) /\ b + 1 \in 0 .. Len(T)
      /\ Head(tokens) = T[b + 1] /\ Tail(tokens) = Rest(T, b + 1)
  BY <1>1, <1>2, RestIs
<1>4. P[b + 1].key = KeyOf(Head(tokens)) /\ P[b + 1].value = ValueOf(Head(tokens))
  <2>1. P[b + 1] = Pair(KeyOf(Head(tokens)), ValueOf(Head(tokens)))
    BY <1>1, <1>3, Zenon
  <2> QED
    BY <2>1 DEF Pair
<1>5. b \in Nat /\ b + 1 \in 1 .. Len(P) /\ LastPerKey(P, 1 .. b) \in Seq(Entry)
  BY <1>1, <1>2, <1>3 DEF Typed
<1>6. LastPerKey(P, 1 .. b + 1) =
        IF Has(list, P[b + 1].key) THEN [list EXCEPT ![Place(list, P[b + 1].key)].value = P[b + 1].value]
        ELSE Append(list, Pair(P[b + 1].key, P[b + 1].value))
  BY <1>1, <1>2, <1>5, LastPerKeyGrows
<1> QED
  BY <1>3, <1>4, <1>6 DEF T, P

\* What one round of parse_query_params makes of its table.
LEMMA QueryRound ==
  ASSUME Typed, QueryInv, pc = "query_table", tokens # <<>>
  PROVE  \E k \in 0 .. Len(Tokens(text)) :
           LET t == Head(tokens)
           IN  /\ Tail(tokens) = Rest(Tokens(text), k)
               /\ FirstPerKey(QueryPairs(text), Counting(text) \cap (1 .. k)) =
                    IF Skipped(t) \/ Has(found, DecodedKey(t)) THEN found
                    ELSE Append(found, Pair(DecodedKey(t), DecodedValue(t)))
<1> DEFINE T == Tokens(text)  P == QueryPairs(text)  C == Counting(text)
<1>1. /\ T \in Seq(Text \ {<<>>}) /\ P \in Seq(Entry) /\ Len(P) = Len(T)
      /\ \A n \in 1 .. Len(T) : P[n] = Pair(DecodedKey(T[n]), DecodedValue(T[n]))
      /\ C \in SUBSET (1 .. Len(T))
      /\ \A n \in 1 .. Len(T) : n \in C <=> ~Skipped(T[n])
  BY PairsAre DEF Typed
<1>2. PICK b \in 0 .. Len(T) : tokens = Rest(T, b) /\ found = FirstPerKey(P, C \cap (1 .. b))
  BY DEF QueryInv
<1> HIDE DEF T, P, C
<1>3. /\ b + 1 \in 1 .. Len(T) /\ b + 1 \in 0 .. Len(T)
      /\ Head(tokens) = T[b + 1] /\ Tail(tokens) = Rest(T, b + 1)
  BY <1>1, <1>2, RestIs
<1> DEFINE N == C \cap (1 .. b)  t == Head(tokens)
<1>4. P[b + 1] = Pair(DecodedKey(t), DecodedValue(t)) /\ P[b + 1].key = DecodedKey(t)
  BY <1>1, <1>3 DEF Pair
<1>5. b \in Nat /\ b + 1 \in 1 .. Len(P) /\ N \in SUBSET (1 .. b)
  BY <1>1, <1>2, <1>3
<1>6. FirstPerKey(P, N \cup {b + 1}) =
        IF Has(FirstPerKey(P, N), P[b + 1].key) THEN FirstPerKey(P, N)
        ELSE Append(FirstPerKey(P, N), P[b + 1])
  <2> HIDE DEF N
  <2> QED
    BY <1>1, <1>5, FirstPerKeyGrows
<1>7. C \cap (1 .. b + 1) = IF Skipped(t) THEN N ELSE N \cup {b + 1}
  <2>1. \A m \in C : m \in 1 .. b + 1 <=> (m \in 1 .. b \/ m = b + 1)
    BY <1>1, <1>5
  <2>2. b + 1 \in C <=> ~Skipped(t)
    BY <1>1, <1>3
  <2> QED
    BY <2>1, <2>2
<1>8. FirstPerKey(P, C \cap (1 .. b + 1)) =
        IF Skipped(t) \/ Has(found, DecodedKey(t)) THEN found
        ELSE Append(found, Pair(DecodedKey(t), DecodedValue(t)))
  <2>1. found = FirstPerKey(P, N)
    BY <1>2
  <2> HIDE DEF N, t
  <2>2. CASE Skipped(t)
    BY <1>7, <2>1, <2>2
  <2>3. CASE ~Skipped(t)
    BY <1>4, <1>6, <1>7, <2>1, <2>3
  <2> QED
    BY <2>2, <2>3
<1> QED
  BY <1>3, <1>8 DEF T, P, C

THEOREM ContentInductive == Spec => []ContentInv
<1>1. Init => ContentInv
  BY DEF Init, Start, ContentInv, UrlInv, EncodedInv, QueryInv
<1>2. Typed /\ TableInv /\ ContentInv /\ [Next]_vars => ContentInv'
  <2> SUFFICES ASSUME Typed, TableInv, ContentInv, [Next]_vars PROVE ContentInv'
    OBVIOUS
  <2>0. UrlInv /\ EncodedInv /\ QueryInv
    BY DEF ContentInv
  <2>1. CASE OpenUrl
    <3> DEFINE s == QueryOf(url)
    <3>1. /\ pc = "url" /\ list = <<>> /\ source = "url"
          /\ UNCHANGED <<source, url, text, list, found>>
      BY <2>1 DEF OpenUrl, TableInv
    <3>2. s \in Text
      BY QueryOfText DEF Typed
    <3>3. CASE s = <<>>
      <4>1. pc' = "encode"
        BY <2>1, <3>3 DEF OpenUrl
      <4>2. UrlPairs(s) = <<>>
        BY <3>3, NoTokens DEF UrlPairs
      <4>3. LastPerKey(UrlPairs(s), DOMAIN UrlPairs(s)) = <<>>
        BY <4>2, LastPerKeyNone
      <4> QED
        BY <3>1, <4>1, <4>3 DEF ContentInv, UrlInv, EncodedInv, QueryInv
    <3>4. CASE s # <<>>
      <4>1. pc' = "url_table" /\ tokens' = Tokens(s)
        BY <2>1, <3>4 DEF OpenUrl
      <4>2. Tokens(s) \in Seq(Text \ {<<>>}) /\ Len(Tokens(s)) \in Nat
        BY <3>2, PairsAre
      <4>3. Tokens(s) = Rest(Tokens(s), 0) /\ 0 \in 0 .. Len(Tokens(s))
        <5>1. 0 + 1 = 1
          OBVIOUS
        <5> QED
          BY <4>2, <5>1, SubSeqFull DEF Rest
      <4>4. LastPerKey(UrlPairs(s), 1 .. 0) = <<>>
        <5>1. 1 .. 0 = {}
          OBVIOUS
        <5> QED
          BY <5>1, LastPerKeyNone
      <4>5. UrlInv'
        <5>1. \E k \in 0 .. Len(Tokens(s)) : tokens' = Rest(Tokens(s), k) /\ list' = LastPerKey(UrlPairs(s), 1 .. k)
          BY <3>1, <4>1, <4>3, <4>4
        <5> QED
          BY <3>1, <4>1, <5>1 DEF UrlInv
      <4> QED
        BY <3>1, <4>1, <4>5 DEF ContentInv, EncodedInv, QueryInv
    <3> QED
      BY <3>3, <3>4
  <2>2. CASE UrlUpdate \/ UrlAppend
    <3>1. /\ pc = "url_table" /\ pc' = pc /\ tokens # <<>> /\ tokens' = Tail(tokens)
          /\ UNCHANGED <<source, url, text, found>>
      BY <2>2 DEF UrlUpdate, UrlAppend, NextToken
    <3>2. list' = IF Has(list, KeyOf(Head(tokens)))
                  THEN [list EXCEPT ![Place(list, KeyOf(Head(tokens)))].value = ValueOf(Head(tokens))]
                  ELSE Append(list, Pair(KeyOf(Head(tokens)), ValueOf(Head(tokens))))
      BY <2>2 DEF UrlUpdate, UrlAppend
    <3>3. \E k \in 0 .. Len(Tokens(QueryOf(url))) :
            /\ tokens' = Rest(Tokens(QueryOf(url)), k)
            /\ list' = LastPerKey(UrlPairs(QueryOf(url)), 1 .. k)
      BY <2>0, <3>1, <3>2, UrlRound
    <3> QED
      BY <3>1, <3>3 DEF ContentInv, UrlInv, EncodedInv, QueryInv
  <2>3. CASE UrlReturn
    <3>1. /\ pc = "url_table" /\ pc' = "encode" /\ tokens = <<>>
          /\ UNCHANGED <<source, url, text, list, found>>
      BY <2>3 DEF UrlReturn
    <3> DEFINE s == QueryOf(url)
    <3>2. PICK k \in 0 .. Len(Tokens(s)) : tokens = Rest(Tokens(s), k) /\ list = LastPerKey(UrlPairs(s), 1 .. k)
      BY <2>0, <3>1 DEF UrlInv
    <3>3. Tokens(s) \in Seq(Text \ {<<>>}) /\ DOMAIN UrlPairs(s) = 1 .. Len(Tokens(s))
      BY QueryOfText, PairsAre DEF Typed
    <3>4. k = Len(Tokens(s))
      BY <3>1, <3>2, <3>3, RestIs
    <3>5. list = LastPerKey(UrlPairs(s), DOMAIN UrlPairs(s))
      BY <3>2, <3>3, <3>4
    <3> QED
      BY <3>1, <3>5 DEF ContentInv, UrlInv, EncodedInv, QueryInv
  <2>4. CASE Encode
    <3>1. /\ pc = "encode" /\ pc' = "query" /\ text' = EncodedText(list)
          /\ UNCHANGED <<source, url, list, found>>
      BY <2>4 DEF Encode, EncodedText
    <3>2. /\ QueryPairs(text') = list
          /\ Counting(text') = {n \in DOMAIN list : list[n].value # <<>>}
      BY <3>1, EncodedTextIs DEF Typed
    <3> QED
      BY <2>0, <3>1, <3>2 DEF ContentInv, UrlInv, EncodedInv, QueryInv
  <2>5. CASE OpenQuery
    <3>1. pc = "query" /\ found = <<>> /\ UNCHANGED <<source, url, text, list, found>>
      BY <2>5 DEF OpenQuery, TableInv
    <3>2. CASE text = <<>>
      <4>1. pc' = "read"
        BY <2>5, <3>2 DEF OpenQuery
      <4>2. Counting(text) = {}
        BY <3>2, NoTokens DEF Counting
      <4>3. found' = FirstPerKey(QueryPairs(text), Counting(text))
        BY <3>1, <4>2, FirstPerKeyNone
      <4> QED
        BY <2>0, <3>1, <4>1, <4>3 DEF ContentInv, UrlInv, EncodedInv, QueryInv
    <3>3. CASE text # <<>>
      <4>1. pc' = "query_table" /\ tokens' = Tokens(text)
        BY <2>5, <3>3 DEF OpenQuery
      <4>2. Tokens(text) \in Seq(Text \ {<<>>}) /\ Len(Tokens(text)) \in Nat
        BY PairsAre DEF Typed
      <4>3. Tokens(text) = Rest(Tokens(text), 0) /\ 0 \in 0 .. Len(Tokens(text))
        <5>1. 0 + 1 = 1
          OBVIOUS
        <5> QED
          BY <4>2, <5>1, SubSeqFull DEF Rest
      <4>4. found' = FirstPerKey(QueryPairs(text), Counting(text) \cap (1 .. 0))
        <5>1. Counting(text) \cap (1 .. 0) = {}
          OBVIOUS
        <5> QED
          BY <3>1, <5>1, FirstPerKeyNone
      <4>5. QueryInv'
        <5>1. \E k \in 0 .. Len(Tokens(text)) :
                /\ tokens' = Rest(Tokens(text), k)
                /\ found' = FirstPerKey(QueryPairs(text), Counting(text) \cap (1 .. k))
          BY <4>1, <4>3, <4>4
        <5> QED
          BY <3>1, <4>1, <5>1 DEF QueryInv
      <4> QED
        BY <2>0, <3>1, <4>1, <4>5 DEF ContentInv, UrlInv, EncodedInv
    <3> QED
      BY <3>2, <3>3
  <2>6. CASE QuerySkip \/ QueryDuplicate \/ QueryAppend
    <3>1. /\ pc = "query_table" /\ pc' = pc /\ tokens # <<>> /\ tokens' = Tail(tokens)
          /\ UNCHANGED <<source, url, text, list>>
      BY <2>6 DEF QuerySkip, QueryDuplicate, QueryAppend, NextToken
    <3>2. found' = IF Skipped(Head(tokens)) \/ Has(found, DecodedKey(Head(tokens))) THEN found
                   ELSE Append(found, Pair(DecodedKey(Head(tokens)), DecodedValue(Head(tokens))))
      BY <2>6 DEF QuerySkip, QueryDuplicate, QueryAppend
    <3>3. \E k \in 0 .. Len(Tokens(text)) :
            /\ tokens' = Rest(Tokens(text), k)
            /\ found' = FirstPerKey(QueryPairs(text), Counting(text) \cap (1 .. k))
      BY <2>0, <3>1, <3>2, QueryRound
    <3> QED
      BY <2>0, <3>1, <3>3 DEF ContentInv, UrlInv, EncodedInv, QueryInv
  <2>7. CASE QueryReturn
    <3>1. /\ pc = "query_table" /\ pc' = "read" /\ tokens = <<>>
          /\ UNCHANGED <<source, url, text, list, found>>
      BY <2>7 DEF QueryReturn
    <3>2. PICK k \in 0 .. Len(Tokens(text)) :
            /\ tokens = Rest(Tokens(text), k)
            /\ found = FirstPerKey(QueryPairs(text), Counting(text) \cap (1 .. k))
      BY <2>0, <3>1 DEF QueryInv
    <3>3. Tokens(text) \in Seq(Text \ {<<>>}) /\ Counting(text) \in SUBSET (1 .. Len(Tokens(text)))
      BY PairsAre DEF Typed
    <3>4. k = Len(Tokens(text))
      BY <3>1, <3>2, <3>3, RestIs
    <3>5. Counting(text) \cap (1 .. k) = Counting(text)
      BY <3>3, <3>4
    <3> QED
      BY <2>0, <3>1, <3>2, <3>5 DEF ContentInv, UrlInv, EncodedInv, QueryInv
  <2>8. CASE Free
    <3>1. pc = "read" /\ pc' = "done" /\ UNCHANGED <<source, url, text, list, found>>
      BY <2>8 DEF Free
    <3> QED
      BY <2>0, <3>1 DEF ContentInv, UrlInv, EncodedInv, QueryInv
  <2>9. CASE UNCHANGED vars
    BY <2>0, <2>9 DEF vars, ContentInv, UrlInv, EncodedInv, QueryInv
  <2> QED
    BY <2>1, <2>2, <2>3, <2>4, <2>5, <2>6, <2>7, <2>8, <2>9 DEF Next
<1> QED
  BY <1>1, <1>2, TablesInductive, PTL DEF Spec

\* Whatever the url, each of its keys ends up with its last value, in the order in
\* which the keys first appear.
THEOREM UrlLast == Spec => []UrlKeepsLast
<1>1. ContentInv => UrlKeepsLast
  BY DEF ContentInv, UrlInv, UrlKeepsLast
<1> QED
  BY <1>1, ContentInductive, PTL

\* Whatever the text, each key it names, as decoded, keeps its first value that is
\* not empty.
THEOREM QueryFirst == Spec => []QueryKeepsFirst
<1>1. ContentInv => QueryKeepsFirst
  BY DEF ContentInv, QueryInv, QueryKeepsFirst
<1> QED
  BY <1>1, ContentInductive, PTL

\* Whatever keys and values tt_sign is given, X-Argus reads them back out of the
\* text that is signed.
THEOREM ArgusReadsBack == Spec => []ReadsBack
<1>1. ContentInv => ReadsBack
  BY DEF ContentInv, EncodedInv, QueryInv, ReadsBack
<1> QED
  BY <1>1, ContentInductive, PTL

================================================================================
