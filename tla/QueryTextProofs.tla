---------------------------- MODULE QueryTextProofs ----------------------------
(* Lemmas about QueryText, and the induction that other proofs use.            *)
EXTENDS QueryText, SequenceTheorems, FiniteSetTheorems, TLAPS

\* Every non-empty set of natural numbers has a least element: the order of the
\* natural numbers is well-founded.
THEOREM LeastNatural ==
  ASSUME NEW T \in SUBSET Nat, T # {}
  PROVE  \E n \in T : \A m \in T : n <= m
<1> DEFINE R == OpToRel(<, Nat)
<1>1. IsWellFoundedOn(R, Nat)
  BY NatLessThanWellFounded
<1>2. \A m, n \in Nat : m < n => <<m, n>> \in R
  BY DEF OpToRel
<1> HIDE DEF R
<1>3. PICK n \in T : \A m \in T : ~(<<m, n>> \in R)
  BY <1>1, WFMin
<1>4. ASSUME NEW m \in T PROVE n <= m
  <2>1. m \in Nat /\ n \in Nat /\ ~(m < n)
    BY <1>2, <1>3
  <2> QED
    BY <2>1
<1> QED
  BY <1>4

\* A text stops somewhere: strlen has an answer for a terminated buffer.
LEMMA StrlenIs ==
  ASSUME NEW s \in Seq(0 .. 255)
  PROVE  /\ Strlen(s) \in 0 .. Len(s)
         /\ StopsAt(s, Strlen(s))
         /\ \A m \in 0 .. Strlen(s) - 1 : ~StopsAt(s, m)
<1> DEFINE T == {n \in 0 .. Len(s) : StopsAt(s, n)}
<1>1. Len(s) \in T /\ T \subseteq Nat
  BY DEF StopsAt
<1>2. PICK n \in T : \A m \in T : n <= m
  BY <1>1, LeastNatural
<1>3. n \in 0 .. Len(s) /\ StopsAt(s, n)
  OBVIOUS
<1>4. \A m \in 0 .. n - 1 : ~StopsAt(s, m)
  <2> SUFFICES ASSUME NEW m \in 0 .. n - 1, StopsAt(s, m) PROVE FALSE
    OBVIOUS
  <2>1. m \in T
    BY <1>3
  <2> QED
    BY <2>1, <1>2
<1> QED
  BY <1>3, <1>4 DEF Strlen

\* A zero byte at offset n, none before it.
LEMMA StrlenAt ==
  ASSUME NEW s, Len(s) \in Nat, NEW n \in 0 .. Len(s), StopsAt(s, n),
         \A m \in 0 .. n - 1 : ~StopsAt(s, m)
  PROVE  Strlen(s) = n
<1> DEFINE L == Strlen(s)
<1>1. L \in 0 .. Len(s) /\ StopsAt(s, L) /\ \A m \in 0 .. L - 1 : ~StopsAt(s, m)
  BY Zenon DEF Strlen
<1> HIDE DEF L
<1>2. L \notin 0 .. n - 1 /\ n \notin 0 .. L - 1
  BY <1>1
<1>3. L = n
  BY <1>1, <1>2
<1> QED
  BY <1>3 DEF L


\* What is read back from a buffer is a C string.
LEMMA CStringIs ==
  ASSUME NEW s \in Seq(0 .. 255)
  PROVE  CString(s) \in Seq(Byte)
<1>1. PICK n : n = Strlen(s)
  OBVIOUS
<1>2. n \in 0 .. Len(s) /\ \A m \in 0 .. n - 1 : ~StopsAt(s, m)
  BY <1>1, StrlenIs
<1>3. \A m \in 1 .. n : s[m] \in Byte
  <2> SUFFICES ASSUME NEW m \in 1 .. n PROVE s[m] \in Byte
    OBVIOUS
  <2>1. m \in 1 .. Len(s) /\ m - 1 \in 0 .. n - 1
    BY <1>2
  <2>2. s[m] \in 0 .. 255
    BY <2>1, ElementOfSeq
  <2>3. s[m] # 0
    <3>1. ~StopsAt(s, m - 1) /\ (m - 1) + 1 = m
      BY <1>2, <2>1
    <3> QED
      BY <3>1 DEF StopsAt
  <2> QED
    BY <2>2, <2>3 DEF Byte
<1>4. SubSeq(s, 1, n) \in Seq(Byte)
  BY <1>2, <1>3, SubSeqProperties
<1> QED
  BY <1>1, <1>4 DEF CString

\* quote_plus puts out one byte or three, none of them zero.
LEMMA QuotedByteIs ==
  ASSUME NEW c \in Byte
  PROVE  QuotedByte(c) \in Seq(0 .. 255) /\ Len(QuotedByte(c)) \in 1 .. 3
<1>1. c \div 16 \in 0 .. 15 /\ c % 16 \in 0 .. 15
  BY DEF Byte
<1>2. \A v \in 0 .. 15 : HexUpper(v) \in 0 .. 255
  BY DEF HexUpper
<1>3. /\ c \in 0 .. 255 /\ Plus \in 0 .. 255 /\ Percent \in 0 .. 255
      /\ HexUpper(c \div 16) \in 0 .. 255 /\ HexUpper(c % 16) \in 0 .. 255
  BY <1>1, <1>2 DEF Byte, Plus, Percent
<1>4. CASE c \in Unreserved
  BY <1>3, <1>4 DEF QuotedByte
<1>5. CASE c \notin Unreserved /\ c = Space
  BY <1>3, <1>5 DEF QuotedByte
<1>6. CASE c \notin Unreserved /\ c # Space
  BY <1>3, <1>6 DEF QuotedByte
<1> QED
  BY <1>4, <1>5, <1>6

\* unquote_plus reads inside the text, moves on by one or three bytes and never
\* past the terminator, and puts out a byte.
LEMMA UnquotedByteIs ==
  ASSUME NEW s \in Seq(Byte), NEW n \in 1 .. Len(s)
  PROVE  /\ UnquotedByte(s, n) \in 0 .. 255
         /\ Width(s, n) \in {1, 3}
         /\ n + Width(s, n) <= Len(s) + 1
<1>1. s[n] \in 1 .. 255 /\ Len(s) \in Nat /\ n \in Nat /\ n <= Len(s)
  BY ElementOfSeq, LenProperties DEF Byte
<1>2. \A c \in Byte : HexDigit(c) \in -1 .. 15
  BY DEF HexDigit, Digits, Byte
<1>3. CASE IsEscape(s, n)
  <2>1. n + 1 \in 1 .. Len(s) /\ n + 2 \in 1 .. Len(s)
    BY <1>3 DEF IsEscape, LooksAhead
  <2>2. HexDigit(s[n + 1]) \in 0 .. 15 /\ HexDigit(s[n + 2]) \in 0 .. 15
    <3>1. s[n + 1] \in Byte /\ s[n + 2] \in Byte
      BY <2>1, ElementOfSeq
    <3> QED
      BY <1>2, <1>3, <3>1 DEF IsEscape
  <2>3. 16 * HexDigit(s[n + 1]) + HexDigit(s[n + 2]) \in 0 .. 255
    <3>1. \A hi, lo \in 0 .. 15 : 16 * hi + lo \in 0 .. 255
      OBVIOUS
    <3> QED
      BY <2>2, <3>1
  <2>4. UnquotedByte(s, n) \in 0 .. 255
    BY <1>1, <1>3, <2>3 DEF UnquotedByte, Space
  <2>5. Width(s, n) = 3 /\ n + 2 <= Len(s)
    BY <1>3 DEF Width, IsEscape, LooksAhead
  <2> QED
    BY <1>1, <2>4, <2>5
<1>4. CASE ~IsEscape(s, n)
  BY <1>1, <1>4 DEF UnquotedByte, Width, Space
<1> QED
  BY <1>3, <1>4

\* What is left of the bytes without those that separate keys and values.
Clean == Byte \ {Amp, Equals, Space}

\* The two digits of an escape are read back.
LEMMA HexBack ==
  ASSUME NEW v \in 0 .. 15
  PROVE  HexUpper(v) \in Clean \ {Plus, Percent} /\ HexDigit(HexUpper(v)) = v
BY DEF HexUpper, HexDigit, Digits, Clean, Byte, Amp, Equals, Space, Plus, Percent

\* quote_plus puts out one byte or three, and none that separates or ends a text.
LEMMA QuotedByteClean ==
  ASSUME NEW c \in Byte
  PROVE  QuotedByte(c) \in Seq(Clean) /\ Len(QuotedByte(c)) \in {1, 3}
<1>1. c \div 16 \in 0 .. 15 /\ c % 16 \in 0 .. 15
  BY DEF Byte
<1>2. Plus \in Clean /\ Percent \in Clean /\ HexUpper(c \div 16) \in Clean /\ HexUpper(c % 16) \in Clean
  <2>1. Plus \in Clean /\ Percent \in Clean
    BY DEF Plus, Percent, Clean, Byte, Amp, Equals, Space
  <2> QED
    BY <1>1, <2>1, HexBack
<1>3. CASE c \in Unreserved
  <2>1. c \in Clean
    BY <1>3 DEF Unreserved, Digits, UpperCase, LowerCase, Clean, Byte, Amp, Equals, Space
  <2> QED
    BY <1>3, <2>1 DEF QuotedByte
<1>4. CASE c \notin Unreserved /\ c = Space
  BY <1>2, <1>4 DEF QuotedByte
<1>5. CASE c \notin Unreserved /\ c # Space
  BY <1>2, <1>5 DEF QuotedByte
<1> QED
  BY <1>3, <1>4, <1>5

\* Where a text holds what quote_plus put out for a byte, unquote_plus reads just
\* that, and puts the byte out.
LEMMA QuotedByteBack ==
  ASSUME NEW t \in Seq(Byte), NEW at \in Nat, NEW c \in Byte,
         at + Len(QuotedByte(c)) <= Len(t),
         \A m \in 1 .. Len(QuotedByte(c)) : t[at + m] = QuotedByte(c)[m]
  PROVE  /\ UnquotedByte(t, at + 1) = c
         /\ Width(t, at + 1) = Len(QuotedByte(c))
<1>1. c \div 16 \in 0 .. 15 /\ c % 16 \in 0 .. 15 /\ 16 * (c \div 16) + (c % 16) = c
  BY DEF Byte
<1>2. CASE c \in Unreserved
  <2>1. QuotedByte(c) = <<c>> /\ Len(<<c>>) = 1 /\ c # Plus /\ c # Percent
    BY <1>2 DEF QuotedByte, Unreserved, Digits, UpperCase, LowerCase, Plus, Percent
  <2>2. t[at + 1] = c
    BY <2>1
  <2> QED
    BY <2>1, <2>2 DEF UnquotedByte, Width, IsEscape, LooksAhead
<1>3. CASE c \notin Unreserved /\ c = Space
  <2>1. QuotedByte(c) = <<Plus>> /\ Len(<<Plus>>) = 1
    BY <1>3 DEF QuotedByte
  <2>2. t[at + 1] = Plus
    BY <2>1
  <2> QED
    BY <1>3, <2>1, <2>2 DEF UnquotedByte, Width, IsEscape, LooksAhead, Plus, Percent
<1>4. CASE c \notin Unreserved /\ c # Space
  <2> DEFINE hi == HexUpper(c \div 16)  lo == HexUpper(c % 16)
  <2>1. QuotedByte(c) = <<Percent, hi, lo>>
    BY <1>4 DEF QuotedByte
  <2>2. Len(QuotedByte(c)) = 3
    BY <2>1
  <2>3. t[at + 1] = Percent /\ t[at + 2] = hi /\ t[at + 3] = lo
    BY <2>1, <2>2
  <2>4. HexDigit(hi) = c \div 16 /\ HexDigit(lo) = c % 16
    BY <1>1, HexBack
  <2> HIDE DEF hi, lo
  <2>5. (at + 1) + 1 = at + 2 /\ (at + 1) + 2 = at + 3 /\ (at + 1) + 2 <= Len(t)
    BY <2>2, LenProperties
  <2>6. IsEscape(t, at + 1)
    <3>0. HexDigit(t[at + 2]) = c \div 16 /\ HexDigit(t[at + 3]) = c % 16
      BY <2>3, <2>4, Zenon
    <3>1. HexDigit(t[at + 2]) >= 0 /\ HexDigit(t[at + 3]) >= 0
      BY <1>1, <3>0, SMTT(30)
    <3> QED
      BY <2>3, <2>5, <3>1, Zenon DEF IsEscape, LooksAhead
  <2>7. Width(t, at + 1) = 3
    BY <2>6 DEF Width
  <2>8. UnquotedByte(t, at + 1) = 16 * HexDigit(hi) + HexDigit(lo)
    BY <2>3, <2>5, <2>6 DEF UnquotedByte, Plus, Percent
  <2> QED
    BY <1>1, <2>2, <2>4, <2>7, <2>8
<1> QED
  BY <1>2, <1>3, <1>4

\* A text without a zero is read back whole.
LEMMA CStringWhole ==
  ASSUME NEW s \in Seq(Byte)
  PROVE  CString(s) = s
<1>1. s \in Seq(0 .. 255)
  BY SeqMonotonic DEF Byte
<1>2. Strlen(s) \in 0 .. Len(s) /\ StopsAt(s, Strlen(s))
  BY <1>1, StrlenIs
<1>3. Strlen(s) = Len(s)
  <2>1. SUFFICES ASSUME Strlen(s) # Len(s) PROVE FALSE
    OBVIOUS
  <2>2. Strlen(s) + 1 \in 1 .. Len(s)
    BY <1>2, <2>1, LenProperties
  <2>3. s[Strlen(s) + 1] \in Byte
    BY <2>2, ElementOfSeq
  <2>4. s[Strlen(s) + 1] = 0
    BY <1>2, <2>1, Zenon DEF StopsAt
  <2> QED
    BY <2>3, <2>4 DEF Byte
<1> QED
  BY <1>3, SubSeqFull DEF CString

--------------------------------------------------------------------------------
(* Sets of numbers in their order *)

LEMMA BelowIs ==
  ASSUME NEW l \in Nat, NEW S \in SUBSET (1 .. l)
  PROVE  /\ IsFiniteSet(S) /\ Cardinality(S) \in Nat
         /\ \A n \in Nat : Below(S, n) \in Nat
         /\ \A n \in S : Below(S, n) < Cardinality(S)
         /\ Below(S, 0) = 0 /\ Below(S, l + 1) = Cardinality(S)
<1>0. \A m \in S : m \in Nat /\ 1 <= m /\ m <= l
  OBVIOUS
<1>1. IsFiniteSet(S) /\ Cardinality(S) \in Nat
  <2>1. IsFiniteSet(1 .. l)
    BY FS_Interval
  <2> QED
    BY <2>1, FS_Subset, FS_CardinalityType
<1>2. ASSUME NEW n \in Nat
      PROVE  /\ Below(S, n) \in Nat
             /\ n \in S => Below(S, n) < Cardinality(S)
  <2> DEFINE T == {m \in S : m < n}
  <2>1. T \in SUBSET S
    OBVIOUS
  <2>2. /\ IsFiniteSet(T) /\ Cardinality(T) <= Cardinality(S)
        /\ Cardinality(S) = Cardinality(T) => S = T
    BY <1>1, <2>1, FS_Subset
  <2>3. Cardinality(T) \in Nat
    BY <2>2, FS_CardinalityType
  <2>4. n \in S => S # T
    OBVIOUS
  <2>5. Below(S, n) = Cardinality(T)
    BY DEF Below
  <2> HIDE DEF T
  <2> QED
    BY <1>1, <2>2, <2>3, <2>4, <2>5
<1>3. Below(S, 0) = 0
  <2>0. \A m \in S : ~(m < 0)
    BY <1>0
  <2>1. {m \in S : m < 0} = {}
    BY <2>0, Zenon
  <2> QED
    BY <2>1, FS_EmptySet DEF Below
<1>4. Below(S, l + 1) = Cardinality(S)
  <2>0. \A m \in S : m < l + 1
    BY <1>0
  <2>1. {m \in S : m < l + 1} = S
    BY <2>0, Zenon
  <2> QED
    BY <2>1 DEF Below
<1> QED
  BY <1>1, <1>2, <1>3, <1>4

LEMMA BelowStep ==
  ASSUME NEW l \in Nat, NEW S \in SUBSET (1 .. l), NEW n \in Nat
  PROVE  Below(S, n + 1) = IF n \in S THEN Below(S, n) + 1 ELSE Below(S, n)
<1> DEFINE T == {m \in S : m < n}  U == {m \in S : m < n + 1}
<1>1. IsFiniteSet(T)
  <2>1. IsFiniteSet(S) /\ T \in SUBSET S
    BY BelowIs
  <2> QED
    BY <2>1, FS_Subset
<1>0. \A m \in S : m \in Nat /\ (m < n + 1 <=> m < n \/ m = n)
  OBVIOUS
<1>2. n \in S => U = T \cup {n}
  BY <1>0
<1>3. n \notin S => U = T
  BY <1>0
<1>4. n \notin T
  OBVIOUS
<1>5. Below(S, n) = Cardinality(T) /\ Below(S, n + 1) = Cardinality(U)
  BY DEF Below
<1> HIDE DEF T, U
<1> QED
  BY <1>1, <1>2, <1>3, <1>4, <1>5, FS_AddElement

\* A higher number has more below it, one more at least for a member between.
LEMMA BelowGrows ==
  ASSUME NEW l \in Nat, NEW S \in SUBSET (1 .. l), NEW n \in S, NEW m \in Nat, n < m
  PROVE  Below(S, n) < Below(S, m)
<1> DEFINE T == {k \in S : k < n + 1}  U == {k \in S : k < m}
<1>1. n \in Nat /\ n + 1 \in Nat
  OBVIOUS
<1>2. Below(S, n + 1) = Below(S, n) + 1
  BY <1>1, BelowStep
<1>3. Below(S, n) \in Nat /\ Below(S, n + 1) \in Nat /\ Below(S, m) \in Nat
  BY <1>1, BelowIs
<1>4. IsFiniteSet(U) /\ T \in SUBSET U
  <2>1. IsFiniteSet(S) /\ U \in SUBSET S
    BY BelowIs
  <2>2. \A k \in S : k < n + 1 => k < m
    <3>1. \A k \in S : k \in Nat
      OBVIOUS
    <3> QED
      BY <3>1
  <2> QED
    BY <2>1, <2>2, FS_Subset
<1>5. Below(S, n + 1) = Cardinality(T) /\ Below(S, m) = Cardinality(U)
  BY DEF Below
<1> HIDE DEF T, U
<1>6. Cardinality(T) <= Cardinality(U)
  BY <1>4, FS_Subset
<1> QED
  BY <1>2, <1>3, <1>5, <1>6

\* Every rank is taken, by one member.
LEMMA RankTaken ==
  ASSUME NEW l \in Nat, NEW S \in SUBSET (1 .. l), NEW k \in 1 .. Cardinality(S)
  PROVE  \E n \in S : Below(S, n) = k - 1
<1> DEFINE U == {n \in Nat : Below(S, n) >= k}
<1>1. l + 1 \in U /\ 0 \notin U
  BY BelowIs
<1>2. PICK n \in U : \A m \in U : n <= m
  BY <1>1, LeastNatural
<1>3. n \in Nat /\ n # 0 /\ Below(S, n) >= k
  BY <1>1, <1>2
<1>4. PICK m \in Nat : n = m + 1
  <2>1. n - 1 \in Nat /\ n = (n - 1) + 1
    BY <1>3
  <2> QED
    BY <2>1
<1>5. m \notin U
  BY <1>2, <1>4
<1>6. ~(Below(S, m) >= k) /\ Below(S, m) \in Nat /\ Below(S, n) \in Nat
  BY <1>3, <1>5, BelowIs
<1> HIDE DEF U
<1>7. Below(S, n) = IF m \in S THEN Below(S, m) + 1 ELSE Below(S, m)
  BY <1>4, BelowStep
<1>8. m \in S /\ Below(S, m) = k - 1
  <2>1. k \in Nat
    BY BelowIs
  <2> QED
    BY <1>3, <1>6, <1>7, <2>1
<1> QED
  BY <1>8

LEMMA RanksDiffer ==
  ASSUME NEW l \in Nat, NEW S \in SUBSET (1 .. l), NEW n \in S, NEW m \in S,
         Below(S, n) = Below(S, m)
  PROVE  n = m
<1>1. n \in Nat /\ m \in Nat /\ Below(S, n) \in Nat /\ Below(S, m) \in Nat
  BY BelowIs
<1>2. n < m => Below(S, n) < Below(S, m)
  BY <1>1, BelowGrows
<1>3. m < n => Below(S, m) < Below(S, n)
  BY <1>1, BelowGrows
<1> QED
  BY <1>1, <1>2, <1>3

\* InOrder lists the members, each once and a greater one later.
LEMMA InOrderIs ==
  ASSUME NEW l \in Nat, NEW S \in SUBSET (1 .. l)
  PROVE  /\ InOrder(S) \in Seq(S) /\ Len(InOrder(S)) = Cardinality(S)
         /\ \A k \in 1 .. Cardinality(S) : Below(S, InOrder(S)[k]) = k - 1
         /\ \A k \in 1 .. Cardinality(S), n \in S : Below(S, n) = k - 1 => InOrder(S)[k] = n
<1>1. Cardinality(S) \in Nat
  BY BelowIs
<1>2. ASSUME NEW k \in 1 .. Cardinality(S)
      PROVE  InOrder(S)[k] \in S /\ Below(S, InOrder(S)[k]) = k - 1
  <2>1. \E n \in S : Below(S, n) = k - 1
    BY RankTaken
  <2>2. InOrder(S)[k] = CHOOSE n \in S : Below(S, n) = k - 1
    BY DEF InOrder
  <2> QED
    BY <2>1, <2>2
<1>3. InOrder(S) \in [1 .. Cardinality(S) -> S]
  BY <1>2 DEF InOrder
<1>4. InOrder(S) \in Seq(S) /\ Len(InOrder(S)) = Cardinality(S)
  BY <1>1, <1>3
<1>5. ASSUME NEW k \in 1 .. Cardinality(S), NEW n \in S, Below(S, n) = k - 1
      PROVE  InOrder(S)[k] = n
  <2>1. InOrder(S)[k] \in S /\ Below(S, InOrder(S)[k]) = Below(S, n)
    BY <1>2, <1>5
  <2> QED
    BY <2>1, RanksDiffer
<1> QED
  BY <1>2, <1>4, <1>5

\* A list of the members in which they increase is theirs in order.
LEMMA InOrderOnly ==
  ASSUME NEW l \in Nat, NEW S \in SUBSET (1 .. l), NEW n \in Nat, NEW f \in [1 .. n -> S],
         \A j, k \in 1 .. n : j < k => f[j] < f[k],
         \A m \in S : \E k \in 1 .. n : f[k] = m
  PROVE  InOrder(S) = f /\ Cardinality(S) = n
<1>0. S \subseteq Nat /\ Cardinality(S) \in Nat
  BY BelowIs
<1>1. \A k \in 1 .. n : Below(S, f[k]) = k - 1
  <2> DEFINE Wrong == {k \in 1 .. n : Below(S, f[k]) # k - 1}
  <2> SUFFICES ASSUME Wrong # {} PROVE FALSE
    OBVIOUS
  <2>1. Wrong \in SUBSET Nat
    OBVIOUS
  <2>2. PICK k \in Wrong : \A j \in Wrong : k <= j
    BY <2>1, LeastNatural
  <2>3. k \in 1 .. n /\ f[k] \in S /\ f[k] \in Nat /\ Below(S, f[k]) # k - 1
    BY <1>0, <2>2
  <2>4. CASE k = 1
    <3>1. \A m \in S : ~(m < f[1])
      <4> SUFFICES ASSUME NEW m \in S, m < f[1] PROVE FALSE
        OBVIOUS
      <4>1. PICK j \in 1 .. n : f[j] = m
        OBVIOUS
      <4>2. j # 1 => f[1] < f[j]
        BY <2>3, <2>4
      <4> QED
        BY <1>0, <2>3, <2>4, <4>1, <4>2
    <3>2. {m \in S : m < f[1]} = {}
      BY <3>1
    <3>3. Below(S, f[1]) = 0
      BY <3>2, FS_EmptySet DEF Below
    <3> QED
      BY <2>3, <2>4, <3>3
  <2>5. CASE k # 1
    <3>1. k - 1 \in 1 .. n /\ k - 1 < k
      BY <2>3, <2>5
    <3>2. k - 1 \notin Wrong
      BY <2>2, <2>3, <3>1
    <3>3. PICK b \in S : b = f[k - 1]
      BY <3>1
    <3>4. Below(S, b) = (k - 1) - 1
      BY <3>1, <3>2, <3>3
    <3> HIDE DEF Wrong
    <3>5. b < f[k] /\ b \in Nat
      BY <1>0, <2>3, <3>1, <3>3
    <3>6. {m \in S : m < f[k]} = {m \in S : m < b + 1}
      <4>1. ASSUME NEW m \in S, m < f[k] PROVE m < b + 1
        <5>1. PICK j \in 1 .. n : f[j] = m
          OBVIOUS
        <5>2. j < k
          <6>1. k < j => f[k] < f[j]
            BY <2>3
          <6> QED
            BY <1>0, <2>3, <4>1, <5>1, <6>1
        <5>3. j = k - 1 \/ j < k - 1
          BY <2>3, <5>2
        <5>4. j < k - 1 => f[j] < f[k - 1]
          BY <3>1
        <5> QED
          BY <1>0, <3>3, <3>5, <5>1, <5>3, <5>4
      <4>2. ASSUME NEW m \in S, m < b + 1 PROVE m < f[k]
        BY <1>0, <2>3, <3>5, <4>2
      <4> QED
        BY <4>1, <4>2
    <3>7. Below(S, f[k]) = Below(S, b + 1)
      BY <3>6 DEF Below
    <3>8. Below(S, b + 1) = Below(S, b) + 1
      BY <3>5, BelowStep
    <3> QED
      BY <2>3, <3>4, <3>7, <3>8
  <2> QED
    BY <2>4, <2>5
<1>2. Cardinality(S) = n
  <2>1. \A j, k \in 1 .. n : f[j] = f[k] => j = k
    <3> SUFFICES ASSUME NEW j \in 1 .. n, NEW k \in 1 .. n, f[j] = f[k] PROVE j = k
      OBVIOUS
    <3>1. j - 1 = k - 1
      BY <1>1
    <3> QED
      BY <3>1
  <2>2. f \in Bijection(1 .. n, S)
    BY <2>1, Zenon DEF Bijection, Injection, Surjection, IsInjective
  <2> QED
    BY <2>2, FS_CountingElements, Zenon DEF ExistsBijection
<1>3. \A k \in 1 .. n : InOrder(S)[k] = f[k]
  <2> TAKE k \in 1 .. n
  <2>1. f[k] \in S /\ Below(S, f[k]) = k - 1 /\ k \in 1 .. Cardinality(S)
    BY <1>1, <1>2
  <2> QED
    BY <2>1, InOrderIs
<1>4. InOrder(S) \in [1 .. n -> S]
  BY <1>2, InOrderIs, LenProperties
<1> QED
  BY <1>2, <1>3, <1>4

\* The list is increasing, and every member is in it.
LEMMA InOrderGrows ==
  ASSUME NEW l \in Nat, NEW S \in SUBSET (1 .. l)
  PROVE  /\ \A j, k \in 1 .. Cardinality(S) : j < k => InOrder(S)[j] < InOrder(S)[k]
         /\ \A n \in S : \E k \in 1 .. Cardinality(S) : InOrder(S)[k] = n
<1>0. Cardinality(S) \in Nat
  BY BelowIs
<1>1. ASSUME NEW j \in 1 .. Cardinality(S), NEW k \in 1 .. Cardinality(S), j < k
      PROVE  InOrder(S)[j] < InOrder(S)[k]
  <2>1. PICK a \in S : a = InOrder(S)[j] /\ Below(S, a) = j - 1
    BY InOrderIs, ElementOfSeq
  <2>2. PICK b \in S : b = InOrder(S)[k] /\ Below(S, b) = k - 1
    BY InOrderIs, ElementOfSeq
  <2>3. a \in Nat /\ b \in Nat /\ j \in Int /\ k \in Int
    OBVIOUS
  <2>4. a # b
    BY <1>1, <2>1, <2>2, <2>3
  <2>5. ~(b < a)
    <3>1. b < a => Below(S, b) < Below(S, a)
      BY <2>3, BelowGrows
    <3>2. ~(k - 1 < j - 1)
      BY <1>1, <2>3
    <3> QED
      BY <2>1, <2>2, <3>1, <3>2
  <2> QED
    BY <2>1, <2>2, <2>3, <2>4, <2>5
<1>2. ASSUME NEW n \in S PROVE \E k \in 1 .. Cardinality(S) : InOrder(S)[k] = n
  <2>1. Below(S, n) \in Nat /\ Below(S, n) < Cardinality(S)
    BY BelowIs
  <2>2. PICK k \in 1 .. Cardinality(S) : Below(S, n) = k - 1
    <3>1. Below(S, n) + 1 \in 1 .. Cardinality(S) /\ Below(S, n) = (Below(S, n) + 1) - 1
      BY <1>0, <2>1
    <3> QED
      BY <3>1
  <2> QED
    BY <2>2, InOrderIs
<1> QED
  BY <1>1, <1>2

LEMMA InOrderEmpty == InOrder({}) = <<>>
<1>1. Cardinality({}) = 0
  BY FS_EmptySet
<1> QED
  BY <1>1 DEF InOrder

\* One more member, above the others, comes last.
LEMMA InOrderAppend ==
  ASSUME NEW l \in Nat, NEW S \in SUBSET (1 .. l)
  PROVE  InOrder(S \cup {l + 1}) = Append(InOrder(S), l + 1)
<1> DEFINE N == Cardinality(S)
           R == S \cup {l + 1}
           f == Append(InOrder(S), l + 1)
<1>0. N \in Nat
  BY BelowIs
<1>1. InOrder(S) \in Seq(R) /\ Len(InOrder(S)) = N /\ l + 1 \in R
  BY InOrderIs, SeqMonotonic
<1>2. R \in SUBSET (1 .. l + 1)
  OBVIOUS
<1>3. \A j, k \in 1 .. N : j < k => InOrder(S)[j] < InOrder(S)[k]
  BY InOrderGrows
<1>4. \A n \in S : \E k \in 1 .. N : InOrder(S)[k] = n
  BY InOrderGrows
<1>5. \A k \in 1 .. N : InOrder(S)[k] \in 1 .. l
  BY InOrderIs, ElementOfSeq
<1> HIDE DEF R, N
<1>6. f \in Seq(R) /\ Len(f) = N + 1 /\ f[N + 1] = l + 1 /\ \A k \in 1 .. N : f[k] = InOrder(S)[k]
  BY <1>1, AppendProperties
<1> HIDE DEF f
<1>7. f \in [1 .. N + 1 -> R]
  BY <1>0, <1>6, LenProperties
<1>8. ASSUME NEW j \in 1 .. N + 1, NEW k \in 1 .. N + 1, j < k PROVE f[j] < f[k]
  <2>1. j \in 1 .. N
    BY <1>0, <1>8
  <2>2. CASE k = N + 1
    <3>1. f[j] \in 1 .. l /\ f[k] = l + 1
      BY <1>5, <1>6, <2>1, <2>2
    <3> QED
      BY <3>1
  <2>3. CASE k # N + 1
    <3>1. k \in 1 .. N
      BY <1>0, <2>3
    <3> QED
      BY <1>3, <1>6, <1>8, <2>1, <3>1
  <2> QED
    BY <2>2, <2>3
<1>9. ASSUME NEW m \in R PROVE \E k \in 1 .. N + 1 : f[k] = m
  <2>1. m \in S \/ m = l + 1
    BY DEF R
  <2>2. CASE m \in S
    <3>1. PICK k \in 1 .. N : InOrder(S)[k] = m
      BY <1>4, <2>2
    <3>2. k \in 1 .. N + 1
      BY <1>0
    <3> QED
      BY <1>6, <3>1, <3>2
  <2>3. CASE m = l + 1
    <3>1. N + 1 \in 1 .. N + 1
      BY <1>0
    <3> QED
      BY <1>6, <2>3, <3>1
  <2> QED
    BY <2>1, <2>2, <2>3
<1>10. l + 1 \in Nat /\ N + 1 \in Nat
  BY <1>0
<1>11. InOrder(R) = f
  <2>1. \A j, k \in 1 .. N + 1 : j < k => f[j] < f[k]
    BY <1>8
  <2>2. \A m \in R : \E k \in 1 .. N + 1 : f[k] = m
    BY <1>9
  <2> QED
    BY <1>2, <1>7, <1>10, <2>1, <2>2, InOrderOnly
<1> QED
  BY <1>11 DEF R, f

--------------------------------------------------------------------------------
(***************************************************************************)
(* A coding p of t says where in t the encodings of   *)
(* the bytes of g end: the first p[k] bytes of t stand for the first k of  *)
(* g.                                                                      *)
(***************************************************************************)
Coded(p, t, g, k) ==
  /\ p[k] = p[k - 1] + Len(QuotedByte(g[k]))
  /\ \A m \in 1 .. Len(QuotedByte(g[k])) : t[p[k - 1] + m] = QuotedByte(g[k])[m]

IsCoding(p, t, g, n) ==
  /\ p \in [0 .. n -> 0 .. Len(t)]
  /\ p[0] = 0 /\ p[n] = Len(t)
  /\ \A k \in 1 .. n : Coded(p, t, g, k)

LEMMA CodingStarts == ASSUME NEW g PROVE IsCoding([k \in 0 .. 0 |-> 0], <<>>, g, 0)
BY DEF IsCoding

\* One more byte encoded.
LEMMA CodingGrows ==
  ASSUME NEW t \in Seq(Byte), NEW g \in Seq(Byte), NEW n \in Nat, n < Len(g),
         NEW p, IsCoding(p, t, g, n)
  PROVE  \E q : IsCoding(q, t \o QuotedByte(g[n + 1]), g, n + 1)
<1>1. PICK b : b = QuotedByte(g[n + 1])
  OBVIOUS
<1>2. b \in Seq(Byte) /\ Len(b) \in Nat
  <2>1. n + 1 \in 1 .. Len(g)
    BY LenProperties
  <2>2. g[n + 1] \in Byte
    BY <2>1, ElementOfSeq
  <2>3. b \in Seq(Clean)
    BY <1>1, <2>2, QuotedByteClean
  <2> QED
    BY <2>3, SeqMonotonic, LenProperties DEF Clean
<1>3. /\ Len(t) \in Nat /\ Len(t \o b) = Len(t) + Len(b)
      /\ \A m \in 1 .. Len(t) + Len(b) :
           (t \o b)[m] = IF m <= Len(t) THEN t[m] ELSE b[m - Len(t)]
  BY <1>2, ConcatProperties, LenProperties
<1> DEFINE q == [k \in 0 .. n + 1 |-> IF k <= n THEN p[k] ELSE Len(t) + Len(b)]
<1>4. p \in [0 .. n -> 0 .. Len(t)] /\ p[0] = 0 /\ p[n] = Len(t)
  BY DEF IsCoding
<1>5. q \in [0 .. n + 1 -> 0 .. Len(t \o b)] /\ q[0] = 0 /\ q[n + 1] = Len(t \o b)
  BY <1>2, <1>3, <1>4
<1>6. ASSUME NEW k \in 1 .. n + 1 PROVE Coded(q, t \o b, g, k)
  <2>1. CASE k <= n
    <3>1. k \in 1 .. n /\ k - 1 \in 0 .. n /\ k \in 0 .. n
      BY <2>1
    <3>2. q[k] = p[k] /\ q[k - 1] = p[k - 1]
      BY <2>1, <3>1
    <3>3. Coded(p, t, g, k)
      BY <3>1 DEF IsCoding
    <3>4. p[k] \in 0 .. Len(t) /\ p[k - 1] \in 0 .. Len(t)
      BY <1>4, <3>1
    <3> HIDE DEF q
    <3>5. ASSUME NEW m \in 1 .. Len(QuotedByte(g[k]))
          PROVE  (t \o b)[q[k - 1] + m] = QuotedByte(g[k])[m]
      <4>1. t[p[k - 1] + m] = QuotedByte(g[k])[m]
        BY <3>3 DEF Coded
      <4>2. p[k] = p[k - 1] + Len(QuotedByte(g[k])) /\ Len(QuotedByte(g[k])) \in Nat
        <5>1. k \in 1 .. Len(g)
          BY <3>1, LenProperties
        <5>2. g[k] \in Byte
          BY <5>1, ElementOfSeq
        <5> QED
          BY <3>3, <5>2, QuotedByteClean DEF Coded
      <4>3. p[k - 1] + m \in 1 .. Len(t)
        BY <3>4, <4>2
      <4>4. (t \o b)[p[k - 1] + m] = t[p[k - 1] + m]
        BY <1>2, <1>3, <4>3
      <4> QED
        BY <3>2, <4>1, <4>4
    <3> QED
      BY <3>2, <3>3, <3>5 DEF Coded
  <2>2. CASE k = n + 1
    <3>1. q[k] = Len(t) + Len(b) /\ q[k - 1] = Len(t)
      BY <1>4, <2>2
    <3> HIDE DEF q
    <3>2. ASSUME NEW m \in 1 .. Len(b) PROVE (t \o b)[Len(t) + m] = b[m]
      BY <1>2, <1>3
    <3> QED
      BY <1>1, <2>2, <3>1, <3>2 DEF Coded
  <2> QED
    BY <2>1, <2>2
<1> QED
  <2> HIDE DEF q
  <2>1. IsCoding(q, t \o b, g, n + 1)
    BY <1>5, <1>6 DEF IsCoding
  <2> QED
    BY <1>1, <2>1

\* Where one encoding ends and the text does not, the next is read whole.
LEMMA CodingRead ==
  ASSUME NEW t \in Seq(Byte), NEW g \in Seq(Byte), NEW p, IsCoding(p, t, g, Len(g)),
         NEW j \in 0 .. Len(g), p[j] < Len(t)
  PROVE  /\ j + 1 \in 1 .. Len(g)
         /\ UnquotedByte(t, p[j] + 1) = g[j + 1]
         /\ p[j] + Width(t, p[j] + 1) = p[j + 1]
<1>1. p \in [0 .. Len(g) -> 0 .. Len(t)] /\ p[Len(g)] = Len(t) /\ Len(g) \in Nat /\ Len(t) \in Nat
  BY LenProperties DEF IsCoding
<1>2. j + 1 \in 1 .. Len(g) /\ (j + 1) - 1 = j /\ j + 1 \in 0 .. Len(g)
  BY <1>1
<1>3. Coded(p, t, g, j + 1)
  BY <1>2 DEF IsCoding
<1>4. g[j + 1] \in Byte /\ p[j] \in Nat /\ p[j + 1] \in 0 .. Len(t)
  BY <1>1, <1>2, ElementOfSeq
<1>5. PICK c \in Byte : c = g[j + 1]
  BY <1>4
<1>6. /\ p[j + 1] = p[j] + Len(QuotedByte(c))
      /\ \A m \in 1 .. Len(QuotedByte(c)) : t[p[j] + m] = QuotedByte(c)[m]
  BY <1>2, <1>3, <1>5 DEF Coded
<1>7. p[j] + Len(QuotedByte(c)) <= Len(t)
  BY <1>4, <1>6
<1>8. UnquotedByte(t, p[j] + 1) = c /\ Width(t, p[j] + 1) = Len(QuotedByte(c))
  BY <1>4, <1>6, <1>7, QuotedByteBack
<1> QED
  BY <1>2, <1>5, <1>6, <1>8

LEMMA OneMore ==
  ASSUME NEW g \in Seq(Byte), NEW j \in Nat, j + 1 \in 1 .. Len(g)
  PROVE  Append(SubSeq(g, 1, j), g[j + 1]) = SubSeq(g, 1, j + 1)
<1>1. SubSeq(g, 1, j + 1) = SubSeq(g, 1, j) \o <<g[j + 1]>>
  <2>1. /\ 1 \in 1 .. Len(g) /\ j + 1 \in 1 .. Len(g) /\ (j + 1) - 1 = j
    BY LenProperties
  <2> QED
    BY <2>1, SubSeqRecursiveSecond
<1>2. \A m \in 1 .. j : g[m] \in Byte
  BY ElementOfSeq, LenProperties
<1>3. SubSeq(g, 1, j) \in Seq(Byte) /\ g[j + 1] \in Byte
  BY <1>2, SubSeqProperties, ElementOfSeq
<1> QED
  BY <1>1, <1>3, AppendIsConcat

--------------------------------------------------------------------------------
(* Functions that are defined by recursion *)

LEMMA GreatestNatural ==
  ASSUME NEW l \in Nat, NEW T \in SUBSET (0 .. l), T # {}
  PROVE  \E n \in T : \A m \in T : m <= n
<1> DEFINE U == {d \in Nat : \E m \in T : d = l - m}
<1>1. \A m \in T : m \in Nat /\ l - m \in U
  OBVIOUS
<1>2. PICK d \in U : \A e \in U : d <= e
  <2>1. U # {} /\ U \in SUBSET Nat
    BY <1>1
  <2> HIDE DEF U
  <2> QED
    BY <2>1, LeastNatural
<1>3. PICK n \in T : d = l - n
  OBVIOUS
<1>4. ASSUME NEW m \in T PROVE m <= n
  <2>1. l - n <= l - m
    BY <1>1, <1>2, <1>3
  <2> QED
    BY <1>1, <2>1
<1> QED
  BY <1>4

\* FlattenSeq puts one sequence behind the other.
Accumulates(f, seqs, S, k) ==
  /\ f \in [0 .. Len(seqs) -> Seq(S)] /\ f[0] = <<>>
  /\ \A n \in 1 .. k : f[n] = f[n - 1] \o seqs[n]

LEMMA FlattenIs ==
  ASSUME NEW S, NEW seqs \in Seq(Seq(S))
  PROVE  \E f : Accumulates(f, seqs, S, Len(seqs)) /\ FlattenSeq(seqs) = f[Len(seqs)]
<1> DEFINE N == Len(seqs)
<1>0. N \in Nat /\ \A n \in 1 .. N : seqs[n] \in Seq(S)
  BY ElementOfSeq, LenProperties
<1> DEFINE Wrong == {k \in 0 .. N : ~\E f : Accumulates(f, seqs, S, k)}
<1>1. Wrong = {}
  <2> SUFFICES ASSUME Wrong # {} PROVE FALSE
    OBVIOUS
  <2>1. Wrong \in SUBSET Nat
    BY <1>0
  <2>2. PICK k \in Wrong : \A j \in Wrong : k <= j
    BY <2>1, LeastNatural
  <2>3. k \in 0 .. N
    OBVIOUS
  <2>4. CASE k = 0
    <3>1. Accumulates([n \in 0 .. N |-> <<>>], seqs, S, 0)
      BY <1>0, EmptySeq DEF Accumulates
    <3> QED
      BY <2>4, <3>1
  <2>5. CASE k # 0
    <3>1. k - 1 \in 0 .. N /\ k - 1 < k /\ k \in 1 .. N
      BY <1>0, <2>3, <2>5
    <3>2. k - 1 \notin Wrong
      <4>1. ~(k <= k - 1)
        BY <1>0, <2>3
      <4> HIDE DEF Wrong
      <4> QED
        BY <2>2, <4>1
    <3>3. PICK f : Accumulates(f, seqs, S, k - 1)
      BY <3>1, <3>2
    <3> DEFINE g == [f EXCEPT ![k] = f[k - 1] \o seqs[k]]
    <3>4. f[k - 1] \o seqs[k] \in Seq(S)
      BY <1>0, <3>1, <3>3, ConcatProperties DEF Accumulates
    <3>5. g \in [0 .. N -> Seq(S)] /\ g[0] = <<>>
      BY <2>5, <3>3, <3>4 DEF Accumulates
    <3>6. ASSUME NEW n \in 1 .. k PROVE g[n] = g[n - 1] \o seqs[n]
      <4>1. n \in 0 .. N /\ n - 1 \in 0 .. N /\ n - 1 # k
        BY <1>0, <3>1
      <4>2. f \in [0 .. N -> Seq(S)]
        BY <3>3 DEF Accumulates
      <4>3. g[n - 1] = f[n - 1]
        BY <4>1, <4>2
      <4>4. CASE n = k
        BY <4>1, <4>2, <4>3, <4>4
      <4>5. CASE n # k
        <5>1. n \in 1 .. k - 1
          BY <3>1, <4>5
        <5> QED
          BY <3>3, <4>1, <4>2, <4>3, <4>5, <5>1 DEF Accumulates
      <4> QED
        BY <4>4, <4>5
    <3>7. Accumulates(g, seqs, S, k)
      <4> HIDE DEF g
      <4> QED
        BY <3>5, <3>6 DEF Accumulates
    <3> QED
      BY <3>7
  <2> QED
    BY <2>4, <2>5
<1>2. PICK f : Accumulates(f, seqs, S, N)
  BY <1>0, <1>1
<1>3. CASE N = 0
  <2>1. seqs = <<>>
    BY <1>3, EmptySeq
  <2>2. FlattenSeq(seqs) = <<>>
    BY <1>3, <2>1 DEF FlattenSeq
  <2> QED
    BY <1>2, <1>3, <2>2 DEF Accumulates
<1>4. CASE N # 0
  <2> DEFINE body(h) == [n \in 1 .. N |-> IF n = 1 THEN seqs[n] ELSE h[n - 1] \o seqs[n]]
             flatten == CHOOSE h : h = body(h)
             g == [n \in 1 .. N |-> f[n]]
  <2>1. FlattenSeq(seqs) = flatten[N]
    BY <1>4 DEF FlattenSeq
  <2>2. g = body(g)
    <3>1. ASSUME NEW n \in 1 .. N PROVE g[n] = IF n = 1 THEN seqs[n] ELSE g[n - 1] \o seqs[n]
      <4>1. f[n] = f[n - 1] \o seqs[n] /\ f[0] = <<>>
        BY <1>2 DEF Accumulates
      <4>2. CASE n = 1
        <5>0. n - 1 = 0
          BY <4>2
        <5>1. f[n] = <<>> \o seqs[n]
          BY <4>1, <5>0, Zenon
        <5>2. f[n] = seqs[n]
          BY <1>0, <5>1, ConcatEmptySeq
        <5> QED
          BY <4>2, <5>2
      <4>3. CASE n # 1
        <5>1. n - 1 \in 1 .. N
          BY <1>0, <4>3
        <5> QED
          BY <4>1, <4>3, <5>1
      <4> QED
        BY <4>2, <4>3
    <3>2. g = [n \in 1 .. N |-> g[n]]
      OBVIOUS
    <3> HIDE DEF g
    <3> QED
      BY <3>1, <3>2
  <2> HIDE DEF g
  <2>3. flatten = body(flatten)
    <3> HIDE DEF body
    <3> QED
      BY <2>2
  <2> HIDE DEF flatten
  <2>4. \A n \in 1 .. N : flatten[n] = f[n]
    <3> DEFINE Differ == {n \in 1 .. N : flatten[n] # f[n]}
    <3> SUFFICES ASSUME Differ # {} PROVE FALSE
      OBVIOUS
    <3>1. Differ \in SUBSET Nat
      BY <1>0
    <3>2. PICK n \in Differ : \A m \in Differ : n <= m
      BY <3>1, LeastNatural
    <3>3. n \in 1 .. N
      OBVIOUS
    <3>4. flatten[n] = IF n = 1 THEN seqs[n] ELSE flatten[n - 1] \o seqs[n]
      BY <2>3, <3>3
    <3>5. g[n] = IF n = 1 THEN seqs[n] ELSE g[n - 1] \o seqs[n]
      BY <2>2, <3>3
    <3>6. n # 1 => n - 1 \in 1 .. N /\ n - 1 \notin Differ
      BY <1>0, <3>2, <3>3
    <3>7. g[n] = f[n] /\ (n # 1 => g[n - 1] = f[n - 1])
      BY <3>3, <3>6 DEF g
    <3>8. n # 1 => flatten[n - 1] = f[n - 1]
      BY <3>6
    <3> HIDE DEF body
    <3>9. flatten[n] = f[n]
      BY <3>4, <3>5, <3>7, <3>8
    <3> QED
      BY <3>2, <3>9
  <2>5. N \in 1 .. N
    BY <1>0, <1>4
  <2> QED
    BY <1>2, <2>1, <2>4, <2>5
<1> QED
  BY <1>3, <1>4

(***************************************************************************)
(* Unquoted reads a text from its end: f[n] is what the bytes from n on    *)
(* give, and holds for all n from m on.                                    *)
(***************************************************************************)
ReadFrom(f, s, n) == IF n > Len(s) THEN <<>> ELSE <<UnquotedByte(s, n)>> \o f[n + Width(s, n)]
Reads(f, s, m) ==
  /\ f \in [1 .. Len(s) + 3 -> Seq(0 .. 255)]
  /\ \A n \in m .. Len(s) + 3 : f[n] = ReadFrom(f, s, n)

LEMMA ReadFromIs ==
  ASSUME NEW s \in Seq(Byte), NEW n \in 1 .. Len(s) + 3,
         NEW f \in [1 .. Len(s) + 3 -> Seq(0 .. 255)]
  PROVE  /\ ReadFrom(f, s, n) \in Seq(0 .. 255)
         /\ n <= Len(s) => n + Width(s, n) \in n + 1 .. Len(s) + 3
<1>0. Len(s) \in Nat
  BY LenProperties
<1>1. CASE n > Len(s)
  BY <1>0, <1>1, EmptySeq DEF ReadFrom
<1>2. CASE ~(n > Len(s))
  <2>1. n \in 1 .. Len(s)
    BY <1>0, <1>2
  <2>2. PICK w \in {1, 3} : w = Width(s, n) /\ n + w <= Len(s) + 1
    BY <2>1, UnquotedByteIs
  <2>3. n + w \in n + 1 .. Len(s) + 3 /\ n + w \in 1 .. Len(s) + 3
    BY <1>0, <2>1, <2>2
  <2>4. <<UnquotedByte(s, n)>> \in Seq(0 .. 255)
    <3>1. UnquotedByte(s, n) \in 0 .. 255
      BY <2>1, UnquotedByteIs
    <3> QED
      BY <3>1
  <2>5. f[n + w] \in Seq(0 .. 255)
    BY <2>3
  <2> QED
    BY <1>2, <2>2, <2>3, <2>4, <2>5, ConcatProperties DEF ReadFrom
<1> QED
  BY <1>1, <1>2

LEMMA UnquotedIs ==
  ASSUME NEW s \in Seq(Byte)
  PROVE  \E f : Reads(f, s, 1) /\ Unquoted(s) = CString(f[1])
<1> DEFINE N == Len(s) + 3
<1>0. N \in Nat /\ N >= 3 /\ Len(s) \in Nat
  BY LenProperties
<1> DEFINE Wrong == {m \in 0 .. N : ~\E f : Reads(f, s, m + 1)}
<1>1. Wrong = {}
  <2> SUFFICES ASSUME Wrong # {} PROVE FALSE
    OBVIOUS
  <2>1. Wrong \in SUBSET (0 .. N)
    OBVIOUS
  <2>2. PICK m \in Wrong : \A k \in Wrong : k <= m
    BY <1>0, <2>1, GreatestNatural
  <2>3. m \in 0 .. N
    OBVIOUS
  <2>4. CASE m = N
    <3>1. [n \in 1 .. N |-> <<>>] \in [1 .. N -> Seq(0 .. 255)]
      BY EmptySeq
    <3>2. m + 1 .. N = {}
      BY <1>0, <2>4
    <3>3. Reads([n \in 1 .. N |-> <<>>], s, m + 1)
      BY <3>1, <3>2, Zenon DEF Reads
    <3> QED
      BY <2>2, <3>3
  <2>5. CASE m # N
    <3>1. m + 1 \in 0 .. N /\ ~(m + 1 <= m) /\ m + 1 \in 1 .. N
      BY <1>0, <2>3, <2>5
    <3>2. m + 1 \notin Wrong
      <4> HIDE DEF Wrong
      <4> QED
        BY <2>2, <3>1
    <3>3. PICK f : Reads(f, s, (m + 1) + 1)
      BY <3>1, <3>2
    <3> DEFINE v == ReadFrom(f, s, m + 1)
               g == [f EXCEPT ![m + 1] = v]
    <3>4. f \in [1 .. N -> Seq(0 .. 255)]
      BY <3>3 DEF Reads
    <3>5. v \in Seq(0 .. 255)
      BY <3>1, <3>4, ReadFromIs
    <3> HIDE DEF v
    <3>6. g \in [1 .. N -> Seq(0 .. 255)] /\ g[m + 1] = v
          /\ \A n \in 1 .. N : n # m + 1 => g[n] = f[n]
      BY <3>1, <3>4, <3>5
    <3> HIDE DEF g
    <3>7. ASSUME NEW n \in m + 1 .. N PROVE g[n] = ReadFrom(g, s, n)
      <4>1. n \in 1 .. N
        BY <2>3
      <4>2. n <= Len(s) => n + Width(s, n) \in n + 1 .. N
        BY <3>4, <4>1, ReadFromIs
      <4>3. n <= Len(s) => g[n + Width(s, n)] = f[n + Width(s, n)]
        BY <2>3, <3>6, <4>1, <4>2
      <4>4. ReadFrom(g, s, n) = ReadFrom(f, s, n)
        <5>1. ~(n > Len(s)) => n <= Len(s)
          BY <1>0, <4>1
        <5> QED
          BY <4>3, <5>1, Zenon DEF ReadFrom
      <4>5. CASE n = m + 1
        BY <3>6, <4>4, <4>5 DEF v
      <4>6. CASE n # m + 1
        <5>1. n \in (m + 1) + 1 .. N
          BY <2>3, <4>6
        <5> QED
          BY <3>3, <3>6, <4>1, <4>4, <4>6, <5>1 DEF Reads
      <4> QED
        BY <4>5, <4>6
    <3>8. Reads(g, s, m + 1)
      BY <3>6, <3>7 DEF Reads
    <3> QED
      BY <2>2, <3>8
  <2> QED
    BY <2>4, <2>5
<1>2. PICK g : Reads(g, s, 1)
  <2>1. 0 \notin Wrong /\ 0 \in 0 .. N
    BY <1>0, <1>1
  <2> QED
    BY <2>1
<1> DEFINE body(h) == [n \in 1 .. N |-> ReadFrom(h, s, n)]
           from == CHOOSE h : h = body(h)
<1>3. Unquoted(s) = CString(from[1])
  BY DEF Unquoted, ReadFrom
<1>4. g = body(g)
  <2>1. g \in [1 .. N -> Seq(0 .. 255)] /\ \A n \in 1 .. N : g[n] = ReadFrom(g, s, n)
    BY <1>2 DEF Reads
  <2> QED
    BY <2>1
<1>5. from = body(from)
  <2> HIDE DEF body
  <2> QED
    BY <1>4
<1> HIDE DEF from
<1>6. \A n \in 1 .. N : from[n] = ReadFrom(from, s, n)
  <2> DEFINE r(n) == ReadFrom(from, s, n)
  <2>1. from = [n \in 1 .. N |-> r(n)]
    BY <1>5
  <2> HIDE DEF r
  <2>2. \A n \in 1 .. N : from[n] = r(n)
    BY <2>1
  <2> QED
    BY <2>2 DEF r
<1>7. \A n \in 1 .. N : from[n] = g[n]
  <2> DEFINE Differ == {n \in 1 .. N : from[n] # g[n]}
  <2> SUFFICES ASSUME Differ # {} PROVE FALSE
    OBVIOUS
  <2>1. Differ \in SUBSET (0 .. N)
    OBVIOUS
  <2>2. PICK n \in Differ : \A m \in Differ : m <= n
    BY <1>0, <2>1, GreatestNatural
  <2>3. n \in 1 .. N /\ from[n] # g[n]
    OBVIOUS
  <2>4. g \in [1 .. N -> Seq(0 .. 255)] /\ g[n] = ReadFrom(g, s, n)
    BY <1>2, <2>3 DEF Reads
  <2>5. n <= Len(s) => n + Width(s, n) \in n + 1 .. N
    BY <2>3, <2>4, ReadFromIs
  <2>6. n <= Len(s) => from[n + Width(s, n)] = g[n + Width(s, n)]
    <3> SUFFICES ASSUME n <= Len(s) PROVE from[n + Width(s, n)] = g[n + Width(s, n)]
      OBVIOUS
    <3>1. PICK k \in n + 1 .. N : k = n + Width(s, n)
      BY <2>5
    <3>2. k \in 1 .. N /\ ~(k <= n)
      BY <2>3
    <3>3. k \notin Differ
      <4> HIDE DEF Differ
      <4> QED
        BY <2>2, <3>2
    <3> QED
      BY <3>1, <3>2, <3>3
  <2>7. ReadFrom(from, s, n) = ReadFrom(g, s, n)
    <3>1. ~(n > Len(s)) => n <= Len(s)
      BY <1>0, <2>3
    <3> QED
      BY <2>6, <3>1, Zenon DEF ReadFrom
  <2> QED
    BY <1>6, <2>3, <2>4, <2>7
<1>8. from[1] = g[1]
  BY <1>0, <1>7
<1> QED
  BY <1>2, <1>3, <1>8

\* What unquote_plus returns is a C string.
LEMMA UnquotedText ==
  ASSUME NEW s \in Seq(Byte)
  PROVE  Unquoted(s) \in Seq(Byte)
<1>1. PICK f : Reads(f, s, 1) /\ Unquoted(s) = CString(f[1])
  BY UnquotedIs
<1>2. 1 \in 1 .. Len(s) + 3
  BY LenProperties
<1>3. f[1] \in Seq(0 .. 255)
  BY <1>1, <1>2 DEF Reads
<1> QED
  BY <1>1, <1>3, CStringIs

\* It undoes the encoding.
LEMMA UnquotedBack ==
  ASSUME NEW t \in Seq(Byte), NEW g \in Seq(Byte), NEW p, IsCoding(p, t, g, Len(g))
  PROVE  Unquoted(t) = g
<1> DEFINE L == Len(g)
<1>0. L \in Nat /\ Len(t) \in Nat
  BY LenProperties
<1>1. p \in [0 .. L -> 0 .. Len(t)] /\ p[0] = 0 /\ p[L] = Len(t)
  BY DEF IsCoding
<1>2. PICK f : Reads(f, t, 1) /\ Unquoted(t) = CString(f[1])
  BY UnquotedIs
<1> DEFINE Wrong == {j \in 0 .. L : f[p[j] + 1] # SubSeq(g, j + 1, L)}
<1>3. Wrong = {}
  <2> SUFFICES ASSUME Wrong # {} PROVE FALSE
    OBVIOUS
  <2>1. Wrong \in SUBSET (0 .. L)
    OBVIOUS
  <2>2. PICK j \in Wrong : \A k \in Wrong : k <= j
    BY <1>0, <2>1, GreatestNatural
  <2>3. j \in 0 .. L /\ f[p[j] + 1] # SubSeq(g, j + 1, L)
    OBVIOUS
  <2>4. p[j] \in 0 .. Len(t) /\ p[j] + 1 \in 1 .. Len(t) + 3
    <3>1. p[j] \in 0 .. Len(t)
      BY <1>1, <2>3
    <3> QED
      BY <1>0, <3>1, SMTT(30)
  <2>5. f[p[j] + 1] = ReadFrom(f, t, p[j] + 1)
    BY <1>2, <2>4 DEF Reads
  <2>6. CASE j = L
    <3>1. p[j] + 1 > Len(t)
      BY <1>0, <1>1, <2>6
    <3>2. f[p[j] + 1] = <<>>
      BY <2>5, <3>1 DEF ReadFrom
    <3>3. SubSeq(g, j + 1, L) = <<>>
      <4>1. j + 1 \in Int /\ L \in Int /\ L < j + 1
        BY <1>0, <2>6
      <4> QED
        BY <4>1, SubSeqEmpty
    <3> QED
      BY <2>3, <3>2, <3>3
  <2>7. CASE j # L
    <3>1. j + 1 \in 1 .. L /\ (j + 1) - 1 = j /\ j + 1 \in 0 .. L /\ ~(j + 1 <= j)
      BY <1>0, <2>3, <2>7
    <3>2. p[j] < Len(t)
      <4>1. p[j + 1] = p[j] + Len(QuotedByte(g[j + 1]))
        BY <3>1 DEF IsCoding, Coded
      <4>2. Len(QuotedByte(g[j + 1])) \in {1, 3}
        BY <3>1, ElementOfSeq, QuotedByteClean
      <4>3. p[j + 1] \in 0 .. Len(t)
        BY <1>1, <3>1
      <4>4. PICK z \in {1, 3} : z = Len(QuotedByte(g[j + 1]))
        BY <4>2
      <4>5. p[j] + z <= Len(t)
        BY <4>1, <4>3, <4>4
      <4>6. \A x, y \in Nat, w \in {1, 3} : x + w <= y => x < y
        OBVIOUS
      <4>7. p[j] \in Nat
        BY <2>4
      <4> QED
        BY <1>0, <4>5, <4>6, <4>7, Zenon
    <3>3. /\ UnquotedByte(t, p[j] + 1) = g[j + 1]
          /\ p[j] + Width(t, p[j] + 1) = p[j + 1]
      BY <2>3, <3>2, CodingRead
    <3>4. (p[j] + 1) + Width(t, p[j] + 1) = p[j + 1] + 1
      <4>1. p[j] + 1 \in 1 .. Len(t)
        BY <1>0, <2>4, <3>2
      <4>2. PICK w \in {1, 3} : w = Width(t, p[j] + 1)
        BY <4>1, UnquotedByteIs
      <4> QED
        BY <2>4, <3>3, <4>2
    <3>5. ~(p[j] + 1 > Len(t))
      BY <1>0, <2>4, <3>2
    <3>6. f[p[j] + 1] = <<g[j + 1]>> \o f[p[j + 1] + 1]
      BY <2>5, <3>3, <3>4, <3>5, Zenon DEF ReadFrom
    <3>7. f[p[j + 1] + 1] = SubSeq(g, (j + 1) + 1, L)
      <4>1. j + 1 \notin Wrong
        <5> HIDE DEF Wrong
        <5> QED
          BY <2>2, <3>1
      <4> QED
        BY <3>1, <4>1
    <3>8. SubSeq(g, j + 1, L) = <<g[j + 1]>> \o SubSeq(g, (j + 1) + 1, L)
      <4>1. L \in j + 1 .. L
        BY <1>0, <3>1
      <4> QED
        BY <3>1, <4>1, SubSeqRecursiveFirst
    <3> QED
      BY <2>3, <3>6, <3>7, <3>8
  <2> QED
    BY <2>6, <2>7
<1>4. f[p[0] + 1] = SubSeq(g, 0 + 1, L)
  <2>1. 0 \in 0 .. L
    BY <1>0
  <2> QED
    BY <1>3, <2>1
<1>5. f[1] = g
  <2>1. p[0] + 1 = 1 /\ 0 + 1 = 1
    BY <1>1
  <2> QED
    BY <1>4, <2>1, SubSeqFull
<1> QED
  BY <1>2, <1>5, CStringWhole

--------------------------------------------------------------------------------
(* Tokens *)

LEMMA MinIs ==
  ASSUME NEW S \in SUBSET Nat, S # {}
  PROVE  Min(S) \in S /\ \A n \in S : Min(S) <= n
<1>1. \E n \in S : \A m \in S : n <= m
  BY LeastNatural
<1> QED
  BY <1>1 DEF Min

LEMMA LeastIsMin ==
  ASSUME NEW S \in SUBSET Nat, NEW n \in S, \A m \in S : n <= m
  PROVE  Min(S) = n
<1>1. Min(S) \in S /\ Min(S) <= n
  BY MinIs
<1>2. n <= Min(S) /\ n \in Nat /\ Min(S) \in Nat
  BY <1>1
<1> QED
  BY <1>1, <1>2

LEMMA TokenStopIs ==
  ASSUME NEW s \in Seq(Byte), NEW n \in 1 .. Len(s)
  PROVE  /\ TokenStop(s, n) \in n .. Len(s) + 1
         /\ \A m \in n .. TokenStop(s, n) - 1 : s[m] # Amp
<1> DEFINE S == {m \in n .. Len(s) + 1 : m = Len(s) + 1 \/ s[m] = Amp}
<1>0. Len(s) \in Nat /\ n \in Nat
  BY LenProperties
<1>1. S \in SUBSET Nat /\ Len(s) + 1 \in S
  BY <1>0
<1>2. TokenStop(s, n) = Min(S)
  BY DEF TokenStop
<1>3. S \subseteq n .. Len(s) + 1
  OBVIOUS
<1>4. \A m \in n .. Len(s) + 1 : s[m] = Amp => m \in S
  OBVIOUS
<1> HIDE DEF S
<1>5. Min(S) \in S /\ \A m \in S : Min(S) <= m
  BY <1>1, MinIs
<1>6. Min(S) \in n .. Len(s) + 1
  BY <1>3, <1>5
<1>7. ASSUME NEW m \in n .. Min(S) - 1 PROVE s[m] # Amp
  <2>1. m \in n .. Len(s) + 1 /\ ~(Min(S) <= m)
    BY <1>0, <1>6
  <2> QED
    BY <1>4, <1>5, <2>1
<1> QED
  BY <1>2, <1>6, <1>7

\* No token is empty, and none holds an Amp.
LEMMA TokensAre ==
  ASSUME NEW s \in Seq(Byte)
  PROVE  Tokens(s) \in Seq(Seq(Byte \ {Amp}) \ {<<>>})
<1> DEFINE S == TokenStarts(s)  N == Len(InOrder(S))
<1>0. Len(s) \in Nat /\ DOMAIN s = 1 .. Len(s)
  BY LenProperties
<1>1. S \in SUBSET (1 .. Len(s)) /\ \A n \in S : s[n] # Amp
  BY <1>0 DEF TokenStarts
<1> HIDE DEF S
<1>2. InOrder(S) \in Seq(S) /\ N \in Nat
  BY <1>0, <1>1, InOrderIs, LenProperties
<1>3. ASSUME NEW k \in 1 .. N
      PROVE  SubSeq(s, InOrder(S)[k], TokenStop(s, InOrder(S)[k]) - 1) \in Seq(Byte \ {Amp}) \ {<<>>}
  <2>1. PICK n \in S : n = InOrder(S)[k]
    BY <1>2, ElementOfSeq
  <2>2. n \in 1 .. Len(s) /\ s[n] # Amp
    BY <1>1
  <2>3. PICK e : e = TokenStop(s, n) /\ e \in n .. Len(s) + 1 /\ \A m \in n .. e - 1 : s[m] # Amp
    BY <2>2, TokenStopIs
  <2>4. e # n
    <3>1. e = n => e = Len(s) + 1 \/ s[e] = Amp
      <4> DEFINE T == {m \in n .. Len(s) + 1 : m = Len(s) + 1 \/ s[m] = Amp}
      <4>1. T \in SUBSET Nat /\ Len(s) + 1 \in T
        BY <1>0, <2>2
      <4>2. Min(T) \in T
        BY <4>1, MinIs
      <4>3. e = Min(T)
        BY <2>3 DEF TokenStop
      <4> QED
        BY <4>2, <4>3
    <3> QED
      BY <1>0, <2>2, <3>1
  <2>5. n \in Int /\ e - 1 \in Int /\ n <= e - 1 /\ e - 1 <= Len(s)
    BY <1>0, <2>2, <2>3, <2>4
  <2>6. \A m \in n .. e - 1 : s[m] \in Byte \ {Amp}
    <3> TAKE m \in n .. e - 1
    <3>1. m \in 1 .. Len(s) /\ s[m] # Amp
      BY <1>0, <2>2, <2>3, <2>5
    <3> QED
      BY <3>1, ElementOfSeq
  <2>7. SubSeq(s, n, e - 1) \in Seq(Byte \ {Amp}) /\ Len(SubSeq(s, n, e - 1)) = (e - 1) - n + 1
    BY <2>5, <2>6, SubSeqProperties
  <2>8. Len(SubSeq(s, n, e - 1)) > 0
    BY <2>5, <2>7
  <2>9. SubSeq(s, n, e - 1) # <<>>
    <3>1. PICK w : w = SubSeq(s, n, e - 1)
      OBVIOUS
    <3>2. Len(<<>>) = 0
      OBVIOUS
    <3>3. ~(0 > 0)
      OBVIOUS
    <3> QED
      BY <2>8, <3>1, <3>2, <3>3, Zenon
  <2> QED
    BY <2>1, <2>3, <2>7, <2>9
<1> DEFINE tok(k) == SubSeq(s, InOrder(S)[k], TokenStop(s, InOrder(S)[k]) - 1)
<1>4. Tokens(s) = [k \in 1 .. N |-> tok(k)]
  BY DEF Tokens, S
<1>5. \A k \in 1 .. N : tok(k) \in Seq(Byte \ {Amp}) \ {<<>>}
  BY <1>3
<1> HIDE DEF tok
<1>6. [k \in 1 .. N |-> tok(k)] \in [1 .. N -> Seq(Byte \ {Amp}) \ {<<>>}]
  BY <1>5
<1> HIDE DEF N
<1> QED
  BY <1>2, <1>4, <1>6

(***************************************************************************)
(* t is the tokens tok with an Amp between each and the next: the first k  *)
(* of them, with the Amps between them, are its first p[k] bytes.          *)
(***************************************************************************)
Gap(k) == IF k > 1 THEN 1 ELSE 0

Joins(p, t, tok) ==
  /\ tok \in Seq(Seq(Byte \ {Amp}) \ {<<>>})
  /\ p \in [0 .. Len(tok) -> Nat]
  /\ p[0] = 0 /\ p[Len(tok)] = Len(t)
  /\ \A k \in 1 .. Len(tok) :
       /\ p[k] = p[k - 1] + Gap(k) + Len(tok[k])
       /\ k > 1 => t[p[k - 1] + 1] = Amp
       /\ \A m \in 1 .. Len(tok[k]) : t[p[k - 1] + Gap(k) + m] = tok[k][m]

\* A function on numbers that grows at every step grows from each to each higher.
LEMMA StepsGrow ==
  ASSUME NEW n \in Nat, NEW p \in [0 .. n -> Nat], \A k \in 1 .. n : p[k - 1] < p[k]
  PROVE  \A j, k \in 0 .. n : j < k => p[j] < p[k]
<1> SUFFICES ASSUME NEW j \in 0 .. n PROVE \A k \in 0 .. n : j < k => p[j] < p[k]
  OBVIOUS
<1> DEFINE Wrong == {k \in 0 .. n : j < k /\ ~(p[j] < p[k])}
<1> SUFFICES ASSUME Wrong # {} PROVE FALSE
  OBVIOUS
<1>1. Wrong \in SUBSET Nat
  OBVIOUS
<1>2. PICK k \in Wrong : \A m \in Wrong : k <= m
  BY <1>1, LeastNatural
<1>3. k \in 0 .. n /\ j < k /\ ~(p[j] < p[k])
  OBVIOUS
<1>4. k - 1 \in 0 .. n /\ k \in 1 .. n /\ ~(k <= k - 1) /\ (j < k - 1 \/ j = k - 1)
  BY <1>3
<1>5. k - 1 \notin Wrong
  <2> HIDE DEF Wrong
  <2> QED
    BY <1>2, <1>4
<1>6. p[k - 1] < p[k] /\ p[j] \in Nat /\ p[k - 1] \in Nat /\ p[k] \in Nat
  BY <1>3, <1>4
<1>7. j < k - 1 => p[j] < p[k - 1]
  BY <1>4, <1>5
<1> QED
  BY <1>3, <1>4, <1>6, <1>7

\* What a join says of its k-th token: it starts after a bytes and a gap of g, takes
\* up L, lies in the text and is followed by an Amp or by nothing.
JoinsAt(p, t, tok, k, a, g, L) ==
  /\ p[k - 1] = a /\ p[k] = a + g + L /\ a + g + L <= Len(t)
  /\ Gap(k) = g /\ Len(tok[k]) = L
  /\ g = 0 => k = 1 /\ a = 0
  /\ g = 1 => k > 1 /\ t[a + 1] = Amp
  /\ \A m \in 1 .. L : t[a + g + m] = tok[k][m] /\ tok[k][m] # Amp
  /\ a + g + L = Len(t) \/ t[a + g + L + 1] = Amp

LEMMA JoinToken ==
  ASSUME NEW t \in Seq(Byte), NEW tok, NEW p, Joins(p, t, tok), NEW k \in 1 .. Len(tok)
  PROVE  \E a \in Nat, g \in {0, 1}, L \in Nat \ {0} : JoinsAt(p, t, tok, k, a, g, L)
<1> DEFINE N == Len(tok)
<1>0. N \in Nat /\ tok \in Seq(Seq(Byte \ {Amp}) \ {<<>>}) /\ p \in [0 .. N -> Nat]
      /\ p[0] = 0 /\ p[N] = Len(t)
  BY LenProperties DEF Joins
<1>1. \A j \in 1 .. N :
        /\ p[j] = p[j - 1] + Gap(j) + Len(tok[j])
        /\ j > 1 => t[p[j - 1] + 1] = Amp
        /\ \A m \in 1 .. Len(tok[j]) : t[p[j - 1] + Gap(j) + m] = tok[j][m]
  BY DEF Joins
<1>2. ASSUME NEW j \in 1 .. N
      PROVE  /\ tok[j] \in Seq(Byte \ {Amp}) /\ Len(tok[j]) \in Nat \ {0}
             /\ p[j - 1] \in Nat /\ p[j] \in Nat /\ p[j - 1] < p[j]
  <2>1. tok[j] \in Seq(Byte \ {Amp}) /\ tok[j] # <<>>
    BY <1>0, ElementOfSeq
  <2>2. Len(tok[j]) \in Nat /\ Len(tok[j]) # 0
    BY <2>1, EmptySeq, LenProperties
  <2>3. j - 1 \in 0 .. N /\ j \in 0 .. N
    BY <1>0
  <2>4. p[j - 1] \in Nat /\ p[j] \in Nat
    BY <1>0, <2>3
  <2>5. Gap(j) \in Nat
    BY DEF Gap
  <2> QED
    BY <1>1, <2>1, <2>2, <2>4, <2>5, SMTT(30)
<1> HIDE DEF N
<1>3. k \in 1 .. N
  BY DEF N
<1>4. p[k] <= Len(t)
  <2>1. \A i, j \in 0 .. N : i < j => p[i] < p[j]
    BY <1>0, <1>2, StepsGrow
  <2>2. k \in 0 .. N /\ N \in 0 .. N /\ (k = N \/ k < N)
    BY <1>0, <1>3
  <2>3. k < N => p[k] < p[N]
    BY <2>1, <2>2
  <2>4. p[k] \in Nat /\ p[N] \in Nat
    BY <1>0, <2>2
  <2> QED
    BY <1>0, <2>2, <2>3, <2>4
<1>5. p[k] = Len(t) \/ t[p[k] + 1] = Amp
  <2>1. CASE k = N
    BY <1>0, <2>1
  <2>2. CASE k # N
    <3>1. k + 1 \in 1 .. N /\ k + 1 > 1 /\ (k + 1) - 1 = k
      BY <1>0, <1>3, <2>2
    <3> QED
      BY <1>1, <3>1
  <2> QED
    BY <2>1, <2>2
<1>6. \A m \in 1 .. Len(tok[k]) : tok[k][m] # Amp
  <2> TAKE m \in 1 .. Len(tok[k])
  <2>1. tok[k] \in Seq(Byte \ {Amp})
    BY <1>2, <1>3
  <2>2. tok[k][m] \in Byte \ {Amp}
    BY <2>1, ElementOfSeq
  <2> QED
    BY <2>2
<1>7. Gap(k) = IF k > 1 THEN 1 ELSE 0
  BY DEF Gap
<1>8. PICK a \in Nat, g \in {0, 1}, L \in Nat \ {0} :
        /\ a = p[k - 1] /\ g = Gap(k) /\ L = Len(tok[k]) /\ p[k] = a + g + L
  BY <1>1, <1>2, <1>3, <1>7
<1>9. g = 0 => k = 1 /\ a = 0
  <2>1. g = 0 => k = 1
    BY <1>0, <1>3, <1>7, <1>8
  <2>2. k = 1 => k - 1 = 0
    OBVIOUS
  <2> QED
    BY <1>0, <1>8, <2>1, <2>2
<1>10. g = 1 => k > 1 /\ t[a + 1] = Amp
  <2>1. g = 1 => k > 1
    BY <1>7, <1>8
  <2> QED
    BY <1>1, <1>3, <1>8, <2>1
<1>11. \A m \in 1 .. L : t[a + g + m] = tok[k][m] /\ tok[k][m] # Amp
  BY <1>1, <1>3, <1>6, <1>8, Zenon
<1>12. a + g + L <= Len(t) /\ (a + g + L = Len(t) \/ t[a + g + L + 1] = Amp)
  BY <1>4, <1>5, <1>8, Zenon
<1>13. JoinsAt(p, t, tok, k, a, g, L)
  BY <1>8, <1>9, <1>10, <1>11, <1>12, Zenon DEF JoinsAt
<1> QED
  BY <1>13

\* The tokens of a join are what was joined.
LEMMA JoinTakenApart ==
  ASSUME NEW t \in Seq(Byte), NEW tok, NEW p, Joins(p, t, tok)
  PROVE  Tokens(t) = tok
<1> DEFINE N == Len(tok)
           S == TokenStarts(t)
           F == [k \in 1 .. N |-> p[k - 1] + Gap(k) + 1]
<1>0. /\ N \in Nat /\ tok \in Seq(Seq(Byte \ {Amp}) \ {<<>>})
      /\ Len(t) \in Nat /\ DOMAIN t = 1 .. Len(t)
      /\ p \in [0 .. N -> Nat] /\ p[0] = 0 /\ p[N] = Len(t)
  BY LenProperties DEF Joins
<1>1. S \in SUBSET (1 .. Len(t))
  BY <1>0 DEF TokenStarts
<1>2. \A m \in 1 .. Len(t) : m \in S <=> (t[m] # Amp /\ (m = 1 \/ t[m - 1] = Amp))
  BY <1>0 DEF TokenStarts
<1>3. \A k \in 1 .. N : Gap(k) = (IF k > 1 THEN 1 ELSE 0)
  BY DEF Gap
<1>4. \A k \in 1 .. N : F[k] = p[k - 1] + Gap(k) + 1
  OBVIOUS
<1>5. \A j, k \in 0 .. N : j < k => p[j] < p[k]
  <2>1. ASSUME NEW j \in 1 .. N PROVE p[j - 1] < p[j]
    <3>1. PICK a \in Nat, g \in {0, 1}, L \in Nat \ {0} : JoinsAt(p, t, tok, j, a, g, L)
      BY JoinToken
    <3>2. p[j - 1] = a /\ p[j] = a + g + L
      BY <3>1, Zenon DEF JoinsAt
    <3> QED
      BY <3>2
  <2> QED
    BY <1>0, <2>1, StepsGrow
<1> HIDE DEF S, F, N
<1>6. ASSUME NEW k \in 1 .. N
      PROVE  \E a \in Nat, g \in {0, 1}, L \in Nat \ {0} :
               JoinsAt(p, t, tok, k, a, g, L) /\ F[k] = a + g + 1
  <2>1. PICK a \in Nat, g \in {0, 1}, L \in Nat \ {0} : JoinsAt(p, t, tok, k, a, g, L)
    BY JoinToken DEF N
  <2>2. a = p[k - 1] /\ g = Gap(k)
    BY <2>1, Zenon DEF JoinsAt
  <2> QED
    BY <1>4, <2>1, <2>2, Zenon
<1>7. ASSUME NEW k \in 1 .. N PROVE F[k] \in S
  <2>1. PICK a \in Nat, g \in {0, 1}, L \in Nat \ {0} :
          JoinsAt(p, t, tok, k, a, g, L) /\ F[k] = a + g + 1
    BY <1>6
  <2>2. F[k] \in 1 .. Len(t) /\ 1 \in 1 .. L
    <3>1. a + g + L <= Len(t) /\ Len(t) \in Nat
      BY <1>0, <2>1, Zenon DEF JoinsAt
    <3> QED
      BY <2>1, <3>1
  <2>3. t[a + g + 1] # Amp
    BY <2>1, <2>2 DEF JoinsAt
  <2>4. a + g + 1 = 1 \/ t[(a + g + 1) - 1] = Amp
    <3>1. CASE g = 1
      <4>1. (a + g + 1) - 1 = a + 1
        BY <3>1
      <4> QED
        BY <2>1, <3>1, <4>1 DEF JoinsAt
    <3>2. CASE g = 0
      <4>2. a = 0
        BY <2>1, <3>2 DEF JoinsAt
      <4> QED
        BY <3>2, <4>2
    <3> QED
      BY <3>1, <3>2
  <2> QED
    BY <1>2, <2>1, <2>2, <2>3, <2>4
<1>8. ASSUME NEW j \in 1 .. N, NEW k \in 1 .. N, j < k PROVE F[j] < F[k]
  <2>1. PICK a \in Nat, g \in {0, 1}, L \in Nat \ {0} :
          JoinsAt(p, t, tok, j, a, g, L) /\ F[j] = a + g + 1
    BY <1>6
  <2>2. PICK b \in Nat, h \in {0, 1}, M \in Nat \ {0} :
          JoinsAt(p, t, tok, k, b, h, M) /\ F[k] = b + h + 1
    BY <1>6
  <2>3. p[j] = a + g + L /\ p[k - 1] = b
    BY <2>1, <2>2, Zenon DEF JoinsAt
  <2>4. j \in 0 .. N /\ k - 1 \in 0 .. N /\ (j = k - 1 \/ j < k - 1)
    BY <1>0, <1>8
  <2>5. p[j] <= p[k - 1]
    <3>1. j < k - 1 => p[j] < p[k - 1]
      BY <1>5, <2>4
    <3> QED
      BY <2>3, <2>4, <3>1
  <2> QED
    BY <2>1, <2>2, <2>3, <2>5
<1>9. ASSUME NEW m \in S PROVE \E k \in 1 .. N : F[k] = m
  <2>1. m \in 1 .. Len(t) /\ t[m] # Amp /\ (m = 1 \/ t[m - 1] = Amp)
    BY <1>1, <1>2
  <2> DEFINE T == {k \in 0 .. N : m <= p[k]}
  <2>2. T \in SUBSET Nat /\ N \in T
    BY <1>0, <2>1
  <2>3. PICK k \in T : \A j \in T : k <= j
    BY <2>2, LeastNatural
  <2>4. k \in 0 .. N /\ m <= p[k] /\ k \in Nat
    BY <1>0
  <2>5. k # 0
    BY <1>0, <2>1, <2>4
  <2>6. k \in 1 .. N /\ k - 1 \in 0 .. N /\ ~(k <= k - 1)
    <3>1. N \in Nat
      BY <1>0
    <3> QED
      BY <2>4, <2>5, <3>1
  <2>7. k - 1 \notin T
    <3> HIDE DEF T
    <3> QED
      BY <2>3, <2>6
  <2>8. ~(m <= p[k - 1])
    BY <2>6, <2>7
  <2>9. PICK a \in Nat, g \in {0, 1}, L \in Nat \ {0} :
          JoinsAt(p, t, tok, k, a, g, L) /\ F[k] = a + g + 1
    BY <1>6, <2>6
  <2>10. a = p[k - 1] /\ p[k] = a + g + L
    BY <2>9, Zenon DEF JoinsAt
  <2>11. m \in Nat /\ a + 1 <= m /\ m <= a + g + L
    BY <2>1, <2>4, <2>8, <2>9, <2>10
  <2>12. m # a + g
    <3>1. g = 1 => t[a + 1] = Amp
      BY <2>9 DEF JoinsAt
    <3>2. m = a + g => g = 1 /\ m = a + 1
      BY <2>11
    <3> QED
      BY <2>1, <3>1, <3>2
  <2>13. PICK i \in 1 .. L : m = a + g + i
    <3>1. \A x, y \in Nat, z \in {0, 1} :
            x + 1 <= y /\ y <= x + z + L /\ y # x + z => \E i \in 1 .. L : y = x + z + i
      <4> TAKE x, y \in Nat, z \in {0, 1}
      <4> HAVE x + 1 <= y /\ y <= x + z + L /\ y # x + z
      <4>1. y - (x + z) \in 1 .. L /\ y = x + z + (y - (x + z))
        OBVIOUS
      <4> QED
        BY <4>1
    <3> QED
      BY <2>11, <2>12, <3>1
  <2>14. i = 1
    <3>1. i # 1 => i - 1 \in 1 .. L /\ m - 1 = a + g + (i - 1) /\ m # 1
      BY <2>13
    <3>2. \A n \in 1 .. L : t[a + g + n] # Amp
      BY <2>9, Zenon DEF JoinsAt
    <3> QED
      BY <2>1, <3>1, <3>2
  <2> QED
    BY <2>6, <2>9, <2>13, <2>14
<1>10. F \in [1 .. N -> S]
  <2>1. F = [k \in 1 .. N |-> F[k]]
    BY DEF F
  <2> QED
    BY <1>7, <2>1
<1>11. InOrder(S) = F
  <2>1. \A m \in S : \E k \in 1 .. N : F[k] = m
    BY <1>9
  <2>2. \A j, k \in 1 .. N : j < k => F[j] < F[k]
    BY <1>8
  <2> QED
    BY <1>0, <1>1, <1>10, <2>1, <2>2, InOrderOnly
<1>12. ASSUME NEW k \in 1 .. N PROVE SubSeq(t, F[k], TokenStop(t, F[k]) - 1) = tok[k]
  <2>1. PICK a \in Nat, g \in {0, 1}, L \in Nat \ {0} :
          JoinsAt(p, t, tok, k, a, g, L) /\ F[k] = a + g + 1
    BY <1>6
  <2>2. /\ \A i \in 1 .. L : t[a + g + i] = tok[k][i] /\ t[a + g + i] # Amp
        /\ a + g + L <= Len(t) /\ Len(tok[k]) = L
        /\ a + g + L = Len(t) \/ t[a + g + L + 1] = Amp
    BY <2>1, ZenonT(40) DEF JoinsAt
  <2>3. PICK n \in 1 .. Len(t), b \in 1 .. Len(t) :
          n = F[k] /\ n = a + g + 1 /\ b = a + g + L
    <3>1. F[k] \in 1 .. Len(t) /\ a + g + L \in 1 .. Len(t)
      <4>1. Len(t) \in Nat /\ F[k] = a + g + 1 /\ a + g + L <= Len(t)
        BY <1>0, <2>1, <2>2
      <4>2. \A x, l, m \in Nat : l # 0 /\ x + l <= m => x + 1 \in 1 .. m /\ x + l \in 1 .. m
        OBVIOUS
      <4>3. a + g \in Nat /\ L \in Nat /\ L # 0
        OBVIOUS
      <4> HIDE DEF F, N, S
      <4> QED
        BY ONLY <4>1, <4>2, <4>3
    <3> QED
      BY <2>1, <3>1
  <2>4. TokenStop(t, n) = b + 1
    <3> DEFINE T == {m \in n .. Len(t) + 1 : m = Len(t) + 1 \/ t[m] = Amp}
    <3>1. b = Len(t) \/ t[b + 1] = Amp
      BY <2>2, <2>3, Zenon
    <3>2. T \in SUBSET Nat /\ b + 1 \in T
      <4>1. b + 1 \in n .. Len(t) + 1
        BY <1>0, <2>3
      <4>2. b + 1 = Len(t) + 1 \/ t[b + 1] = Amp
        BY <3>1
      <4> QED
        BY <4>1, <4>2
    <3>3. ASSUME NEW m \in T PROVE b + 1 <= m
      <4>1. m \in n .. Len(t) + 1 /\ (m = Len(t) + 1 \/ t[m] = Amp)
        OBVIOUS
      <4>2. SUFFICES ASSUME m <= b PROVE FALSE
        BY <1>0, <2>3, <4>1
      <4>3. PICK i \in 1 .. L : m = a + g + i
        <5>1. m - (a + g) \in 1 .. L /\ m = a + g + (m - (a + g))
          BY <1>0, <2>3, <4>1, <4>2
        <5> QED
          BY <5>1
      <4>4. m # Len(t) + 1
        BY <1>0, <2>3, <4>2
      <4> QED
        BY <2>2, <4>1, <4>3, <4>4
    <3> HIDE DEF T
    <3>4. Min(T) = b + 1
      BY <3>2, <3>3, LeastIsMin
    <3> QED
      BY <3>4 DEF TokenStop, T
  <2>5. (b + 1) - 1 = b /\ n \in Int /\ b \in Int /\ b - n + 1 = L /\ n <= b
    BY <2>3
  <2>6. \A m \in n .. b : t[m] \in Byte
    <3> TAKE m \in n .. b
    <3>1. m \in 1 .. Len(t)
      BY <1>0, <2>1, <2>3
    <3> QED
      BY <3>1, ElementOfSeq
  <2>7. /\ SubSeq(t, n, b) \in Seq(Byte) /\ Len(SubSeq(t, n, b)) = L
        /\ \A i \in 1 .. L : SubSeq(t, n, b)[i] = t[n + i - 1]
    BY <2>5, <2>6, SubSeqProperties
  <2>8. tok[k] \in Seq(Byte)
    <3>1. tok[k] \in Seq(Byte \ {Amp})
      BY <1>0, ElementOfSeq DEF N
    <3> QED
      BY <3>1, SeqMonotonic
  <2>9. \A i \in 1 .. L : SubSeq(t, n, b)[i] = tok[k][i]
    <3> TAKE i \in 1 .. L
    <3>1. n + i - 1 = a + g + i
      BY <2>3
    <3> QED
      BY <2>2, <2>7, <3>1
  <2>10. SubSeq(t, n, b) = tok[k]
    BY <2>2, <2>7, <2>8, <2>9, SeqEqual
  <2> QED
    BY <2>3, <2>4, <2>5, <2>10
<1>13. Len(F) = N
  <2>1. F \in Seq(S) /\ Len(F) = N
    BY <1>0, <1>10
  <2> QED
    BY <2>1
<1> DEFINE u(k) == SubSeq(t, F[k], TokenStop(t, F[k]) - 1)
<1>14. Tokens(t) = [k \in 1 .. N |-> u(k)]
  BY <1>11, <1>13 DEF Tokens, S
<1>15. \A k \in 1 .. N : u(k) = tok[k]
  BY <1>12
<1> HIDE DEF u
<1>16. tok = [k \in 1 .. N |-> tok[k]]
  BY <1>0 DEF N
<1> QED
  BY <1>14, <1>15, <1>16

\* A join of nothing, and of one token more.
LEMMA JoinStarts == Joins([k \in 0 .. 0 |-> 0], <<>>, <<>>)
<1>1. <<>> \in Seq(Seq(Byte \ {Amp}) \ {<<>>}) /\ Len(<<>>) = 0
  BY EmptySeq
<1> QED
  BY <1>1 DEF Joins

Separator(n) == IF n > 0 THEN <<Amp>> ELSE <<>>

LEMMA SeparatorIs ==
  ASSUME NEW n \in Nat
  PROVE  /\ Separator(n) \in Seq(Byte) /\ Len(Separator(n)) = Gap(n + 1)
         /\ n + 1 > 1 => Separator(n)[1] = Amp
         /\ Gap(n + 1) \in {0, 1} /\ (n + 1 > 1 <=> Gap(n + 1) = 1)
<1>1. <<Amp>> \in Seq(Byte) /\ Len(<<Amp>>) = 1 /\ <<Amp>>[1] = Amp
  BY DEF Amp, Byte
<1>2. <<>> \in Seq(Byte) /\ Len(<<>>) = 0
  BY EmptySeq
<1>3. CASE n > 0
  BY <1>1, <1>3 DEF Separator, Gap
<1>4. CASE ~(n > 0)
  BY <1>2, <1>4 DEF Separator, Gap
<1> QED
  BY <1>3, <1>4

LEMMA JoinGrows ==
  ASSUME NEW t \in Seq(Byte), NEW tok, NEW p, Joins(p, t, tok),
         NEW x \in Seq(Byte \ {Amp}), x # <<>>
  PROVE  \E q : Joins(q, (t \o Separator(Len(tok))) \o x, Append(tok, x))
<1> DEFINE N == Len(tok)
           A == t \o Separator(N)
           B == A \o x
           T == Append(tok, x)
           q == [k \in 0 .. N + 1 |-> IF k <= N THEN p[k] ELSE Len(B)]
<1>0. /\ N \in Nat /\ tok \in Seq(Seq(Byte \ {Amp}) \ {<<>>}) /\ Len(t) \in Nat
      /\ p \in [0 .. N -> Nat] /\ p[0] = 0 /\ p[N] = Len(t)
  BY LenProperties DEF Joins
<1>1. /\ Separator(N) \in Seq(Byte) /\ Len(Separator(N)) = Gap(N + 1)
      /\ N + 1 > 1 => Separator(N)[1] = Amp
      /\ Gap(N + 1) \in {0, 1} /\ (N + 1 > 1 <=> Gap(N + 1) = 1)
  BY <1>0, SeparatorIs
<1>2. /\ T \in Seq(Seq(Byte \ {Amp}) \ {<<>>}) /\ Len(T) = N + 1
      /\ \A k \in 1 .. N : T[k] = tok[k]
      /\ T[N + 1] = x
  BY <1>0, AppendProperties
<1>3. x \in Seq(Byte) /\ Len(x) \in Nat
  BY SeqMonotonic, LenProperties
<1>4. /\ A \in Seq(Byte) /\ Len(A) = Len(t) + Gap(N + 1)
      /\ \A m \in 1 .. Len(t) : A[m] = t[m]
      /\ N + 1 > 1 => A[Len(t) + 1] = Amp
  <2>1. /\ A \in Seq(Byte) /\ Len(A) = Len(t) + Len(Separator(N))
        /\ \A m \in 1 .. Len(t) + Len(Separator(N)) :
             A[m] = IF m <= Len(t) THEN t[m] ELSE Separator(N)[m - Len(t)]
    BY <1>1, ConcatProperties
  <2>2. \A m \in 1 .. Len(t) : m \in 1 .. Len(t) + Len(Separator(N)) /\ m <= Len(t)
    BY <1>0, <1>1
  <2>3. ASSUME N + 1 > 1 PROVE A[Len(t) + 1] = Amp
    <3>1. /\ Len(t) + 1 \in 1 .. Len(t) + Len(Separator(N))
          /\ ~(Len(t) + 1 <= Len(t)) /\ (Len(t) + 1) - Len(t) = 1
      BY <1>0, <1>1, <2>3
    <3> QED
      BY <1>1, <2>1, <2>3, <3>1
  <2> QED
    BY <1>1, <2>1, <2>2, <2>3
<1> HIDE DEF A
<1>5. PICK a \in Nat, L \in Nat, g \in {0, 1} : a = Len(t) /\ L = Len(x) /\ g = Gap(N + 1)
  BY <1>0, <1>1, <1>3
<1>6. /\ B \in Seq(Byte) /\ Len(B) = a + g + L
      /\ \A m \in 1 .. a : B[m] = t[m]
      /\ g = 1 => B[a + 1] = Amp
      /\ \A m \in 1 .. L : B[a + g + m] = x[m]
  <2>1. /\ B \in Seq(Byte) /\ Len(B) = (a + g) + L
        /\ \A m \in 1 .. (a + g) + L :
             B[m] = IF m <= a + g THEN A[m] ELSE x[m - (a + g)]
    <3>1. Len(A) = a + g
      BY <1>4, <1>5
    <3>2. /\ B \in Seq(Byte) /\ Len(B) = Len(A) + Len(x)
          /\ \A m \in 1 .. Len(A) + Len(x) :
               B[m] = IF m <= Len(A) THEN A[m] ELSE x[m - Len(A)]
      BY <1>3, <1>4, ConcatProperties
    <3> QED
      BY <1>5, <3>1, <3>2, Zenon
  <2>2. \A m \in 1 .. a : B[m] = t[m]
    <3> TAKE m \in 1 .. a
    <3>1. m \in 1 .. (a + g) + L /\ m <= a + g
      OBVIOUS
    <3> QED
      BY <1>4, <1>5, <2>1, <3>1
  <2>3. g = 1 => B[a + 1] = Amp
    <3>1. g = 1 => a + 1 \in 1 .. (a + g) + L /\ a + 1 <= a + g
      OBVIOUS
    <3> QED
      BY <1>1, <1>4, <1>5, <2>1, <3>1
  <2>4. \A m \in 1 .. L : B[a + g + m] = x[m]
    <3> TAKE m \in 1 .. L
    <3>1. a + g + m \in 1 .. (a + g) + L /\ ~(a + g + m <= a + g) /\ (a + g + m) - (a + g) = m
      OBVIOUS
    <3> QED
      BY <2>1, <3>1
  <2> QED
    BY <2>1, <2>2, <2>3, <2>4
<1> HIDE DEF B, T, N
<1>7. q \in [0 .. N + 1 -> Nat] /\ q[0] = 0 /\ q[N + 1] = Len(B)
  <2>1. Len(B) \in Nat
    BY <1>6
  <2>2. \A k \in 0 .. N + 1 : k <= N => p[k] \in Nat
    BY <1>0
  <2>3. 0 \in 0 .. N + 1 /\ N + 1 \in 0 .. N + 1 /\ 0 <= N /\ ~(N + 1 <= N)
    BY <1>0
  <2> QED
    BY <1>0, <2>1, <2>2, <2>3
<1>8. \A k \in 1 .. N : q[k] = p[k] /\ q[k - 1] = p[k - 1]
  BY <1>0
<1>9. q[N] = a
  BY <1>0, <1>5
<1>10. q[N + 1] = a + g + L
  BY <1>6, <1>7
<1> HIDE DEF q
<1>11. ASSUME NEW k \in 1 .. N + 1
       PROVE  /\ q[k] = q[k - 1] + Gap(k) + Len(T[k])
              /\ k > 1 => B[q[k - 1] + 1] = Amp
              /\ \A m \in 1 .. Len(T[k]) : B[q[k - 1] + Gap(k) + m] = T[k][m]
  <2>1. CASE k = N + 1
    <3>1. k - 1 = N
      BY <1>0, <2>1
    <3>2. Gap(k) = g /\ T[k] = x /\ Len(T[k]) = L /\ q[k - 1] = a /\ q[k] = a + g + L
      BY <1>2, <1>5, <1>9, <1>10, <2>1, <3>1
    <3>3. k > 1 => g = 1
      BY <1>1, <1>5, <2>1
    <3> QED
      BY <1>6, <3>2, <3>3
  <2>2. CASE k # N + 1
    <3>1. k \in 1 .. N /\ k \in 1 .. Len(tok)
      BY <1>0, <2>2 DEF N
    <3>2. PICK b \in Nat, h \in {0, 1}, M \in Nat \ {0} : JoinsAt(p, t, tok, k, b, h, M)
      BY <3>1, JoinToken
    <3>3. /\ q[k - 1] = b /\ q[k] = b + h + M /\ Gap(k) = h /\ T[k] = tok[k] /\ Len(T[k]) = M
          /\ b + h + M <= a
      BY <1>2, <1>5, <1>8, <3>1, <3>2, Zenon DEF JoinsAt
    <3>4. k > 1 => h = 1
      BY <3>3 DEF Gap
    <3>5. h = 1 => B[b + 1] = Amp
      <4>1. h = 1 => t[b + 1] = Amp
        BY <3>2, Zenon DEF JoinsAt
      <4>2. h = 1 => b + 1 \in 1 .. a
        BY <3>3
      <4> QED
        BY <1>6, <4>1, <4>2
    <3>6. \A m \in 1 .. M : B[b + h + m] = T[k][m]
      <4> TAKE m \in 1 .. M
      <4>1. t[b + h + m] = tok[k][m]
        BY <3>2, Zenon DEF JoinsAt
      <4>2. b + h + m \in 1 .. a
        BY <3>3
      <4> QED
        BY <1>6, <3>3, <4>1, <4>2
    <3> QED
      BY <3>3, <3>4, <3>5, <3>6
  <2> QED
    BY <2>1, <2>2
<1>12. Joins(q, B, T)
  BY <1>2, <1>7, <1>11, Zenon DEF Joins
<1> QED
  BY <1>12 DEF A, B, T, N

--------------------------------------------------------------------------------
(* Keys and values *)

LEMMA EqualsAtIs ==
  ASSUME NEW t \in Seq(Byte)
  PROVE  /\ EqualsAt(t) \in 0 .. Len(t)
         /\ EqualsAt(t) # 0 => t[EqualsAt(t)] = Equals
         /\ \A m \in 1 .. Len(t) : t[m] = Equals => EqualsAt(t) # 0 /\ EqualsAt(t) <= m
<1> DEFINE S == {n \in 1 .. Len(t) : t[n] = Equals}
<1>0. Len(t) \in Nat
  BY LenProperties
<1>1. EqualsAt(t) = IF S # {} THEN Min(S) ELSE 0
  BY DEF EqualsAt, SelectInSeq
<1>2. S \in SUBSET Nat /\ \A n \in S : n \in 1 .. Len(t) /\ t[n] = Equals
  OBVIOUS
<1>3. \A m \in 1 .. Len(t) : t[m] = Equals => m \in S
  OBVIOUS
<1> HIDE DEF S
<1>4. CASE S = {}
  BY <1>0, <1>1, <1>3, <1>4
<1>5. CASE S # {}
  <2>1. Min(S) \in S /\ \A n \in S : Min(S) <= n
    BY <1>2, <1>5, MinIs
  <2>2. Min(S) \in 1 .. Len(t) /\ t[Min(S)] = Equals /\ Min(S) # 0
    <3>1. Min(S) \in 1 .. Len(t) /\ t[Min(S)] = Equals
      BY <1>2, <2>1
    <3> QED
      BY <3>1
  <2> QED
    BY <1>0, <1>1, <1>3, <1>5, <2>1, <2>2
<1> QED
  BY <1>4, <1>5

LEMMA KeyValueText ==
  ASSUME NEW t \in Seq(Byte)
  PROVE  KeyOf(t) \in Seq(Byte) /\ ValueOf(t) \in Seq(Byte)
<1>0. Len(t) \in Nat /\ EqualsAt(t) \in 0 .. Len(t)
  BY LenProperties, EqualsAtIs
<1>1. PICK n \in 0 .. Len(t) : n = EqualsAt(t)
  BY <1>0
<1>2. \A m \in 1 .. Len(t) : t[m] \in Byte
  BY ElementOfSeq
<1>3. SubSeq(t, 1, n - 1) \in Seq(Byte)
  <2>1. n - 1 \in Int /\ \A m \in 1 .. n - 1 : m \in 1 .. Len(t)
    BY <1>0
  <2> QED
    BY <1>2, <2>1, SubSeqProperties
<1>4. SubSeq(t, n + 1, Len(t)) \in Seq(Byte)
  <2>1. n + 1 \in Int /\ Len(t) \in Int /\ \A m \in n + 1 .. Len(t) : m \in 1 .. Len(t)
    BY <1>0
  <2> QED
    BY <1>2, <2>1, SubSeqProperties
<1>5. <<>> \in Seq(Byte)
  BY EmptySeq
<1> QED
  BY <1>1, <1>3, <1>4, <1>5, Zenon DEF KeyOf, ValueOf

\* strchr finds the Equals that was put between a key without one and a value.
LEMMA PairTaken ==
  ASSUME NEW a \in Seq(Byte \ {Equals}), NEW b \in Seq(Byte)
  PROVE  LET t == (a \o <<Equals>>) \o b
         IN  HasEquals(t) /\ KeyOf(t) = a /\ ValueOf(t) = b
<1> DEFINE c == a \o <<Equals>>
           t == c \o b
<1>0. a \in Seq(Byte) /\ Len(a) \in Nat /\ Len(b) \in Nat
  BY SeqMonotonic, LenProperties
<1>1. <<Equals>> \in Seq(Byte) /\ Len(<<Equals>>) = 1 /\ <<Equals>>[1] = Equals
  BY DEF Equals, Byte
<1>2. PICK la \in Nat, lb \in Nat : la = Len(a) /\ lb = Len(b)
  BY <1>0
<1>3. /\ c \in Seq(Byte) /\ Len(c) = la + 1
      /\ \A m \in 1 .. la + 1 : c[m] = IF m <= la THEN a[m] ELSE <<Equals>>[m - la]
  BY <1>0, <1>1, <1>2, ConcatProperties
<1>4. c[la + 1] = Equals /\ \A m \in 1 .. la : c[m] = a[m]
  <2>1. la + 1 \in 1 .. la + 1 /\ ~(la + 1 <= la) /\ (la + 1) - la = 1
    OBVIOUS
  <2>2. \A m \in 1 .. la : m \in 1 .. la + 1 /\ m <= la
    OBVIOUS
  <2> QED
    BY <1>1, <1>3, <2>1, <2>2
<1> HIDE DEF c
<1>5. /\ t \in Seq(Byte) /\ Len(t) = (la + 1) + lb
      /\ \A m \in 1 .. (la + 1) + lb : t[m] = IF m <= la + 1 THEN c[m] ELSE b[m - (la + 1)]
  <2>1. /\ t \in Seq(Byte) /\ Len(t) = Len(c) + Len(b)
        /\ \A m \in 1 .. Len(c) + Len(b) : t[m] = IF m <= Len(c) THEN c[m] ELSE b[m - Len(c)]
    BY <1>3, ConcatProperties
  <2> QED
    BY <1>2, <1>3, <2>1, Zenon
<1>6. t[la + 1] = Equals /\ \A m \in 1 .. la : t[m] = a[m]
  <2>1. \A m \in 1 .. la + 1 : m \in 1 .. (la + 1) + lb /\ m <= la + 1
    OBVIOUS
  <2>2. \A m \in 1 .. la + 1 : t[m] = c[m]
    BY <1>5, <2>1
  <2>3. la + 1 \in 1 .. la + 1 /\ \A m \in 1 .. la : m \in 1 .. la + 1
    OBVIOUS
  <2> QED
    BY <1>4, <2>2, <2>3
<1>7. \A m \in 1 .. lb : t[(la + 2) + m - 1] = b[m]
  <2> TAKE m \in 1 .. lb
  <2>1. /\ (la + 2) + m - 1 \in 1 .. (la + 1) + lb /\ ~((la + 2) + m - 1 <= la + 1)
        /\ ((la + 2) + m - 1) - (la + 1) = m
    OBVIOUS
  <2> QED
    BY <1>5, <2>1
<1> HIDE DEF t
<1>8. EqualsAt(t) = la + 1
  <2>1. \A m \in 1 .. la : t[m] # Equals
    <3> TAKE m \in 1 .. la
    <3>1. a[m] \in Byte \ {Equals}
      BY <1>2, ElementOfSeq
    <3> QED
      BY <1>6, <3>1
  <2>2. la + 1 \in 1 .. Len(t)
    BY <1>5
  <2>3. /\ EqualsAt(t) \in 0 .. Len(t) /\ EqualsAt(t) # 0 /\ EqualsAt(t) <= la + 1
        /\ t[EqualsAt(t)] = Equals
    BY <1>5, <1>6, <2>2, EqualsAtIs
  <2>4. EqualsAt(t) \notin 1 .. la
    BY <2>1, <2>3
  <2> QED
    BY <1>5, <2>3, <2>4
<1>9. HasEquals(t)
  BY <1>8 DEF HasEquals
<1>10. SubSeq(t, 1, la) = a
  <2>1. \A m \in 1 .. la : t[m] \in Byte
    <3> TAKE m \in 1 .. la
    <3>1. m \in 1 .. Len(t)
      BY <1>5
    <3> QED
      BY <1>5, <3>1, ElementOfSeq
  <2>2. /\ SubSeq(t, 1, la) \in Seq(Byte)
        /\ Len(SubSeq(t, 1, la)) = IF 1 <= la THEN la - 1 + 1 ELSE 0
        /\ \A m \in 1 .. la - 1 + 1 : SubSeq(t, 1, la)[m] = t[1 + m - 1]
    BY <2>1, SubSeqProperties
  <2>3. Len(SubSeq(t, 1, la)) = la
    BY <2>2
  <2>4. \A m \in 1 .. la : SubSeq(t, 1, la)[m] = a[m]
    <3> TAKE m \in 1 .. la
    <3>1. m \in 1 .. la - 1 + 1 /\ 1 + m - 1 = m
      OBVIOUS
    <3> QED
      BY <1>6, <2>2, <3>1
  <2> QED
    BY <1>0, <1>2, <2>2, <2>3, <2>4, SeqEqual
<1>11. SubSeq(t, la + 2, Len(t)) = b
  <2>1. \A m \in la + 2 .. Len(t) : t[m] \in Byte
    <3> TAKE m \in la + 2 .. Len(t)
    <3>1. m \in 1 .. Len(t)
      BY <1>5
    <3> QED
      BY <1>5, <3>1, ElementOfSeq
  <2>2. Len(t) \in Int /\ la + 2 \in Int
    BY <1>5
  <2>3. /\ SubSeq(t, la + 2, Len(t)) \in Seq(Byte)
        /\ Len(SubSeq(t, la + 2, Len(t))) = IF la + 2 <= Len(t) THEN Len(t) - (la + 2) + 1 ELSE 0
        /\ \A m \in 1 .. Len(t) - (la + 2) + 1 :
             SubSeq(t, la + 2, Len(t))[m] = t[(la + 2) + m - 1]
    BY <2>1, <2>2, SubSeqProperties
  <2>4. Len(t) - (la + 2) + 1 = lb /\ Len(SubSeq(t, la + 2, Len(t))) = lb
    BY <1>5, <2>3
  <2>5. \A m \in 1 .. lb : SubSeq(t, la + 2, Len(t))[m] = b[m]
    BY <1>7, <2>3, <2>4
  <2> QED
    BY <1>2, <2>3, <2>4, <2>5, SeqEqual
<1>12. EqualsAt(t) - 1 = la /\ EqualsAt(t) + 1 = la + 2
  BY <1>8
<1>13. KeyOf(t) = a /\ ValueOf(t) = b
  BY <1>9, <1>10, <1>11, <1>12 DEF KeyOf, ValueOf
<1> QED
  BY <1>9, <1>13 DEF t, c

LEMMA AssociativeText == \A x, y, w \in Seq(Byte) : (x \o y) \o w = x \o (y \o w)
BY ConcatAssociative

\* A key and a value without separators make one token, which gives them back.
LEMMA PairToken ==
  ASSUME NEW a \in Seq(Byte \ {Amp, Equals}), NEW b \in Seq(Byte \ {Amp})
  PROVE  LET t == (a \o <<Equals>>) \o b
         IN  /\ t \in Seq(Byte \ {Amp}) /\ t # <<>>
             /\ HasEquals(t) /\ KeyOf(t) = a /\ ValueOf(t) = b
             /\ \A k \in Nat : ((Separator(k) \o a) \o <<Equals>>) \o b = Separator(k) \o t
<1> DEFINE S == Seq(Byte \ {Amp})
<1>1. a \in S /\ b \in S
  BY SeqMonotonic
<1>2. <<Equals>> \in S /\ Len(<<Equals>>) = 1
  BY DEF Equals, Amp, Byte
<1>3. S \subseteq Seq(Byte)
  BY SeqMonotonic
<1>4. \A x, y \in S : x \o y \in S /\ Len(x \o y) = Len(x) + Len(y)
  BY ConcatProperties
<1>5. Len(a) \in Nat /\ Len(b) \in Nat
  BY LenProperties
<1> HIDE DEF S
<1>6. PICK c \in S : c = a \o <<Equals>> /\ Len(c) = Len(a) + 1
  BY <1>1, <1>2, <1>4, Zenon
<1>7. PICK t \in S : t = c \o b /\ Len(t) = Len(c) + Len(b)
  BY <1>1, <1>4, <1>6, Zenon
<1>8. t # <<>>
  <2>1. \A x, y \in Nat : (x + 1) + y > 0
    OBVIOUS
  <2>2. Len(t) > 0
    BY <1>5, <1>6, <1>7, <2>1, Zenon
  <2>3. Len(<<>>) = 0 /\ ~(0 > 0)
    OBVIOUS
  <2> QED
    BY <2>2, <2>3, Zenon
<1>9. HasEquals(t) /\ KeyOf(t) = a /\ ValueOf(t) = b
  <2>1. a \in Seq(Byte \ {Equals}) /\ b \in Seq(Byte)
    BY SeqMonotonic
  <2> QED
    BY <1>6, <1>7, <2>1, PairTaken
<1>10. ASSUME NEW k \in Nat
       PROVE  ((Separator(k) \o a) \o <<Equals>>) \o b = Separator(k) \o t
  <2>1. PICK z \in Seq(Byte) : z = Separator(k)
    BY SeparatorIs
  <2>2. a \in Seq(Byte) /\ b \in Seq(Byte) /\ c \in Seq(Byte) /\ <<Equals>> \in Seq(Byte)
    BY <1>1, <1>2, <1>3, <1>6
  <2>3. (z \o a) \o <<Equals>> = z \o c
    BY <1>6, <2>2, AssociativeText, Zenon
  <2>4. (z \o c) \o b = z \o (c \o b)
    BY <2>2, AssociativeText, Zenon
  <2> QED
    BY <1>7, <2>1, <2>3, <2>4, Zenon
<1> QED
  BY <1>6, <1>7, <1>8, <1>9, <1>10, Zenon DEF S

================================================================================
