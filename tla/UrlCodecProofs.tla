---------------------------- MODULE UrlCodecProofs -----------------------------
(* Theorems about UrlCodec, for texts of every length over all bytes. *)
EXTENDS UrlCodec, QueryTextProofs

(***************************************************************************)
(* The bytes written so far against the bytes read so far.                 *)
(***************************************************************************)
Progress ==
  /\ fn = "quote_plus" =>
       i <= Len(text) /\ Len(out) <= 3 * i /\ cap = 3 * Len(text) + 1
  /\ fn = "unquote_plus" =>
       i <= Len(text) /\ Len(out) <= i /\ cap = Len(text) + 1

CodecInv == TypeOK /\ Progress

--------------------------------------------------------------------------------
\* Both functions stay in their buffers, whatever they are given.
THEOREM CodecInductive == Spec => []CodecInv
<1>1. Init => CodecInv
  <2> SUFFICES ASSUME Init PROVE CodecInv
    OBVIOUS
  <2>1. given \in Seq(Byte) /\ <<>> \in Seq(0 .. 255)
    BY TextAssumption, EmptySeq DEF Init
  <2> QED
    BY <2>1 DEF Init, CodecInv, TypeOK, Progress
<1>2. CodecInv /\ [Next]_vars => CodecInv'
  <2> SUFFICES ASSUME CodecInv, [Next]_vars PROVE CodecInv'
    OBVIOUS
  <2> USE DEF CodecInv, TypeOK, Progress
  <2>1. ASSUME NEW f \in {"quote_plus", "unquote_plus"}, Call(f)
        PROVE  CodecInv'
    BY <2>1 DEF Call, Capacity
  <2>2. CASE QuoteNext
    <3>1. text[i + 1] \in Byte
      <4>1. i + 1 \in 1 .. Len(text)
        BY <2>2, LenProperties DEF QuoteNext
      <4> QED
        BY <4>1, ElementOfSeq
    <3>2. PICK b \in Seq(0 .. 255) : b = QuotedByte(text[i + 1]) /\ Len(b) \in 1 .. 3
      BY <3>1, QuotedByteIs
    <3>3. out' = out \o b /\ out' \in Seq(0 .. 255) /\ Len(out') = Len(out) + Len(b)
      BY <2>2, <3>2, ConcatProperties DEF QuoteNext
    <3> QED
      <4>1. Len(out) \in Nat /\ Len(text) \in Nat
        BY LenProperties
      <4>2. /\ fn = "quote_plus" /\ i < Len(text) /\ i' = i + 1
            /\ UNCHANGED <<given, text, quoted, fn, cap>>
        BY <2>2 DEF QuoteNext
      <4>3. Len(out) <= 3 * i /\ i \in Nat /\ cap = 3 * Len(text) + 1
        BY <4>2
      <4>4. Len(out') <= 3 * i'
        <5>1. \A m, k \in Nat, n \in 1 .. 3 : m <= 3 * k => m + n <= 3 * (k + 1)
          OBVIOUS
        <5>2. Len(out) + Len(b) <= 3 * (i + 1)
          BY <3>2, <4>1, <4>3, <5>1
        <5>3. i' = i + 1 /\ Len(out') = Len(out) + Len(b)
          BY <3>3, <4>2
        <5> HIDE DEF CodecInv, TypeOK, Progress
        <5> QED
          BY ONLY <5>2, <5>3
      <4>5. i' <= Len(text') /\ cap' = 3 * Len(text') + 1
        BY <4>1, <4>2, <4>3
      <4> QED
        BY <3>3, <4>2, <4>4, <4>5
  <2>3. CASE UnquoteNext
    <3>0. i + 1 \in 1 .. Len(text)
      BY <2>3, LenProperties DEF UnquoteNext
    <3>1. PICK w \in {1, 3} : w = Width(text, i + 1) /\ i + 1 + w <= Len(text) + 1
      BY <3>0, UnquotedByteIs
    <3>2. PICK b \in 0 .. 255 : b = UnquotedByte(text, i + 1)
      BY <3>0, UnquotedByteIs
    <3>3. out' = Append(out, b) /\ out' \in Seq(0 .. 255) /\ Len(out') = Len(out) + 1
      BY <2>3, <3>2, AppendProperties DEF UnquoteNext
    <3>4. /\ fn = "unquote_plus" /\ i' = i + w
          /\ UNCHANGED <<given, text, quoted, fn, cap>>
      BY <2>3, <3>1 DEF UnquoteNext
    <3>5. i \in Nat /\ Len(text) \in Nat /\ Len(out) <= i /\ cap = Len(text) + 1 /\ Len(out) \in Nat
      BY <3>4, LenProperties
    <3>6. /\ i' \in Nat /\ i' <= Len(text) /\ Len(out') <= i'
      <4> HIDE DEF CodecInv, TypeOK, Progress
      <4>1. i' = i + w /\ Len(out') = Len(out) + 1 /\ i + 1 + w <= Len(text) + 1
        BY <3>1, <3>3, <3>4
      <4>2. \A m, k, l \in Nat : m <= k /\ k + 1 + w <= l + 1 =>
              k + w \in Nat /\ k + w <= l /\ m + 1 <= k + w
        OBVIOUS
      <4> QED
        BY <3>5, <4>1, <4>2
    <3>7. TypeOK'
      BY <3>3, <3>4, <3>6
    <3>8. Progress'
      BY <3>4, <3>5, <3>6
    <3> QED
      BY <3>7, <3>8
  <2>4. CASE Return
    BY <2>4, CStringIs DEF Return
  <2>5. CASE UNCHANGED vars
    BY <2>5 DEF vars
  <2> QED
    BY <2>1, <2>2, <2>3, <2>4, <2>5 DEF Next
<1> QED
  BY <1>1, <1>2, PTL DEF Spec

\* No text makes quote_plus or unquote_plus write past the buffer it allocated:
\* three times the length and one, and the length and one, are enough.
THEOREM CodecInBounds == Spec => []InBounds
<1>1. CodecInv => InBounds
  BY DEF CodecInv, TypeOK, Progress, InBounds
<1> QED
  BY <1>1, CodecInductive, PTL

\* Both functions only ever return C strings: no byte of a result is 0, or beyond
\* 255, whatever escapes the text holds.
THEOREM CodecTypes == Spec => []TypeOK
<1>1. CodecInv => TypeOK
  BY DEF CodecInv
<1> QED
  BY <1>1, CodecInductive, PTL

--------------------------------------------------------------------------------
\* unquote_plus stands behind the encoding of a byte, and has put out the bytes
\* up to there.
Undone(p) == \E j \in 0 .. Len(given) : i = p[j] /\ out = SubSeq(given, 1, j)

Quoting == \E p : IsCoding(p, out, given, i)
Quoted  == \E p : IsCoding(p, text, given, Len(given)) /\ (fn = "unquote_plus" => Undone(p))

ValueInv ==
  /\ ~quoted /\ fn # "done" => text = given
  /\ fn = "quote_plus" => ~quoted /\ out \in Seq(Clean) /\ Quoting
  /\ fn \in {"idle", "unquote_plus"} /\ quoted => text \in Seq(Clean) /\ Quoted
  /\ fn = "done" /\ quoted => text = given

--------------------------------------------------------------------------------
\* What quote_plus has written stands for what it has read; what unquote_plus has
\* written is what had been read.
THEOREM ValueInductive == Spec => []ValueInv
<1>1. Init => ValueInv
  BY DEF Init, ValueInv
<1>2. CodecInv /\ ValueInv /\ [Next]_vars => ValueInv'
  <2> SUFFICES ASSUME CodecInv, ValueInv, [Next]_vars PROVE ValueInv'
    OBVIOUS
  <2>0. /\ given \in Seq(Byte) /\ text \in Seq(Byte) /\ i \in Nat /\ quoted \in BOOLEAN
        /\ Len(given) \in Nat /\ Len(text) \in Nat
    BY LenProperties DEF CodecInv, TypeOK
  <2>1. ASSUME NEW f \in {"quote_plus", "unquote_plus"}, Call(f)
        PROVE  ValueInv'
    <3>1. CASE f = "quote_plus"
      <4>1. ~quoted /\ text = given /\ UNCHANGED <<given, text, quoted>>
            /\ fn' = "quote_plus" /\ i' = 0 /\ out' = <<>>
        BY <2>1, <3>1 DEF Call, ValueInv
      <4>2. Quoting'
        BY <4>1, CodingStarts DEF Quoting
      <4> QED
        BY <4>1, <4>2, EmptySeq DEF ValueInv
    <3>2. CASE f = "unquote_plus"
      <4>1. UNCHANGED <<given, text, quoted>> /\ fn = "idle"
            /\ fn' = "unquote_plus" /\ i' = 0 /\ out' = <<>>
        BY <2>1, <3>2 DEF Call
      <4>2. ASSUME quoted PROVE text' \in Seq(Clean) /\ Quoted'
        <5>1. PICK p : IsCoding(p, text, given, Len(given))
          BY <4>1, <4>2 DEF ValueInv, Quoted
        <5>2. p[0] = 0 /\ 0 \in 0 .. Len(given)
          BY <2>0, <5>1 DEF IsCoding
        <5>3. SubSeq(given, 1, 0) = <<>>
          BY SubSeqEmpty
        <5>4. Undone(p)'
          BY <4>1, <5>2, <5>3 DEF Undone
        <5> QED
          BY <4>1, <4>2, <5>1, <5>4 DEF ValueInv, Quoted
      <4> QED
        BY <4>1, <4>2 DEF ValueInv
    <3> QED
      BY <3>1, <3>2
  <2>2. CASE QuoteNext
    <3>1. /\ fn = "quote_plus" /\ fn' = fn /\ UNCHANGED <<given, text, quoted>>
          /\ i < Len(text) /\ i' = i + 1 /\ out' = out \o QuotedByte(text[i + 1])
      BY <2>2 DEF QuoteNext
    <3>2. ~quoted /\ text = given /\ out \in Seq(Clean) /\ Quoting
      BY <3>1 DEF ValueInv
    <3>3. out \in Seq(Byte)
      BY <3>2, SeqMonotonic DEF Clean
    <3>4. PICK p : IsCoding(p, out, given, i)
      BY <3>2 DEF Quoting
    <3>5. \E q : IsCoding(q, out \o QuotedByte(given[i + 1]), given, i + 1)
      BY <2>0, <3>1, <3>2, <3>3, <3>4, CodingGrows
    <3>6. Quoting'
      BY <3>1, <3>2, <3>5 DEF Quoting
    <3>7. out' \in Seq(Clean)
      <4>1. i + 1 \in 1 .. Len(text)
        BY <2>0, <3>1
      <4>2. QuotedByte(text[i + 1]) \in Seq(Clean)
        BY <2>0, <4>1, ElementOfSeq, QuotedByteClean
      <4> QED
        BY <3>1, <3>2, <4>2, ConcatProperties
    <3> QED
      BY <3>1, <3>2, <3>6, <3>7 DEF ValueInv
  <2>3. CASE UnquoteNext
    <3>1. /\ fn = "unquote_plus" /\ fn' = fn /\ UNCHANGED <<given, text, quoted>>
          /\ i < Len(text) /\ i' = i + Width(text, i + 1)
          /\ out' = Append(out, UnquotedByte(text, i + 1))
      BY <2>3 DEF UnquoteNext
    <3>2. ASSUME quoted PROVE Quoted'
      <4>1. PICK p : IsCoding(p, text, given, Len(given)) /\ Undone(p)
        BY <3>1, <3>2 DEF ValueInv, Quoted
      <4>2. PICK j \in 0 .. Len(given) : i = p[j] /\ out = SubSeq(given, 1, j)
        BY <4>1 DEF Undone
      <4>3. /\ j + 1 \in 1 .. Len(given)
            /\ UnquotedByte(text, i + 1) = given[j + 1]
            /\ i + Width(text, i + 1) = p[j + 1]
        BY <2>0, <3>1, <4>1, <4>2, CodingRead
      <4>4. out' = SubSeq(given, 1, j + 1)
        BY <2>0, <3>1, <4>2, <4>3, OneMore
      <4>5. Undone(p)'
        <5>1. j + 1 \in 0 .. Len(given) /\ i' = p[j + 1] /\ given' = given
          BY <2>0, <3>1, <4>3
        <5> QED
          BY <4>4, <5>1 DEF Undone
      <4> QED
        BY <3>1, <4>1, <4>5 DEF Quoted
    <3> QED
      BY <3>1, <3>2 DEF ValueInv
  <2>4. CASE Return
    <3>1. CASE fn = "quote_plus"
      <4>1. /\ i >= Len(text) /\ text' = CString(out) /\ quoted' = TRUE /\ fn' = "idle"
            /\ UNCHANGED <<given, i, cap, out>>
        BY <2>4, <3>1 DEF Return
      <4>2. ~quoted /\ text = given /\ out \in Seq(Clean) /\ Quoting
        BY <3>1 DEF ValueInv
      <4>3. i = Len(given)
        BY <2>0, <3>1, <4>1, <4>2 DEF CodecInv, Progress
      <4>4. text' = out
        <5>1. out \in Seq(Byte)
          BY <4>2, SeqMonotonic DEF Clean
        <5> QED
          BY <4>1, <5>1, CStringWhole
      <4>5. Quoted'
        BY <4>1, <4>2, <4>3, <4>4 DEF Quoting, Quoted
      <4> QED
        BY <4>1, <4>2, <4>4, <4>5 DEF ValueInv
    <3>2. CASE fn = "unquote_plus"
      <4>0. fn # "quote_plus"
        BY <3>2
      <4>1. /\ i >= Len(text) /\ text' = CString(out) /\ fn' = "done"
            /\ UNCHANGED <<given, i, cap, out>> /\ (quoted' => quoted)
        BY <2>4, <4>0, Zenon DEF Return
      <4>2. ASSUME quoted PROVE text' = given
        <5>1. PICK p : IsCoding(p, text, given, Len(given)) /\ Undone(p)
          BY <3>2, <4>2 DEF ValueInv, Quoted
        <5>2. PICK j \in 0 .. Len(given) : i = p[j] /\ out = SubSeq(given, 1, j)
          BY <5>1 DEF Undone
        <5>3. j = Len(given)
          <6> SUFFICES ASSUME j # Len(given) PROVE FALSE
            OBVIOUS
          <6>1. j + 1 \in 1 .. Len(given) /\ j + 1 \in 0 .. Len(given) /\ (j + 1) - 1 = j
            BY <2>0
          <6>2. p[j + 1] = p[j] + Len(QuotedByte(given[j + 1]))
            BY <5>1, <6>1 DEF IsCoding, Coded
          <6>3. Len(QuotedByte(given[j + 1])) \in {1, 3}
            BY <2>0, <6>1, ElementOfSeq, QuotedByteClean
          <6>4. p[j + 1] \in 0 .. Len(text)
            BY <5>1, <6>1 DEF IsCoding
          <6>5. p[j] = i /\ i >= Len(text)
            BY <4>1, <5>2
          <6>6. \A x, y, z \in Nat : x >= y /\ z > 0 => ~(x + z <= y)
            OBVIOUS
          <6>7. PICK z \in {1, 3} : z = Len(QuotedByte(given[j + 1]))
            BY <6>3
          <6>8. i + z <= Len(text)
            BY <6>2, <6>4, <6>5, <6>7
          <6>9. z \in Nat /\ z > 0
            BY <6>7
          <6> QED
            BY <2>0, <6>5, <6>6, <6>8, <6>9, Zenon
        <5>4. out = given
          BY <2>0, <5>2, <5>3, SubSeqFull
        <5> QED
          BY <2>0, <4>1, <5>4, CStringWhole
      <4> QED
        BY <4>1, <4>2 DEF ValueInv
    <3> QED
      BY <2>4, <3>1, <3>2 DEF Return
  <2>5. CASE UNCHANGED vars
    BY <2>5 DEF vars, ValueInv, Quoting, Quoted, Undone
  <2> QED
    BY <2>1, <2>2, <2>3, <2>4, <2>5 DEF Next
<1> QED
  BY <1>1, <1>2, CodecInductive, PTL DEF Spec

\* unquote_plus gives back what quote_plus was given, for texts of every length
\* over all bytes but the terminator.
THEOREM CodecUndone == Spec => []RoundTrip
<1>1. ValueInv => RoundTrip
  BY DEF ValueInv, RoundTrip
<1> QED
  BY <1>1, ValueInductive, PTL

\* What quote_plus returns holds no separator, for every text.
THEOREM CodecSeparates == Spec => []SeparatorFree
<1>1. ValueInv => SeparatorFree
  <2> SUFFICES ASSUME ValueInv, fn = "idle", quoted, NEW n \in DOMAIN text
               PROVE  text[n] \notin {Amp, Equals, Space}
    BY DEF SeparatorFree
  <2>1. text \in Seq(Clean)
    BY DEF ValueInv
  <2>2. text[n] \in Clean
    BY <2>1, ElementOfSeq, LenProperties
  <2> QED
    BY <2>2 DEF Clean
<1> QED
  BY <1>1, ValueInductive, PTL

================================================================================
