-------------------------- MODULE EncodeBufferProofs ---------------------------
(* Theorems about EncodeBuffer, for all lists of pairs and every first size.  *)
EXTENDS EncodeBuffer, QueryTextProofs

Cells == Byte \cup {NUL, Junk}

\* Resizing keeps the type of a memory, and it has the size that was asked for.
LEMMA ResizedIs ==
  ASSUME NEW old \in Nat, NEW new \in Nat, NEW mem \in [1 .. old -> Cells]
  PROVE  Resized(mem, new) \in [1 .. new -> Cells]
BY DEF Resized, Cells

\* Writing text to a memory keeps its type, wherever the text goes.
LEMMA WrittenIs ==
  ASSUME NEW size \in Nat, NEW mem \in [1 .. size -> Cells],
         NEW at \in Nat, NEW s \in Seq(Byte)
  PROVE  Written(mem, at, s) \in [1 .. size -> Cells]
<1>1. \A n \in DOMAIN s : s[n] \in Cells
  BY ElementOfSeq, LenProperties DEF Cells
<1> QED
  BY <1>1 DEF Written, Cells

\* What a pair adds is at most what `need' asks for.
LEMMA JoinedIs ==
  ASSUME NEW p \in Pair, NEW k \in Nat
  PROVE  /\ Joined(k, p) \in Seq(Byte)
         /\ Len(Joined(k, p)) <= Need(p)
         /\ Need(p) \in Nat
<1>1. p.key \in Seq(Byte) /\ p.value \in Seq(Byte)
  BY SeqMonotonic DEF Pair, QuotedText
<1> DEFINE sep == IF k > 0 THEN <<Amp>> ELSE <<>>
<1>2. sep \in Seq(Byte) /\ Len(sep) \in 0 .. 1
  <2>1. <<Amp>> \in Seq(Byte) /\ Len(<<Amp>>) = 1
    BY DEF Amp, Byte
  <2>2. <<>> \in Seq(Byte) /\ Len(<<>>) = 0
    BY EmptySeq
  <2>3. CASE k > 0
    BY <2>1, <2>3
  <2>4. CASE ~(k > 0)
    BY <2>2, <2>4
  <2> QED
    BY <2>3, <2>4
<1>3. <<Equals>> \in Seq(Byte) /\ Len(<<Equals>>) = 1
  BY DEF Equals, Byte
<1>4. \A s, t \in Seq(Byte) : s \o t \in Seq(Byte) /\ Len(s \o t) = Len(s) + Len(t)
  BY ConcatProperties
<1>5. PICK a \in Seq(Byte) : a = sep \o p.key /\ Len(a) = Len(sep) + Len(p.key)
  BY <1>1, <1>2, <1>4
<1>6. PICK b \in Seq(Byte) : b = a \o <<Equals>> /\ Len(b) = Len(a) + 1
  BY <1>3, <1>4, <1>5
<1>7. PICK c \in Seq(Byte) : c = b \o p.value /\ Len(c) = Len(b) + Len(p.value)
  BY <1>1, <1>4, <1>6
<1>8. Joined(k, p) = c
  BY <1>5, <1>6, <1>7 DEF Joined
<1>9. /\ Len(p.key) \in Nat /\ Len(p.value) \in Nat
      /\ Len(a) \in Nat /\ Len(b) \in Nat /\ Len(c) \in Nat
  BY <1>1, LenProperties
<1>10. \A x, y \in Nat, z \in 0 .. 1 :
          z + x + 1 + y <= x + 1 + y + 1 /\ x + 1 + y + 1 \in Nat
  OBVIOUS
<1>11. Len(c) = Len(sep) + Len(p.key) + 1 + Len(p.value)
  BY <1>5, <1>6, <1>7, Zenon
<1>12. Len(c) <= Need(p) /\ Need(p) \in Nat
  <2>1. Need(p) = Len(p.key) + 1 + Len(p.value) + 1
    BY Zenon DEF Need
  <2>2. /\ Len(sep) + Len(p.key) + 1 + Len(p.value) <= Len(p.key) + 1 + Len(p.value) + 1
        /\ Len(p.key) + 1 + Len(p.value) + 1 \in Nat
    <3> HIDE DEF sep
    <3> QED
      BY ONLY <1>2, <1>9, <1>10, Zenon
  <2> QED
    BY <1>11, <2>1, <2>2, Zenon
<1> QED
  BY <1>8, <1>12

(***************************************************************************)
(* Between two pairs there is always room for one byte more: pos < cap.    *)
(***************************************************************************)
RoomInv ==
  /\ pc = "start" => i = 0 /\ pos = 0 /\ high = -1
  /\ pc = "append" => i < Len(pairs) /\ cap > 0
  /\ pc \in {"append", "terminate"} => pos < cap
  /\ pc # "start" => high < cap

BufferInv == TypeOK /\ RoomInv

\* A write of a text for which there is room, terminator included.
LEMMA WriteStays ==
  ASSUME BufferInv, NEW s \in Seq(Byte), pos + Len(s) < cap, high < cap,
         Write(s), cap' = cap
  PROVE  /\ out' \in [1 .. cap' -> Cells]
         /\ pos' \in Nat /\ pos' < cap'
         /\ high' \in Nat \cup {-1} /\ high' < cap'
<1>1. Len(s) \in Nat /\ pos \in Nat /\ cap \in Nat /\ high \in Nat \cup {-1}
  BY LenProperties DEF BufferInv, TypeOK
<1>2. out' \in [1 .. cap' -> Cells]
  BY <1>1, WrittenIs DEF BufferInv, TypeOK, Cells, Write
<1> QED
  BY <1>1, <1>2 DEF Write

--------------------------------------------------------------------------------
\* The buffer keeps its type and its spare byte, whatever is appended.
THEOREM BufferInductive == Spec => []BufferInv
<1>1. Init => BufferInv
  <2> SUFFICES ASSUME Init PROVE BufferInv
    OBVIOUS
  <2>1. pairs \in Seq(Pair) /\ Len(pairs) \in Nat
    BY ListAssumption, LenProperties DEF Init
  <2>2. <<>> \in [1 .. 0 -> Byte \cup {NUL, Junk}]
    OBVIOUS
  <2> QED
    BY <2>1, <2>2 DEF Init, BufferInv, TypeOK, RoomInv
<1>2. BufferInv /\ [Next]_vars => BufferInv'
  <2> SUFFICES ASSUME BufferInv, [Next]_vars PROVE BufferInv'
    OBVIOUS
  <2>0. Len(pairs) \in Nat /\ i \in Nat /\ cap \in Nat /\ pos \in Nat /\ high \in Nat \cup {-1}
    BY LenProperties DEF BufferInv, TypeOK
  <2>1. CASE Start
    <3>1. <<>> \in [1 .. 0 -> Cells]
      OBVIOUS
    <3>2. cap' \in Nat /\ cap' > 0
      BY <2>1, CapAssumption DEF Start
    <3>3. out' \in [1 .. cap' -> Cells]
      BY <2>1, <3>1, <3>2, ResizedIs DEF Start
    <3>4. pairs # <<>> => Len(pairs) > 0
      BY EmptySeq DEF BufferInv, TypeOK
    <3>5. pos' = pos /\ high' = high /\ i' = i /\ pairs' = pairs
      BY <2>1 DEF Start
    <3>6. pc = "start" => i = 0 /\ pos = 0 /\ high = -1
      BY DEF BufferInv, RoomInv
    <3>7. pc' = IF pairs = <<>> THEN "terminate" ELSE "append"
      BY <2>1 DEF Start
    <3> QED
      BY <2>0, <2>1, <3>2, <3>3, <3>4, <3>5, <3>6, <3>7
      DEF Start, BufferInv, TypeOK, RoomInv, Cells
  <2>2. CASE Grow
    <3>1. cap' = 2 * cap /\ cap' \in Nat /\ cap' >= cap
      BY <2>0, <2>2 DEF Grow, Doubled
    <3>2. out' \in [1 .. cap' -> Cells]
      BY <2>0, <2>2, <3>1, ResizedIs DEF Grow, BufferInv, TypeOK, Cells
    <3> QED
      BY <2>0, <2>2, <3>1, <3>2 DEF Grow, BufferInv, TypeOK, RoomInv, Cells
  <2>3. CASE AppendPair
    <3>1. i < Len(pairs) /\ high < cap /\ i + 1 \in 1 .. Len(pairs)
      BY <2>0, <2>3 DEF AppendPair, BufferInv, RoomInv
    <3>2. pairs[i + 1] \in Pair
      BY <3>1, ElementOfSeq DEF BufferInv, TypeOK
    <3>3. PICK s \in Seq(Byte) : s = Joined(i, pairs[i + 1]) /\ Len(s) <= Need(pairs[i + 1])
      BY <2>0, <3>2, JoinedIs
    <3>4. Need(pairs[i + 1]) \in Nat /\ Len(s) \in Nat
      BY <2>0, <3>2, JoinedIs, LenProperties
    <3>5. pos + Len(s) < cap
      BY <2>0, <2>3, <3>3, <3>4 DEF AppendPair, HasRoom
    <3>6. Write(s) /\ cap' = cap /\ pairs' = pairs /\ i' = i + 1
      BY <2>3, <3>3 DEF AppendPair
    <3>7. /\ out' \in [1 .. cap' -> Cells]
          /\ pos' \in Nat /\ pos' < cap'
          /\ high' \in Nat \cup {-1} /\ high' < cap'
      BY <3>1, <3>5, <3>6, WriteStays
    <3>8. pc' = IF i' = Len(pairs) THEN "terminate" ELSE "append"
      BY <2>3 DEF AppendPair
    <3> QED
      BY <2>0, <3>1, <3>6, <3>7, <3>8 DEF BufferInv, TypeOK, RoomInv, Cells
  <2>4. CASE Terminate
    <3>1. <<>> \in Seq(Byte) /\ Len(<<>>) = 0
      BY EmptySeq
    <3>2. Write(<<>>) /\ cap' = cap /\ pairs' = pairs /\ i' = i /\ pc' = "done"
      BY <2>4 DEF Terminate
    <3>3. pos + Len(<<>>) < cap /\ high < cap
      BY <2>0, <2>4, <3>1 DEF Terminate, BufferInv, RoomInv
    <3>4. /\ out' \in [1 .. cap' -> Cells]
          /\ pos' \in Nat /\ high' \in Nat \cup {-1} /\ high' < cap'
      BY <3>1, <3>2, <3>3, WriteStays
    <3> QED
      BY <3>2, <3>4 DEF BufferInv, TypeOK, RoomInv, Cells
  <2>5. CASE UNCHANGED vars
    BY <2>5 DEF vars, BufferInv, TypeOK, RoomInv
  <2> QED
    BY <2>1, <2>2, <2>3, <2>4, <2>5 DEF Next
<1> QED
  BY <1>1, <1>2, PTL DEF Spec

\* No list of pairs makes url_encode_params write outside its buffer.
THEOREM EncodeInBounds == Spec => []InBounds
<1>1. BufferInv => InBounds
  BY DEF BufferInv, RoomInv, InBounds
<1> QED
  BY <1>1, BufferInductive, PTL

\* Every cell of the buffer is a byte of a text, a terminator or untouched, and a
\* realloc gives it the size that `cap' says.
THEOREM EncodeTypes == Spec => []TypeOK
<1>1. BufferInv => TypeOK
  BY DEF BufferInv
<1> QED
  BY <1>1, BufferInductive, PTL

--------------------------------------------------------------------------------
(***************************************************************************)
(* The bytes written so far are the join of the pairs appended so far, and *)
(* the last write ends them with the NUL.                                  *)
(***************************************************************************)
Token(p) == (p.key \o <<Equals>>) \o p.value
Appended == [k \in 1 .. i |-> Token(pairs[k])]

TextInv ==
  /\ pc = "start" => i = 0 /\ pos = 0
  /\ pc \in {"terminate", "done"} => i = Len(pairs)
  /\ \E T \in Seq(Byte) : \E p :
       /\ Len(T) = pos /\ Joins(p, T, Appended)
       /\ pc # "start" => \A m \in 1 .. pos : out[m] = T[m]
  /\ pc = "done" => pos < cap /\ out[pos + 1] = NUL

\* A pair with nothing of a separator in it makes a token, and what AppendPair
\* writes is a separator and the token.
LEMMA TokenIs ==
  ASSUME NEW p \in Pair
  PROVE  /\ Token(p) \in Seq(Byte \ {Amp}) /\ Token(p) # <<>>
         /\ KeyOf(Token(p)) = p.key /\ ValueOf(Token(p)) = p.value
         /\ \A k \in Nat : Joined(k, p) = Separator(k) \o Token(p)
<1>1. /\ p.key \in Seq(Byte \ {Amp, Equals}) /\ p.value \in Seq(Byte \ {Amp})
  BY SeqMonotonic DEF Pair, QuotedText
<1>2. \A k \in Nat : Joined(k, p) = ((Separator(k) \o p.key) \o <<Equals>>) \o p.value
  BY DEF Joined, Separator
<1> QED
  BY <1>1, <1>2, PairToken DEF Token

\* A text written at an offset leaves what is before it alone, and ends in a NUL.
LEMMA WrittenThere ==
  ASSUME NEW size \in Nat, NEW mem \in [1 .. size -> Cells], NEW at \in Nat,
         NEW s \in Seq(Byte), at + Len(s) < size
  PROVE  /\ \A m \in 1 .. at : Written(mem, at, s)[m] = mem[m]
         /\ \A m \in 1 .. Len(s) : Written(mem, at, s)[at + m] = s[m]
         /\ Written(mem, at, s)[at + Len(s) + 1] = NUL
<1>0. PICK L \in Nat : L = Len(s) /\ DOMAIN s = 1 .. L /\ at + L < size
  BY LenProperties
<1>1. \A n \in 1 .. size :
        Written(mem, at, s)[n] = IF n - at \in 1 .. L THEN s[n - at]
                                 ELSE IF n - at = L + 1 THEN NUL ELSE mem[n]
  BY <1>0 DEF Written
<1>2. ASSUME NEW m \in 1 .. at PROVE Written(mem, at, s)[m] = mem[m]
  <2>1. m \in 1 .. size /\ ~(m - at \in 1 .. L) /\ ~(m - at = L + 1)
    BY <1>0
  <2> QED
    BY <1>1, <2>1
<1>3. ASSUME NEW m \in 1 .. L PROVE Written(mem, at, s)[at + m] = s[m]
  <2>1. at + m \in 1 .. size /\ (at + m) - at \in 1 .. L /\ (at + m) - at = m
    BY <1>0
  <2> QED
    BY <1>1, <2>1
<1>4. Written(mem, at, s)[at + L + 1] = NUL
  <2>1. /\ at + L + 1 \in 1 .. size /\ ~((at + L + 1) - at \in 1 .. L)
        /\ (at + L + 1) - at = L + 1
    BY <1>0
  <2> QED
    BY <1>1, <2>1
<1> QED
  BY <1>0, <1>2, <1>3, <1>4

\* The text in the buffer is the join of the pairs, at every step.
THEOREM TextInductive == Spec => []TextInv
<1>1. Init => TextInv
  <2> SUFFICES ASSUME Init PROVE TextInv
    OBVIOUS
  <2>1. i = 0 /\ pos = 0 /\ pc = "start"
    BY DEF Init
  <2>2. Appended = <<>>
    BY <2>1 DEF Appended
  <2>3. <<>> \in Seq(Byte) /\ Len(<<>>) = 0
    BY EmptySeq
  <2>4. Joins([k \in 0 .. 0 |-> 0], <<>>, Appended)
    BY <2>2, JoinStarts
  <2>5. \E T \in Seq(Byte) : \E p :
          /\ Len(T) = pos /\ Joins(p, T, Appended)
          /\ pc # "start" => \A m \in 1 .. pos : out[m] = T[m]
    BY <2>1, <2>3, <2>4
  <2> QED
    BY <2>1, <2>5 DEF TextInv
<1>2. BufferInv /\ TextInv /\ [Next]_vars => TextInv'
  <2> SUFFICES ASSUME BufferInv, TextInv, [Next]_vars PROVE TextInv'
    OBVIOUS
  <2>0. /\ Len(pairs) \in Nat /\ i \in Nat /\ cap \in Nat /\ pos \in Nat
        /\ pairs \in Seq(Pair) /\ out \in [1 .. cap -> Cells]
    BY LenProperties DEF BufferInv, TypeOK, Cells
  <2>7. PICK T \in Seq(Byte) : \E p :
           /\ Len(T) = pos /\ Joins(p, T, Appended)
           /\ pc # "start" => \A m \in 1 .. pos : out[m] = T[m]
    BY DEF TextInv
  <2>6. PICK p :
           /\ Len(T) = pos /\ Joins(p, T, Appended)
           /\ pc # "start" => \A m \in 1 .. pos : out[m] = T[m]
    BY <2>7
  <2>1. CASE Start
    <3>1. pos = 0 /\ i = 0 /\ pos' = pos /\ i' = i /\ pairs' = pairs /\ pc' \in {"terminate", "append"}
      BY <2>1 DEF Start, TextInv
    <3>2. pc' = "terminate" => i' = Len(pairs')
      <4>1. pc' = "terminate" => pairs = <<>>
        BY <2>1 DEF Start
      <4>2. Len(<<>>) = 0
        OBVIOUS
      <4> QED
        BY <3>1, <4>1, <4>2
    <3>3. Appended' = Appended
      BY <3>1 DEF Appended
    <3>4. \A m \in 1 .. pos' : out'[m] = T[m]
      BY <3>1
    <3> QED
      BY <2>6, <3>1, <3>2, <3>3, <3>4 DEF TextInv
  <2>2. CASE Grow
    <3>1. /\ pc = "append" /\ pc' = pc /\ pos' = pos /\ i' = i /\ pairs' = pairs
          /\ cap' = 2 * cap /\ out' = Resized(out, cap') /\ pos < cap
      BY <2>2 DEF Grow, Doubled, BufferInv, RoomInv
    <3>2. \A m \in 1 .. pos' : out'[m] = T[m]
      <4> TAKE m \in 1 .. pos'
      <4>1. m \in 1 .. pos /\ m \in 1 .. cap /\ m \in 1 .. cap' /\ m \in DOMAIN out
        BY <2>0, <3>1
      <4>2. out'[m] = out[m]
        BY <3>1, <4>1 DEF Resized
      <4> QED
        BY <2>6, <3>1, <4>1, <4>2
    <3>3. Appended' = Appended
      BY <3>1 DEF Appended
    <3> QED
      BY <2>6, <3>1, <3>2, <3>3 DEF TextInv
  <2>3. CASE AppendPair
    <3>1. /\ pc = "append" /\ pairs' = pairs /\ i' = i + 1 /\ cap' = cap
          /\ pc' = IF i' = Len(pairs) THEN "terminate" ELSE "append"
          /\ out' = Written(out, pos, Joined(i, pairs[i + 1]))
          /\ pos' = pos + Len(Joined(i, pairs[i + 1]))
      BY <2>3 DEF AppendPair, Write
    <3>2. i + 1 \in 1 .. Len(pairs)
      BY <2>0, <3>1 DEF BufferInv, RoomInv
    <3>3. pairs[i + 1] \in Pair
      BY <2>0, <3>2, ElementOfSeq
    <3>4. PICK x \in Seq(Byte \ {Amp}) : x = Token(pairs[i + 1]) /\ x # <<>>
      BY <3>3, TokenIs
    <3>5. PICK s \in Seq(Byte) : /\ s = Joined(i, pairs[i + 1]) /\ s = Separator(i) \o x
                                 /\ Len(s) <= Need(pairs[i + 1])
      BY <2>0, <3>3, <3>4, JoinedIs, TokenIs
    <3>6. Need(pairs[i + 1]) \in Nat /\ Len(s) \in Nat
      BY <2>0, <3>3, JoinedIs, LenProperties
    <3>7. pos + Len(s) < cap
      BY <2>0, <2>3, <3>5, <3>6 DEF AppendPair, HasRoom
    <3>8. /\ \A m \in 1 .. pos : out'[m] = out[m]
          /\ \A m \in 1 .. Len(s) : out'[pos + m] = s[m]
      <4>1. out' = Written(out, pos, s)
        BY <3>1, <3>5
      <4>2. /\ \A m \in 1 .. pos : Written(out, pos, s)[m] = out[m]
            /\ \A m \in 1 .. Len(s) : Written(out, pos, s)[pos + m] = s[m]
        BY <2>0, <3>7, WrittenThere, ZenonT(40)
      <4> QED
        BY <4>1, <4>2, Zenon
    <3>9. Len(Appended) = i
      BY <2>0 DEF Appended
    <3>10. Append(Appended, x) = Appended'
      <4>1. Appended' = [k \in 1 .. i + 1 |-> Token(pairs[k])]
        BY <3>1 DEF Appended
      <4>2. Append(Appended, x) = [k \in 1 .. i + 1 |-> IF k <= i THEN Appended[k] ELSE x]
        BY <2>0, <3>9 DEF Appended
      <4>3. \A k \in 1 .. i + 1 : (IF k <= i THEN Appended[k] ELSE x) = Token(pairs[k])
        <5> TAKE k \in 1 .. i + 1
        <5>1. k <= i => k \in 1 .. i
          BY <2>0
        <5>2. ~(k <= i) => k = i + 1
          BY <2>0
        <5> QED
          BY <3>4, <5>1, <5>2 DEF Appended
      <4> QED
        BY <4>1, <4>2, <4>3
    <3>11. PICK U \in Seq(Byte) :
             /\ U = T \o s /\ Len(U) = pos + Len(s)
             /\ \A m \in 1 .. pos + Len(s) : U[m] = IF m <= pos THEN T[m] ELSE s[m - pos]
      <4>1. /\ T \o s \in Seq(Byte) /\ Len(T \o s) = Len(T) + Len(s)
            /\ \A m \in 1 .. Len(T) + Len(s) :
                 (T \o s)[m] = IF m <= Len(T) THEN T[m] ELSE s[m - Len(T)]
        BY ConcatProperties
      <4> QED
        BY <2>6, <4>1, Zenon
    <3>12. U = (T \o Separator(i)) \o x
      <4>1. x \in Seq(Byte) /\ Separator(i) \in Seq(Byte)
        BY <2>0, SeqMonotonic, SeparatorIs
      <4>2. (T \o Separator(i)) \o x = T \o (Separator(i) \o x)
        BY <4>1, AssociativeText, ZenonT(40)
      <4> QED
        BY <3>5, <3>11, <4>2, Zenon
    <3>13. \E q : Joins(q, U, Appended')
      BY <2>6, <3>4, <3>9, <3>10, <3>12, JoinGrows
    <3>14. pos' = pos + Len(s)
      BY <3>1, <3>5
    <3>15. \A m \in 1 .. pos' : out'[m] = U[m]
      <4> TAKE m \in 1 .. pos'
      <4>1. CASE m <= pos
        <5>1. m \in 1 .. pos /\ m \in 1 .. pos + Len(s)
          BY <2>0, <3>6, <3>14, <4>1
        <5> QED
          BY <2>6, <3>1, <3>8, <3>11, <4>1, <5>1
      <4>2. CASE ~(m <= pos)
        <5>1. m \in 1 .. pos + Len(s) /\ m - pos \in 1 .. Len(s) /\ pos + (m - pos) = m
          BY <2>0, <3>6, <3>14, <4>2
        <5>2. out'[m] = s[m - pos]
          BY <3>8, <5>1
        <5> QED
          BY <3>11, <4>2, <5>1, <5>2
      <4> QED
        BY <4>1, <4>2
    <3>16. pc' \in {"terminate", "append"} /\ (pc' = "terminate" => i' = Len(pairs'))
      BY <3>1
    <3> QED
      BY <3>11, <3>13, <3>14, <3>15, <3>16 DEF TextInv
  <2>4. CASE Terminate
    <3>1. /\ pc = "terminate" /\ pc' = "done" /\ pairs' = pairs /\ i' = i /\ cap' = cap
          /\ out' = Written(out, pos, <<>>) /\ pos' = pos + Len(<<>>) /\ pos < cap
          /\ i = Len(pairs)
      BY <2>4 DEF Terminate, Write, BufferInv, RoomInv, TextInv
    <3>2. <<>> \in Seq(Byte) /\ Len(<<>>) = 0 /\ pos + 0 = pos
      BY <2>0, EmptySeq
    <3>3. pos' = pos /\ pos + Len(<<>>) < cap
      BY <3>1, <3>2
    <3>4. /\ \A m \in 1 .. pos : out'[m] = out[m]
          /\ out'[pos + Len(<<>>) + 1] = NUL
      <4>1. PICK s \in Seq(Byte) : s = <<>> /\ pos + Len(s) < cap
        BY <3>2, <3>3, Zenon
      <4>2. /\ \A m \in 1 .. pos : Written(out, pos, s)[m] = out[m]
            /\ Written(out, pos, s)[pos + Len(s) + 1] = NUL
        <5>1. pos + Len(s) < cap
          BY <4>1
        <5> QED
          BY <2>0, <5>1, WrittenThere, SMTT(30)
      <4> QED
        BY <3>1, <4>1, <4>2, Zenon
    <3>5. out'[pos' + 1] = NUL
      BY <3>2, <3>3, <3>4
    <3>6. \A m \in 1 .. pos' : out'[m] = T[m]
      BY <2>6, <3>1, <3>3, <3>4
    <3>7. Appended' = Appended
      BY <3>1 DEF Appended
    <3> QED
      BY <2>6, <3>1, <3>3, <3>5, <3>6, <3>7 DEF TextInv
  <2>5. CASE UNCHANGED vars
    BY <2>5 DEF vars, TextInv, Appended
  <2> QED
    BY <2>1, <2>2, <2>3, <2>4, <2>5 DEF Next
<1> QED
  BY <1>1, <1>2, BufferInductive, PTL DEF Spec

\* Cutting the text at its separators gives back the pairs it was made of, for
\* every list: no pair, byte or separator is lost, and no untouched byte of the
\* heap is part of it.
THEOREM EncodeTakesApart == Spec => []TakesApart
<1>1. BufferInv /\ TextInv => TakesApart
  <2> SUFFICES ASSUME BufferInv, TextInv, pc = "done" PROVE TakesApart
    BY DEF TakesApart
  <2>0. /\ Len(pairs) \in Nat /\ i = Len(pairs) /\ cap \in Nat /\ pos \in Nat /\ pos < cap
        /\ pairs \in Seq(Pair) /\ out \in [1 .. cap -> Cells]
    BY LenProperties DEF BufferInv, TypeOK, Cells, TextInv
  <2>9. PICK T \in Seq(Byte) : \E p :
          /\ Len(T) = pos /\ Joins(p, T, Appended)
          /\ \A m \in 1 .. pos : out[m] = T[m]
    BY DEF TextInv
  <2>1. PICK p :
          /\ Len(T) = pos /\ Joins(p, T, Appended)
          /\ \A m \in 1 .. pos : out[m] = T[m]
    BY <2>9
  <2>2. Len(out) = cap
    BY <2>0
  <2>3. Strlen(out) = pos
    <3>1. StopsAt(out, pos)
      BY DEF StopsAt, TextInv, NUL
    <3>2. \A m \in 0 .. pos - 1 : ~StopsAt(out, m)
      <4> TAKE m \in 0 .. pos - 1
      <4>1. m + 1 \in 1 .. pos /\ m # cap
        BY <2>0
      <4>2. out[m + 1] \in Byte
        BY <2>1, <4>1, ElementOfSeq
      <4>3. out[m + 1] # 0
        <5>1. PICK w \in Byte : w = out[m + 1]
          BY <4>2
        <5>2. w # 0
          BY DEF Byte
        <5> QED
          BY <5>1, <5>2
      <4> QED
        BY <2>2, <4>1, <4>3, Zenon DEF StopsAt
    <3>3. Len(out) \in Nat /\ pos \in 0 .. Len(out)
      BY <2>0, <2>2
    <3> QED
      BY <3>1, <3>2, <3>3, StrlenAt
  <2>4. CString(out) = T
    <3>1. \A m \in 1 .. pos : out[m] \in Byte
      BY <2>1, ElementOfSeq
    <3>2. /\ SubSeq(out, 1, pos) \in Seq(Byte)
          /\ Len(SubSeq(out, 1, pos)) = IF 1 <= pos THEN pos - 1 + 1 ELSE 0
          /\ \A m \in 1 .. pos - 1 + 1 : SubSeq(out, 1, pos)[m] = out[1 + m - 1]
      BY <2>0, <3>1, SubSeqProperties
    <3>3. Len(SubSeq(out, 1, pos)) = pos
      BY <2>0, <3>2
    <3>4. \A m \in 1 .. pos : SubSeq(out, 1, pos)[m] = T[m]
      <4> TAKE m \in 1 .. pos
      <4>1. m \in 1 .. pos - 1 + 1 /\ 1 + m - 1 = m
        BY <2>0
      <4> QED
        BY <2>1, <3>2, <4>1
    <3>5. SubSeq(out, 1, pos) = T
      BY <2>1, <3>2, <3>3, <3>4, SeqEqual
    <3> QED
      BY <2>3, <3>5 DEF CString
  <2>5. Tokens(T) = Appended
    BY <2>1, JoinTakenApart
  <2>6. DOMAIN Appended = 1 .. Len(pairs) /\ \A k \in 1 .. Len(pairs) : Appended[k] = Token(pairs[k])
    BY <2>0 DEF Appended
  <2> DEFINE back(k) == [key |-> KeyOf(Appended[k]), value |-> ValueOf(Appended[k])]
  <2>7. \A k \in 1 .. Len(pairs) : back(k) = pairs[k]
    <3> TAKE k \in 1 .. Len(pairs)
    <3>1. pairs[k] \in Pair
      BY <2>0, ElementOfSeq
    <3>2. KeyOf(Appended[k]) = pairs[k].key /\ ValueOf(Appended[k]) = pairs[k].value
      BY <2>6, <3>1, TokenIs
    <3>3. pairs[k] = [key |-> pairs[k].key, value |-> pairs[k].value]
      BY <3>1 DEF Pair
    <3> QED
      BY <3>2, <3>3
  <2>8. [k \in DOMAIN Appended |-> back(k)] = pairs
    <3> HIDE DEF back
    <3>1. pairs = [k \in 1 .. Len(pairs) |-> pairs[k]]
      BY <2>0
    <3> QED
      BY <2>6, <2>7, <3>1
  <2> QED
    BY <2>1, <2>4, <2>5, <2>8 DEF TakesApart
<1> QED
  BY <1>1, BufferInductive, TextInductive, PTL

================================================================================
