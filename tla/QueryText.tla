------------------------------- MODULE QueryText -------------------------------
(***************************************************************************)
(* Url-encoded text: the characters that quote_plus keeps or escapes, what *)
(* unquote_plus makes of a text, and how strtok_r and strchr take a query  *)
(* apart.  A C string is a sequence of non-zero bytes; positions count     *)
(* from 1, so that position n is the offset n - 1 of the code.  A          *)
(* definition named X_Y is X with a mistake, as in Signer.                *)
(***************************************************************************)
EXTENDS Integers, SequencesExt

Byte    == 1 .. 255
Space   == 32
Percent == 37
Amp     == 38
Plus    == 43
Equals  == 61

Digits    == 48 .. 57
UpperCase == 65 .. 90
LowerCase == 97 .. 122

Unreserved_subDelims == Digits \cup UpperCase \cup LowerCase \cup {45, 46, 95, 126, Amp, Equals}
Unreserved == Digits \cup UpperCase \cup LowerCase \cup {45, 46, 95, 126}

\* A digit of HEX_UPPER.
HexUpper(v) == IF v < 10 THEN 48 + v ELSE 55 + v

\* What quote_plus puts out for one byte.
QuotedByte(c) ==
  IF c \in Unreserved THEN <<c>>
  ELSE IF c = Space THEN <<Plus>>
  ELSE <<Percent, HexUpper(c \div 16), HexUpper(c % 16)>>

\* The value of a hexadecimal digit of either case, and -1 for other bytes.
HexDigit(c) ==
  IF c \in Digits THEN c - 48
  ELSE IF c \in 65 .. 70 THEN c - 55
  ELSE IF c \in 97 .. 102 THEN c - 87
  ELSE -1

\* Whether the byte at position n begins an escape that lies within the text.
LooksAhead_short(s, n) == s[n] = Percent /\ n + 2 < Len(s)
LooksAhead(s, n) == s[n] = Percent /\ n + 2 <= Len(s)
IsEscape(s, n)   == LooksAhead(s, n) /\ HexDigit(s[n + 1]) >= 0 /\ HexDigit(s[n + 2]) >= 0

\* How far unquote_plus moves at position n, and the byte it puts out there.
Width(s, n)        == IF IsEscape(s, n) THEN 3 ELSE 1
UnquotedByte(s, n) ==
  IF s[n] = Plus THEN Space
  ELSE IF IsEscape(s, n) THEN 16 * HexDigit(s[n + 1]) + HexDigit(s[n + 2])
  ELSE s[n]

\* A C string ends at its first zero byte: "%00" cuts a text short.
StopsAt(s, n)   == n = Len(s) \/ s[n + 1] = 0
Strlen(s)       == CHOOSE n \in 0 .. Len(s) : StopsAt(s, n) /\ \A m \in 0 .. n - 1 : ~StopsAt(s, m)
CString_keepsNul(s) == s
CString(s)      == SubSeq(s, 1, Strlen(s))

Unquoted(s) ==
  LET from[n \in 1 .. Len(s) + 3] ==
        IF n > Len(s) THEN <<>>
        ELSE <<UnquotedByte(s, n)>> \o from[n + Width(s, n)]
  IN  CString(from[1])

--------------------------------------------------------------------------------
\* A finite set of numbers in their order: the k-th has k - 1 below it.  This is
\* SetToSortSeq(S, <), in a form that proofs can use.
Below(S, n) == Cardinality({m \in S : m < n})
InOrder(S)  == [k \in 1 .. Cardinality(S) |-> CHOOSE n \in S : Below(S, n) = k - 1]

\* strtok_r(s, "&"): the maximal runs without an Amp, so no token is empty.
TokenStarts(s)  == {n \in DOMAIN s : s[n] # Amp /\ (n = 1 \/ s[n - 1] = Amp)}
TokenStop(s, n) == Min({m \in n .. Len(s) + 1 : m = Len(s) + 1 \/ s[m] = Amp})
Tokens(s) ==
  [k \in 1 .. Len(InOrder(TokenStarts(s))) |->
     LET n == InOrder(TokenStarts(s))[k] IN SubSeq(s, n, TokenStop(s, n) - 1)]

\* strchr(token, '='): the text before and after the first Equals; a token
\* without one has no value.
EqualsAt(t)   == SelectInSeq(t, LAMBDA c : c = Equals)
HasEquals(t)  == EqualsAt(t) # 0
KeyOf(t)      == IF HasEquals(t) THEN SubSeq(t, 1, EqualsAt(t) - 1) ELSE t
ValueOf(t)    == IF HasEquals(t) THEN SubSeq(t, EqualsAt(t) + 1, Len(t)) ELSE <<>>

================================================================================
