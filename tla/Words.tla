--------------------------------- MODULE Words ---------------------------------
(***************************************************************************)
(* Unsigned C integers as sets: a word is the set of the positions of its  *)
(* one bits.  The ciphers of this library work on 64-bit words, which      *)
(* TLC's integers do not hold; as sets they keep their real width.         *)
(***************************************************************************)
EXTENDS Integers, Sequences

Word(w) == SUBSET (0 .. w - 1)
Octet   == Word(8)


\* The word of a natural number, its low byte, and one of each number of a sequence.
Bits(n)    == {i \in 0 .. 30 : (n \div 2 ^ i) % 2 = 1}
Byte(n)    == Bits(n) \cap (0 .. 7)
Octets(ns) == [k \in DOMAIN ns |-> Byte(ns[k])]

Xor(a, b)    == (a \ b) \cup (b \ a)
Not(w, a)    == (0 .. w - 1) \ a
Cut(w, a)    == a \cap (0 .. w - 1)
Shr(a, n)    == {b - n : b \in {c \in a : c >= n}}
Rol(w, a, n) == {(b + n) % w : b \in a}
Ror(w, a, n) == {(b - n) % w : b \in a}

\* Addition modulo 2^w.  A carry into bit i starts below it and is passed on.
Carry(a, b, i) ==
  \E j \in a \cap b : j < i /\ \A k \in j + 1 .. i - 1 : k \in a \cup b
Add(w, a, b) == {i \in 0 .. w - 1 : (i \in Xor(a, b)) # Carry(a, b, i)}
Negated(w, a) == Add(w, Not(w, a), {0})
Sub(w, a, b)  == Add(w, a, Negated(w, b))

\* Octets of a word, lowest first, and back: le64_write and le64_read.
Low(a, k)       == {b \in 0 .. 7 : 8 * k + b \in a}
LittleEndian(a) == [k \in 1 .. 8 |-> Low(a, k - 1)]
FromLittle(s, off) == UNION {{8 * k + b : b \in s[off + k + 1]} : k \in 0 .. 7}

\* w octets of a word, highest first, and four octets back.
BigEndian(w, a)  == [k \in 1 .. w |-> Low(a, w - k)]
FromBig(s, off)  == UNION {{8 * (3 - k) + b : b \in s[off + k + 1]} : k \in 0 .. 3}

XorEach(s, t)     == [k \in DOMAIN s |-> Xor(s[k], t[k])]
Repeated(x, n)    == [k \in 1 .. n |-> x]
Slice(s, off, n)  == SubSeq(s, off + 1, off + n)

================================================================================
