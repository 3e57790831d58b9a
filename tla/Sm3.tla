---------------------------------- MODULE Sm3 ----------------------------------
(***************************************************************************)
(* sm3_hash of src/src/sm3.c: its padding, computed from the length modulo *)
(* 64 in two cases and with the length in an int, and the compression of   *)
(* the blocks.  Allocations that fail are left out here.                   *)
(*                                                                         *)
(* A definition named X_Y is X with a mistake, as in Signer.               *)
(***************************************************************************)
EXTENDS Words

W32(hi, lo) == {16 + b : b \in Bits(hi)} \cup Bits(lo)

IV == << W32(29568, 5743), W32(18708, 45753), W32(5924, 17111), W32(55946, 1536),
         W32(43375, 12476), W32(5681, 14506), W32(58253, 61005), W32(45307, 3662) >>

T(j)  == IF j < 16 THEN W32(31180, 17689) ELSE W32(31367, 40330)

Xor3(a, b, c) == Xor(Xor(a, b), c)
Ff(x, y, z, j) == IF j < 16 THEN Xor3(x, y, z) ELSE (x \cap y) \cup (x \cap z) \cup (y \cap z)
Gg(x, y, z, j) == IF j < 16 THEN Xor3(x, y, z) ELSE (x \cap y) \cup (z \ x)
P0(x) == Xor3(x, Rol(32, x, 9), Rol(32, x, 17))
P1(x) == Xor3(x, Rol(32, x, 15), Rol(32, x, 23))

--------------------------------------------------------------------------------
\* The bytes before the length: message, 0x80, and zeros up to 56 bytes into a
\* block.  `reserve' counts the bytes in the last block that hold message or 0x80.
RangeEnd_atMost(reserve) == IF reserve >= 56 THEN 120 ELSE 56
RangeEnd(reserve) == IF reserve > 56 THEN 120 ELSE 56

\* (int)len: the low 32 bits, as a signed number.
GiB == 1073741824    \* 2^30; TLC's integers end at 2^31 - 1
Int32(n) ==
  LET top == (n \div GiB) % 4
  IN  (n % GiB) + GiB * (IF top < 2 THEN top ELSE top - 4)

\* (uint64_t)n, and bit_len.
Bits64(n) == Bits(n % GiB) \cup {30 + b : b \in Bits((n \div GiB) % GiB)}
                           \cup {60 + b : b \in Bits(((n \div GiB) \div GiB) % 16)}
BitLen(len) == Cut(64, {b + 3 : b \in Bits64(len)})

\* `total' is computed from an int, so a length of more than MaxLen overflows it or
\* comes out smaller or huge.  calloc then fails, or the text is copied past the
\* buffer: what follows is not described by Padded.
MaxLen == 2147483647 - 64
Padded(msg) ==
  LET reserve   == (Len(msg) % 64) + 1
      pad_start == Int32(Len(msg)) + 1
      total     == pad_start + (RangeEnd(reserve) - reserve)
  IN  msg \o <<{7}>> \o Repeated({}, total - (Len(msg) + 1)) \o BigEndian(8, BitLen(Len(msg)))

\* The message schedule of a block: w[0 .. 67], as a sequence from 1.
NextWord(v) ==
  LET j == Len(v) + 1
      x == P1(Xor3(v[j - 16], v[j - 9], Rol(32, v[j - 3], 15)))
  IN  Xor3(x, Rol(32, v[j - 13], 7), v[j - 6])

Expanded(block) ==
  LET grown[v \in Seq(Word(32))] == IF Len(v) = 68 THEN v ELSE grown[Append(v, NextWord(v))]
  IN  grown[[k \in 1 .. 16 |-> FromBig(block, 4 * (k - 1))]]

\* One round on the words a .. h, and the compression of a block into v.
Mixed(s, w, j) ==
  LET a12 == Rol(32, s[1], 12)
      ss1 == Rol(32, Add(32, Add(32, a12, s[5]), Rol(32, T(j), j)), 7)
      ss2 == Xor(ss1, a12)
      tt1 == Add(32, Add(32, Ff(s[1], s[2], s[3], j), s[4]), Add(32, ss2, Xor(w[j + 1], w[j + 5])))
      tt2 == Add(32, Add(32, Gg(s[5], s[6], s[7], j), s[8]), Add(32, ss1, w[j + 1]))
  IN  <<tt1, s[1], Rol(32, s[2], 9), s[3], P0(tt2), s[5], Rol(32, s[6], 19), s[7]>>

Compressed(v, block) ==
  LET w == Expanded(block)
      from[j \in 0 .. 64, s \in Seq(Word(32))] == IF j = 64 THEN s ELSE from[j + 1, Mixed(s, w, j)]
  IN  XorEach(v, from[0, v])

\* The words of a hash, highest octet first.
Digest(v) == [k \in 1 .. 32 |-> Low(v[(k - 1) \div 4 + 1], 3 - ((k - 1) % 4))]

\* Whole blocks only: total / 64 of them.
Hash(msg) ==
  LET m     == Padded(msg)
      total == Len(m) \div 64
      v[i \in 0 .. total] == IF i = 0 THEN IV ELSE Compressed(v[i - 1], Slice(m, 64 * (i - 1), 64))
  IN  Digest(v[total])

--------------------------------------------------------------------------------
\* The standard: a one, the fewest zeros that fill whole blocks, and the number of
\* bits in eight octets, each of them the quotient of 8 * n and a power of 256.
LengthOctets(n) ==
  << {}, {}, {}, Byte(n \div 536870912), Byte(n \div 2097152), Byte(n \div 8192),
     Byte(n \div 32), Byte(8 * (n % 32)) >>
StandardPadding(msg) ==
  LET filled(z) == (Len(msg) + 1 + z + 8) % 64 = 0
      zeros     == CHOOSE z \in 0 .. 63 : filled(z)
  IN  msg \o <<{7}>> \o Repeated({}, zeros) \o LengthOctets(Len(msg))

================================================================================
