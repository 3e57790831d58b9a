--------------------------------- MODULE Simon ---------------------------------
(***************************************************************************)
(* simon_encrypt of src/src/simon.c, which argus_encrypt applies to every  *)
(* block, and how its receiver takes it back.                              *)
(***************************************************************************)
EXTENDS Words

Rounds == 72
Block  == Word(64) \X Word(64)

\* Z: bit (i - 4) % 62 of 0x3DC94C3A046D678B goes into round key i.
Z == {0, 1, 3, 7, 8, 9, 10, 13, 14, 16, 18, 19, 21, 22, 26, 33, 35, 36, 37, 42, 43,
      46, 48, 51, 54, 55, 56, 58, 59, 60, 61}

\* The round keys, of four words of key.  Keys count from 0, sequences from 1.
NextKey(ks) ==
  LET i   == Len(ks)
      tmp == Xor(Ror(64, ks[i], 3), ks[i - 2])
      bit == IF (i - 4) % 62 \in Z THEN {0} ELSE {}
  IN  Xor(Xor(Not(64, ks[i - 3]), Xor(tmp, Ror(64, tmp, 1))), Xor(bit, {0, 1}))

Schedule(key) ==
  LET grown[ks \in {s \in Seq(Word(64)) : Len(s) >= 4}] ==
        IF Len(ks) = Rounds THEN ks ELSE grown[Append(ks, NextKey(ks))]
  IN  grown[key]

F(y) == Xor(Rol(64, y, 1) \cap Rol(64, y, 8), Rol(64, y, 2))

\* One round, of the pair <<x, y>>; the whole cipher with round keys ks.
Round(p, k) == <<p[2], Xor(Xor(p[1], F(p[2])), k)>>
Encrypt(ks, p) ==
  LET from[x \in (0 .. Rounds) \X Block] ==
        IF x[1] = Rounds THEN x[2] ELSE from[<<x[1] + 1, Round(x[2], ks[x[1] + 1])>>]
  IN  from[<<0, p>>]

--------------------------------------------------------------------------------
\* The receiver's side.
RoundBack(p, k) == <<Xor(Xor(p[2], F(p[1])), k), p[1]>>
Decrypt(ks, p) ==
  LET back[x \in (0 .. Rounds) \X Block] ==
        IF x[1] = 0 THEN x[2] ELSE back[<<x[1] - 1, RoundBack(x[2], ks[x[1]])>>]
  IN  back[<<Rounds, p>>]

================================================================================
