--------------------------------- MODULE Ladon ---------------------------------
(***************************************************************************)
(* The cipher of src/src/ladon.c: the table of round keys that             *)
(* encrypt_ladon derives from 32 hexadecimal digits, the 34 rounds of      *)
(* encrypt_ladon_input, and how a receiver takes them back.                *)
(***************************************************************************)
EXTENDS Words

Rounds == 34
Block  == Word(64) \X Word(64)

\* After i rounds of the schedule: buffer_b0, buffer_b8, of queue the two words
\* that are still to be read, and hash_table as far as it is filled.
State == [b0 : Word(64), b8 : Word(64), queue : Block, table : Seq(Word(64))]
Start(hex) ==
  LET temp == [k \in 1 .. 4 |-> FromLittle(hex, 8 * (k - 1))]
  IN  [b0 |-> temp[1], b8 |-> temp[2], queue |-> <<temp[3], temp[4]>>, table |-> <<temp[1]>>]

Scheduled(s, i) ==
  LET sum  == Xor(Add(64, Ror(64, s.b8, 8), s.b0), Bits(i))
      word == Xor(sum, Ror(64, s.b0, 61))
  IN  [b0    |-> word,
       b8    |-> s.queue[1],
       queue |-> <<s.queue[2], sum>>,
       table |-> Append(s.table, word)]

KeyTable(hex) ==
  LET from[x \in (0 .. Rounds) \X State] ==
        IF x[1] = Rounds THEN x[2] ELSE from[<<x[1] + 1, Scheduled(x[2], x[1])>>]
  IN  from[<<0, Start(hex)>>].table

\* One round on <<data0, data1>>, and all of them on a block of 16 bytes.
Round(d, hash) ==
  LET data1 == Xor(hash, Add(64, d[1], Ror(64, d[2], 8)))
  IN  <<Xor(data1, Ror(64, d[1], 61)), data1>>

Encrypt(table, d) ==
  LET from[x \in (0 .. Rounds) \X Block] ==
        IF x[1] = Rounds THEN x[2] ELSE from[<<x[1] + 1, Round(x[2], table[x[1] + 1])>>]
  IN  from[<<0, d>>]

--------------------------------------------------------------------------------
\* The receiver's side.
RoundBack(d, hash) ==
  LET data0 == Rol(64, Xor(d[1], d[2]), 61)
  IN  <<data0, Rol(64, Sub(64, Xor(d[2], hash), data0), 8)>>

Decrypt(table, d) ==
  LET back[x \in (0 .. Rounds) \X Block] ==
        IF x[1] = 0 THEN x[2] ELSE back[<<x[1] - 1, RoundBack(x[2], table[x[1]])>>]
  IN  back[<<Rounds, d>>]

================================================================================
