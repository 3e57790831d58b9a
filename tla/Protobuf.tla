-------------------------------- MODULE Protobuf --------------------------------
(***************************************************************************)
(* src/src/protobuf.c.  A field is written as its key and its value; what  *)
(* is written is the sequence of the bytes from the start of the buffer,   *)
(* Junk where a text was left out because it did not fit.                  *)
(*                                                                         *)
(* A definition named X_Y is X with a mistake, as in Signer.               *)
(***************************************************************************)
EXTENDS Words

Text  == Seq(Octet)
Field == [idx : Nat, kind : {0, 2}, varint : Word(64), data : Text]
Junk  == {8}     \* no octet

VarintField(idx, v) == [idx |-> idx, kind |-> 0, varint |-> v, data |-> <<>>]
StringField(idx, s) == [idx |-> idx, kind |-> 2, varint |-> {}, data |-> s]

\* vint > 0x80, where a standard varint goes on from 0x80.
GoesOn_standard(v) == \E b \in v : b >= 7
GoesOn(v) == v # {7} /\ \E b \in v : b >= 7

Varint_uncut(vint) ==
  LET from[v \in Word(64)] ==
        IF GoesOn(v) THEN <<Cut(7, v) \cup {7}>> \o from[Shr(v, 7)] ELSE <<Cut(7, v)>>
  IN  from[vint]
Varint(vint) ==
  LET from[v \in Word(32)] ==
        IF GoesOn(v) THEN <<Cut(7, v) \cup {7}>> \o from[Shr(v, 7)] ELSE <<Cut(7, v)>>
  IN  from[Cut(32, vint)]

\* One round of the loop of pb_serialize, on what was written so far.  A text that
\* does not fit is counted all the same.
Copies(pos, len, cap) == pos + len <= cap

Key(f) == Bits(8 * f.idx + f.kind)

Put(out, f, cap) ==
  IF f.kind = 0
  THEN out \o Varint(Key(f)) \o Varint(f.varint)
  ELSE LET before == out \o Varint(Key(f)) \o Varint(Bits(Len(f.data)))
       IN  before \o IF Copies(Len(before), Len(f.data), cap) THEN f.data
                     ELSE Repeated(Junk, Len(f.data))

Serialized(fields, cap) ==
  LET upTo[n \in 0 .. Len(fields)] ==
        IF n = 0 THEN <<>> ELSE LET out == upTo[n - 1] IN Put(out, fields[n], cap)
  IN  upTo[Len(fields)]

--------------------------------------------------------------------------------
(* A reader of standard protobuf, for bytes that keep to it *)

VarintEnd(s, at) == CHOOSE n \in at .. at + 9 : 7 \notin s[n] /\ \A m \in at .. n - 1 : 7 \in s[m]
VarintAt(s, at)  == UNION {{7 * (n - at) + b : b \in s[n] \ {7}} : n \in at .. VarintEnd(s, at)}

Number(v) ==
  LET upTo[i \in 0 .. 20] == IF i = 0 THEN 0 ELSE upTo[i - 1] + IF i - 1 \in v THEN 2 ^ (i - 1) ELSE 0
  IN  upTo[20]

\* The field that starts at an offset, and the offset behind it.
FieldAt(s, at) ==
  LET key  == VarintAt(s, at)
      next == VarintEnd(s, at) + 1
      v    == VarintAt(s, next)
      end  == VarintEnd(s, next) + 1
      idx  == Number(Shr(key, 3))
  IN  IF Cut(3, key) = {}
      THEN [field |-> VarintField(idx, v), next |-> end]
      ELSE [field |-> StringField(idx, SubSeq(s, end, end + Number(v) - 1)), next |-> end + Number(v)]

\* From its first byte to its last, s reads as the fields of the sequence fs.
ReadsAs(s, fs) ==
  LET start[k \in 0 .. Len(fs)] == IF k = 0 THEN 1 ELSE FieldAt(s, start[k - 1]).next
  IN  /\ start[Len(fs)] = Len(s) + 1
      /\ \A k \in 1 .. Len(fs) : FieldAt(s, start[k - 1]).field = fs[k]

\* The quirk: a value that is 0x80 after some shifts loses its highest bit; all
\* others keep their low 32 bits.
Quirk(v) == \E k \in 0 .. 4 : Shr(v, 7 * k) = {7}
Received(v) ==
  LET low == Cut(32, v)
  IN  IF Quirk(low) THEN {b \in low : \E c \in low : c > b} ELSE low

================================================================================
