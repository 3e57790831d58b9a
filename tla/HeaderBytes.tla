------------------------------ MODULE HeaderBytes ------------------------------
(***************************************************************************)
(* From the input of a header to its text: argus_encrypt of                *)
(* src/src/argus.c, ladon_encrypt of src/src/ladon.c and gorgon_v1/v2/v3   *)
(* of src/src/gorgon.c, as bytes and words.  Who receives a header undoes  *)
(* what these functions did; the properties say that this gives back what  *)
(* went in.                                                                *)
(*                                                                         *)
(* AES and MD5 are OpenSSL's, hence parameters.  A definition named X_Y is *)
(* X with a mistake, as in Signer.                                         *)
(***************************************************************************)
EXTENDS Words, FiniteSets, SequencesExt

CONSTANTS
  Jobs,         \* what is signed, see Job
  Argus,        \* SM3_OUTPUT_REF: the 32 bytes of the key of X-Argus
  Aes(_),       \* AES-128-CBC, padded, under the keys made of SIGN_KEY
  AesBack(_),   \* its inverse
  Md5(_)        \* the 16 bytes of the digest of a text

Text == Seq(Octet)

\* "khronos-license-aid", as ladon_encrypt prints it: three numbers in decimal.
DataStr == {s \in Text : s # <<>> /\ \E digit \in 0 .. 9 : s[Len(s)] = Bits(48 + digit)}

\* What argus_get_sign, tt_sign and gorgon's callers hand over.  A text that is
\* missing or empty is <<>>; a timestamp is 64 bits wide.
Job ==
  [kind : {"argus"}, bean : Text]
  \cup [kind : {"ladon"}, data : DataStr, random : [1 .. 4 -> Octet], aid : Text]
  \cup [kind : {"gorgon"}, version : 1 .. 3, params : Text, payload : Text, cookie : Text,
        unix : Word(64), b3 : Octet, b7 : Octet]

ASSUME JobAssumption == Jobs \subseteq Job
ASSUME KeyAssumption == Argus \in Text /\ Len(Argus) = 32

VARIABLES
  job,    \* the call's arguments
  pc,
  buf,    \* the bytes that the next loop reads
  out,    \* the bytes that the loop has written
  text,   \* the header: base64 or hexadecimal digits
  cap     \* digits and terminator that the header's block has room for

vars == <<job, pc, buf, out, text, cap>>

Pad64 == {6}     \* base64's filler, which is no digit

TypeOK ==
  /\ job \in Jobs
  /\ pc \in {"start", "simon", "ladon", "wrap", "aes", "base64", "mix", "hex", "done"}
  /\ buf \in Text /\ out \in Text
  /\ text \in Seq(Word(6) \cup {Pad64})
  /\ cap \in Nat

Init ==
  /\ job \in Jobs /\ pc = "start"
  /\ buf = <<>> /\ out = <<>> /\ text = <<>> /\ cap = 0

--------------------------------------------------------------------------------
(* Blocks *)

\* pkcs7_pad and pkcs7_pad_ladon: always at least one byte.
PadLen_orNone(n) == (16 - (n % 16)) % 16
PadLen(n)    == 16 - (n % 16)
Pkcs7(s)     == s \o Repeated(Byte(PadLen(Len(s))), PadLen(Len(s)))

\* padding_size: the next multiple of 16, or the size itself.
PaddingSize_always(n) == n + (16 - (n % 16))
PaddingSize(n) == IF n % 16 > 0 THEN n + (16 - (n % 16)) ELSE n

Pair(s)   == <<FromLittle(s, 0), FromLittle(s, 8)>>
Join(p)   == LittleEndian(p[1]) \o LittleEndian(p[2])

Cipher == INSTANCE Simon
Rotor  == INSTANCE Ladon

ArgusKeys == Cipher!Schedule([k \in 1 .. 4 |-> FromLittle(Argus, 8 * (k - 1))])
HexBytes(s) == [k \in 1 .. 2 * Len(s) |->
                  LET byte  == s[(k + 1) \div 2]
                      digit == CHOOSE n \in 0 .. 15 : Bits(n) = IF k % 2 = 1 THEN Shr(byte, 4) ELSE Cut(4, byte)
                  IN  Byte(IF digit < 10 THEN 48 + digit ELSE 87 + digit)]
LadonTable(random, aid) == Rotor!KeyTable(HexBytes(Md5(random \o aid)))

NextBlock == Slice(buf, Len(out), 16)

--------------------------------------------------------------------------------
(* argus_encrypt *)

ArgusPad ==
  /\ pc = "start" /\ job.kind = "argus"
  /\ buf' = Pkcs7(job.bean)
  /\ pc' = "simon"
  /\ UNCHANGED <<job, out, text, cap>>

ArgusBlock ==
  /\ pc = "simon" /\ Len(out) < Len(buf)
  /\ out' = out \o Join(Cipher!Encrypt(ArgusKeys, Pair(NextBlock)))
  /\ UNCHANGED <<job, pc, buf, text, cap>>

\* prefix1, and encrypt_enc_pb: eight bytes masked onto the rest, all reversed.
Prefix1 == Octets(<<242, 247, 252, 255, 242, 247, 252, 255>>)
Masked(s) == [k \in DOMAIN s |-> IF k <= 8 THEN s[k] ELSE Xor(s[k], s[((k - 1) % 8) + 1])]

ArgusMask ==
  /\ pc = "simon" /\ Len(out) >= Len(buf)
  /\ buf' = Reverse(Masked(Prefix1 \o out))
  /\ out' = <<>>
  /\ pc' = "wrap"
  /\ UNCHANGED <<job, text, cap>>

Prefix2 == Octets(<<166, 110, 173, 159, 119, 1, 208, 12, 24>>)
Suffix  == Octets(<<97, 111>>)

ArgusWrap ==
  /\ pc = "wrap"
  /\ buf' = Prefix2 \o buf \o Suffix
  /\ pc' = "aes"
  /\ UNCHANGED <<job, out, text, cap>>

\* Base64 needs four digits for every three bytes begun, and a terminator.
Digits64_down(n) == 4 * (n \div 3) + 1
Digits64(n) == 4 * ((n + 2) \div 3) + 1

Magic == Octets(<<242, 129>>)

ArgusAes ==
  /\ pc = "aes"
  /\ buf' = Magic \o Aes(buf)
  /\ cap' = Digits64(Len(buf'))
  /\ pc' = "base64"
  /\ UNCHANGED <<job, out, text>>

--------------------------------------------------------------------------------
(* ladon_encrypt *)

\* The bytes are padded by one rule, the blocks to encrypt counted by another.
LadonPad ==
  /\ pc = "start" /\ job.kind = "ladon"
  /\ buf' = Pkcs7(job.data)
  /\ pc' = "ladon"
  /\ UNCHANGED <<job, out, text, cap>>

LadonBlock ==
  /\ pc = "ladon" /\ Len(out) < PaddingSize(Len(job.data))
  /\ out' = out \o Join(Rotor!Encrypt(LadonTable(job.random, job.aid), Pair(NextBlock)))
  /\ UNCHANGED <<job, pc, buf, text, cap>>

LadonPrefix ==
  /\ pc = "ladon" /\ Len(out) >= PaddingSize(Len(job.data))
  /\ buf' = job.random \o out
  /\ out' = <<>>
  /\ cap' = Digits64(Len(buf'))
  /\ pc' = "base64"
  /\ UNCHANGED <<job, text>>

--------------------------------------------------------------------------------
(* base64, as both functions write it *)

\* Three bytes are one word of 24 bits; digits are words of 6 bits.
Word24(s) == UNION {{8 * (3 - k) + b : b \in s[k]} : k \in DOMAIN s}
Digit(s, k) == IF k > Len(s) + 1 THEN Pad64 ELSE Cut(6, Shr(Word24(s), 6 * (4 - k)))

Done64 == 3 * (Len(text) \div 4)

Base64Group ==
  /\ pc = "base64" /\ Done64 < Len(buf)
  /\ LET group == SubSeq(buf, Done64 + 1, IF Done64 + 3 > Len(buf) THEN Len(buf) ELSE Done64 + 3)
     IN  text' = text \o [k \in 1 .. 4 |-> Digit(group, k)]
  /\ UNCHANGED <<job, pc, buf, out, cap>>

Base64End ==
  /\ pc = "base64" /\ Done64 >= Len(buf)
  /\ pc' = "done"
  /\ UNCHANGED <<job, buf, out, text, cap>>

--------------------------------------------------------------------------------
(* gorgon_v1, gorgon_v2, gorgon_v3 *)

\* Four bytes of a digest; four zero bytes where there is no payload or cookie.
Quad(s)   == SubSeq(Md5(s), 1, 4)
QuadOf(s) == IF s = <<>> THEN Repeated({}, 4) ELSE Quad(s)

Mark(version) == Octets(IF version = 1 THEN <<1, 1, 2, 4>> ELSE <<0, 6, 11, 28>>)
Filled(j) == Quad(j.params) \o QuadOf(j.payload) \o QuadOf(j.cookie)
             \o Mark(j.version) \o BigEndian(4, Cut(32, j.unix))

GorgonKey == Octets(<<223, 119, 185, 64, 185, 155, 132, 131, 209, 185, 203, 209, 247, 194,
                      185, 133, 195, 208, 251, 195>>)

GorgonFill ==
  /\ pc = "start" /\ job.kind = "gorgon"
  /\ IF job.version = 1
     THEN buf' = Filled(job) /\ pc' = "hex"
     ELSE buf' = XorEach(Filled(job), GorgonKey) /\ pc' = "mix"
  /\ UNCHANGED <<job, out, text, cap>>

NibbleSwap(b) == Shr(b, 4) \cup {i + 4 : i \in Cut(4, b)}

\* In halves, in pairs, in single bits.
Swapped(b, n, high) == Shr(b \cap high, n) \cup {i + n : i \in b \ high}
BitReverse(b) == Swapped(Swapped(Swapped(b, 4, {4, 5, 6, 7}), 2, {2, 3, 6, 7}), 1, {1, 3, 5, 7})

\* Byte i from itself and its right neighbour, which for the last one is the
\* first, as it is by then.
MixedByte_one(s, i) == Cut(8, Xor(BitReverse(Xor(s[i], NibbleSwap(s[(i % 20) + 1]))), Bits(235)))
MixedByte(s, i) ==
  Cut(8, Xor(BitReverse(Xor(NibbleSwap(s[i]), s[(i % 20) + 1])), Xor(Bits(255), Bits(20))))

GorgonMix ==
  /\ pc = "mix" /\ Len(out) < 20
  /\ LET i == Len(out) + 1
     IN  /\ buf' = [buf EXCEPT ![i] = MixedByte(buf, i)]
         /\ out' = Append(out, buf'[i])
  /\ UNCHANGED <<job, pc, text, cap>>

GorgonMixed ==
  /\ pc = "mix" /\ Len(out) = 20
  /\ out' = <<>>
  /\ pc' = "hex"
  /\ UNCHANGED <<job, buf, text, cap>>

\* "8404", two bytes of the caller's and two zeros; "840280416000"; "0404b0d30000".
Prefix(j) ==
  CASE j.version = 1 -> Octets(<<132, 4>>) \o <<j.b7 \cap {4, 5, 6, 7}, j.b3, {}, {}>>
    [] j.version = 2 -> Octets(<<132, 2, 128, 65, 96, 0>>)
    [] j.version = 3 -> Octets(<<4, 4, 176, 211, 0, 0>>)

HexDigits(s) == [k \in 1 .. 2 * Len(s) |->
                   IF k % 2 = 1 THEN Shr(s[(k + 1) \div 2], 4) ELSE Cut(4, s[k \div 2])]

GorgonHex ==
  /\ pc = "hex"
  /\ text' = HexDigits(Prefix(job) \o buf)
  /\ cap' = IF job.version = 1 THEN 256 ELSE 12 + 2 * Len(buf) + 1
  /\ pc' = "done"
  /\ UNCHANGED <<job, buf, out>>

--------------------------------------------------------------------------------
Next ==
  \/ ArgusPad \/ ArgusBlock \/ ArgusMask \/ ArgusWrap \/ ArgusAes
  \/ LadonPad \/ LadonBlock \/ LadonPrefix
  \/ Base64Group \/ Base64End
  \/ GorgonFill \/ GorgonMix \/ GorgonMixed \/ GorgonHex

Spec == Init /\ [][Next]_vars

--------------------------------------------------------------------------------
(* The receiver *)

\* The bytes of a base64 text: of each group of four, as many as it has digits.
Group64(t, g) ==
  LET word  == UNION {{6 * (4 - k) + b : b \in t[4 * g + k]} :
                        k \in {n \in 1 .. 4 : t[4 * g + n] # Pad64}}
      bytes == Cardinality({n \in 1 .. 4 : t[4 * g + n] # Pad64}) - 1
  IN  [k \in 1 .. bytes |-> Low(word, 3 - k)]
Decoded64(t) == FlattenSeq([g \in 1 .. Len(t) \div 4 |-> Group64(t, g - 1)])

Blocks(s) == [k \in 1 .. Len(s) \div 16 |-> Pair(Slice(s, 16 * (k - 1), 16))]

\* Padding tells its own length.
Unpadded(s, lengths) ==
  IF \E n \in lengths : s[Len(s)] = Bits(n)
  THEN SubSeq(s, 1, Len(s) - CHOOSE n \in lengths : s[Len(s)] = Bits(n))
  ELSE s

Unmasked(s) == SubSeq(s, 1, 8) \o [k \in 1 .. Len(s) - 8 |-> Xor(s[k + 8], s[((k - 1) % 8) + 1])]

BeanIn(t) ==
  LET wrapped == AesBack(SubSeq(Decoded64(t), 3, Len(Decoded64(t))))
      masked  == Reverse(SubSeq(wrapped, 10, Len(wrapped) - 2))
      blocks  == Blocks(SubSeq(Unmasked(masked), 9, Len(masked)))
      plain   == FlattenSeq([k \in DOMAIN blocks |-> Join(Cipher!Decrypt(ArgusKeys, blocks[k]))])
  IN  Unpadded(plain, 1 .. 16)

DataIn(t, aid) ==
  LET bytes  == Decoded64(t)
      table  == LadonTable(SubSeq(bytes, 1, 4), aid)
      blocks == Blocks(SubSeq(bytes, 5, Len(bytes)))
  IN  Unpadded(FlattenSeq([k \in DOMAIN blocks |-> Join(Rotor!Decrypt(table, blocks[k]))]), 1 .. 15)

\* A byte, given its successor in the array before the round.
UnmixedByte(h, next) == NibbleSwap(Xor({7 - b : b \in Xor(h, Bits(235))}, next))
Unmixed(s) ==
  LET from[i \in 1 .. 21] == IF i = 21 THEN <<s[1]>>
                             ELSE LET rest == from[i + 1] IN <<UnmixedByte(s[i], rest[1])>> \o rest
  IN  XorEach(SubSeq(from[1], 1, 20), GorgonKey)

Unhexed(t) == [k \in 1 .. Len(t) \div 2 |-> {b + 4 : b \in t[2 * k - 1]} \cup t[2 * k]]

--------------------------------------------------------------------------------
(* Properties *)

\* The server that holds the key gets out of X-Argus the very bean that
\* argus_get_sign serialized: padding, masking, envelope and base64 undo each
\* other whatever the bean's length is modulo 16 and modulo 3.
ArgusOpens == pc = "done" /\ job.kind = "argus" => BeanIn(text) = job.bean

\* X-Ladon gives back the text it was made of, with the key that its first four
\* bytes and the app id determine, although the last block of the padded text is
\* left out exactly when the text fills its blocks.
LadonOpens == pc = "done" /\ job.kind = "ladon" => DataIn(text, job.aid) = job.data

\* X-Gorgon holds, in versions 2 and 3 under a mix that can be undone, four bytes
\* of each digest, zeros for what was missing, and the low half of the timestamp.
GorgonOpens ==
  pc = "done" /\ job.kind = "gorgon" =>
    LET bytes == Unhexed(text)
        given == IF job.version = 1 THEN Slice(bytes, 6, 20) ELSE Unmixed(Slice(bytes, 6, 20))
        none  == Repeated({}, 4)
    IN  /\ Len(bytes) = 26
        /\ Slice(given, 0, 4) = Slice(Md5(job.params), 0, 4)
        /\ Slice(given, 4, 4) = IF job.payload = <<>> THEN none ELSE Slice(Md5(job.payload), 0, 4)
        /\ Slice(given, 8, 4) = IF job.cookie = <<>> THEN none ELSE Slice(Md5(job.cookie), 0, 4)
        /\ FromBig(given, 16) = job.unix \cap (0 .. 31)

\* No loop leaves its buffers: a block that is to be encrypted is there in full,
\* also where the padded text and the number of blocks come from different rules,
\* and digits and terminator fit the block that was allocated for them.
InBounds ==
  /\ TypeOK
  /\ (pc = "simon" /\ Len(out) < Len(buf)) \/ (pc = "ladon" /\ Len(out) < PaddingSize(Len(job.data)))
       => Len(out) + 16 <= Len(buf)
  /\ pc \in {"base64", "done"} => Len(text) < cap

================================================================================
