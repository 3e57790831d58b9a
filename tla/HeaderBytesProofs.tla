--------------------------- MODULE HeaderBytesProofs ---------------------------
(* No loop of argus_encrypt, ladon_encrypt or gorgon_v1/v2/v3 leaves its       *)
(* buffers, and what they sign can be got back: whatever is signed, under       *)
(* whatever keys.                                                               *)
EXTENDS HeaderBytes, SequenceTheorems, FiniteSetTheorems, TLAPS

Numbers == INSTANCE QueryTextProofs

Digit64 == Word(6) \cup {Pad64}

\* A function on 1 .. n is a sequence of length n.
LEMMA FcnIsSeq ==
  ASSUME NEW S, NEW n \in Nat, NEW f \in [1 .. n -> S]
  PROVE  f \in Seq(S) /\ Len(f) = n
OBVIOUS

LEMMA ByteIs == \A n : Byte(n) \in Octet
BY DEF Byte, Octet, Word

LEMMA OctetsIs ==
  ASSUME NEW n \in Nat, NEW ns \in [1 .. n -> Nat]
  PROVE  Octets(ns) \in Text /\ Len(Octets(ns)) = n
<1>1. Octets(ns) \in [1 .. n -> Octet]
  BY ByteIs DEF Octets
<1> QED
  BY <1>1, FcnIsSeq DEF Text

LEMMA RepeatedIs ==
  ASSUME NEW n \in Nat, NEW x \in Octet
  PROVE  Repeated(x, n) \in Text /\ Len(Repeated(x, n)) = n
<1>1. Repeated(x, n) \in [1 .. n -> Octet]
  BY DEF Repeated
<1> QED
  BY <1>1, FcnIsSeq DEF Text

LEMMA ConcatIs == \A s, t \in Text : s \o t \in Text /\ Len(s \o t) = Len(s) + Len(t)
BY ConcatProperties DEF Text

LEMMA TextLen == \A s \in Text : Len(s) \in Nat /\ DOMAIN s = 1 .. Len(s) /\ s \in [1 .. Len(s) -> Octet]
BY LenProperties DEF Text

\* What ladon_encrypt is given.
LEMMA LadonJobIs ==
  \A j \in Job : j.kind = "ladon" => j.data \in DataStr /\ j.data \in Text /\ j.random \in Text /\ Len(j.random) = 4
                                      /\ j.aid \in Text
<1> SUFFICES ASSUME NEW j \in Job, j.kind = "ladon"
             PROVE  j.data \in DataStr /\ j.data \in Text /\ j.random \in Text /\ Len(j.random) = 4
                    /\ j.aid \in Text
  OBVIOUS
<1>1. j.data \in DataStr /\ j.random \in [1 .. 4 -> Octet] /\ j.aid \in Text
  BY DEF Job
<1>2. 4 \in Nat
  OBVIOUS
<1>3. j.random \in Text /\ Len(j.random) = 4
  <2>1. PICK r \in [1 .. 4 -> Octet] : r = j.random
    BY <1>1
  <2>2. r \in Seq(Octet) /\ Len(r) = 4
    BY <1>2, FcnIsSeq, ZenonT(40)
  <2> QED
    BY <2>1, <2>2 DEF Text
<1> QED
  BY <1>1, <1>3 DEF DataStr

\* Two words are sixteen bytes, whatever they are.
LEMMA JoinIs == \A p : Join(p) \in Text /\ Len(Join(p)) = 16
<1>1. \A a : LittleEndian(a) \in [1 .. 8 -> Octet]
  BY DEF LittleEndian, Low, Octet, Word
<1>2. \A a : LittleEndian(a) \in Text /\ Len(LittleEndian(a)) = 8
  BY <1>1, FcnIsSeq, ZenonT(40) DEF Text
<1> TAKE p
<1> DEFINE low == LittleEndian(p[1])  high == LittleEndian(p[2])
<1>3. low \in Text /\ high \in Text /\ Len(low) = 8 /\ Len(high) = 8
  BY <1>2
<1> HIDE DEF low, high
<1>4. low \o high \in Text /\ Len(low \o high) = Len(low) + Len(high)
  BY <1>3, ConcatIs
<1>5. Len(low \o high) = 16
  BY <1>3, <1>4
<1> QED
  BY <1>4, <1>5 DEF Join, low, high

LEMMA BigEndianIs == \A a : BigEndian(4, a) \in Text /\ Len(BigEndian(4, a)) = 4
<1>1. \A a : BigEndian(4, a) \in [1 .. 4 -> Octet]
  BY DEF BigEndian, Low, Octet, Word
<1> QED
  BY <1>1, FcnIsSeq, ZenonT(40) DEF Text

LEMMA XorOctets == \A a, b \in Octet : Xor(a, b) \in Octet
BY DEF Xor, Octet, Word

\* Padding fills whole blocks, and never fewer than are encrypted.
LEMMA PadLenIs ==
  ASSUME NEW n \in Nat
  PROVE  /\ PadLen(n) \in 1 .. 16
         /\ (n + PadLen(n)) % 16 = 0
         /\ PaddingSize(n) \in Nat /\ PaddingSize(n) % 16 = 0
         /\ PaddingSize(n) <= n + PadLen(n)
BY DEF PadLen, PaddingSize

LEMMA Pkcs7Is ==
  ASSUME NEW s \in Text
  PROVE  Pkcs7(s) \in Text /\ Len(Pkcs7(s)) = Len(s) + PadLen(Len(s))
<1> DEFINE n == PadLen(Len(s))  tail == Repeated(Byte(n), n)
<1>1. Len(s) \in Nat
  BY TextLen
<1>2. n \in 1 .. 16
  BY <1>1, PadLenIs
<1>3. n \in Nat /\ Byte(n) \in Octet
  BY <1>2, ByteIs
<1> HIDE DEF n
<1>4. tail \in Text /\ Len(tail) = n
  BY <1>3, RepeatedIs
<1>5. s \o tail \in Text /\ Len(s \o tail) = Len(s) + Len(tail)
  BY <1>4, ConcatIs
<1> QED
  BY <1>4, <1>5 DEF Pkcs7, n

LEMMA MaskedIs ==
  ASSUME NEW s \in Text
  PROVE  Reverse(Masked(s)) \in Text
<1>1. s \in [1 .. Len(s) -> Octet] /\ Len(s) \in Nat /\ DOMAIN s = 1 .. Len(s)
  BY TextLen
<1>2. ASSUME NEW k \in 1 .. Len(s), ~(k <= 8)
      PROVE  Xor(s[k], s[((k - 1) % 8) + 1]) \in Octet
  <2>1. ((k - 1) % 8) + 1 \in 1 .. Len(s)
    BY <1>1, <1>2
  <2> QED
    BY <1>1, <2>1, XorOctets
<1>3. Masked(s) \in [1 .. Len(s) -> Octet]
  BY <1>1, <1>2 DEF Masked
<1>4. Masked(s) \in Text /\ Len(Masked(s)) = Len(s)
  BY <1>1, <1>3, FcnIsSeq DEF Text
<1>5. Reverse(Masked(s)) \in [1 .. Len(s) -> Octet]
  BY <1>1, <1>3, <1>4 DEF Reverse
<1> QED
  BY <1>1, <1>5, FcnIsSeq DEF Text


LEMMA XorEachIs ==
  ASSUME NEW s \in Text, NEW t \in Text, Len(t) = Len(s)
  PROVE  XorEach(s, t) \in Text /\ Len(XorEach(s, t)) = Len(s)
<1>1. s \in [1 .. Len(s) -> Octet] /\ t \in [1 .. Len(s) -> Octet] /\ Len(s) \in Nat /\ DOMAIN s = 1 .. Len(s)
  BY TextLen
<1>2. XorEach(s, t) \in [1 .. Len(s) -> Octet]
  BY <1>1, XorOctets DEF XorEach
<1> QED
  BY <1>1, <1>2, FcnIsSeq DEF Text

\* Twenty bytes, whatever is missing.
LEMMA FilledIs ==
  ASSUME NEW j \in Job, j.kind = "gorgon", \A s \in Text : Md5(s) \in Text /\ Len(Md5(s)) = 16
  PROVE  Filled(j) \in Text /\ Len(Filled(j)) = 20
<1>1. j.params \in Text /\ j.payload \in Text /\ j.cookie \in Text /\ j.version \in 1 .. 3
  BY DEF Job
<1>2. \A s \in Text : Quad(s) \in Text /\ Len(Quad(s)) = 4
  <2> TAKE s \in Text
  <2> DEFINE d == Md5(s)
  <2>1. d \in [1 .. Len(d) -> Octet] /\ Len(d) = 16
    BY TextLen
  <2> HIDE DEF d
  <2>2. \A i \in 1 .. 4 : d[i] \in Octet
    BY <2>1
  <2>3. SubSeq(d, 1, 4) \in Seq(Octet) /\ Len(SubSeq(d, 1, 4)) = 4
    BY <2>2, SubSeqProperties
  <2> QED
    BY <2>3 DEF Quad, Text, d
<1>3. Repeated({}, 4) \in Text /\ Len(Repeated({}, 4)) = 4
  <2>1. {} \in Octet /\ 4 \in Nat
    BY DEF Octet, Word
  <2> QED
    BY <2>1, RepeatedIs
<1>4. \A s \in Text : QuadOf(s) \in Text /\ Len(QuadOf(s)) = 4
  BY <1>2, <1>3 DEF QuadOf
<1>5. Mark(j.version) \in Text /\ Len(Mark(j.version)) = 4
  <2>1. <<1, 1, 2, 4>> \in [1 .. 4 -> Nat] /\ <<0, 6, 11, 28>> \in [1 .. 4 -> Nat] /\ 4 \in Nat
    OBVIOUS
  <2>2. \A ns \in [1 .. 4 -> Nat] : Octets(ns) \in Text /\ Len(Octets(ns)) = 4
    BY <2>1, OctetsIs
  <2> QED
    BY <2>1, <2>2 DEF Mark
<1> DEFINE p == Quad(j.params)  q == QuadOf(j.payload)  c == QuadOf(j.cookie)
           m == Mark(j.version)  u == BigEndian(4, Cut(32, j.unix))
<1>6. /\ p \in Text /\ q \in Text /\ c \in Text /\ m \in Text /\ u \in Text
      /\ Len(p) = 4 /\ Len(q) = 4 /\ Len(c) = 4 /\ Len(m) = 4 /\ Len(u) = 4
  BY <1>1, <1>2, <1>4, <1>5, BigEndianIs
<1> HIDE DEF p, q, c, m, u
<1> DEFINE pq == p \o q  pqc == pq \o c  pqcm == pqc \o m  all == pqcm \o u
<1>7. pq \in Text /\ Len(pq) = Len(p) + Len(q)
  BY <1>6, ConcatIs
<1> HIDE DEF pq
<1>8. pqc \in Text /\ Len(pqc) = Len(pq) + Len(c)
  BY <1>6, <1>7, ConcatIs
<1> HIDE DEF pqc
<1>9. pqcm \in Text /\ Len(pqcm) = Len(pqc) + Len(m)
  BY <1>6, <1>8, ConcatIs
<1> HIDE DEF pqcm
<1>10. all \in Text /\ Len(all) = Len(pqcm) + Len(u)
  BY <1>6, <1>9, ConcatIs
<1> HIDE DEF all
<1>11. Len(all) = 20
  BY <1>6, <1>7, <1>8, <1>9, <1>10
<1>12. Filled(j) = all
  BY DEF Filled, p, q, c, m, u, pq, pqc, pqcm, all
<1> QED
  BY <1>10, <1>11, <1>12

LEMMA PrefixIs ==
  ASSUME NEW j \in Job, j.kind = "gorgon"
  PROVE  Prefix(j) \in Text /\ Len(Prefix(j)) = 6
<1>1. j.version \in 1 .. 3 /\ j.b3 \in Octet /\ j.b7 \in Octet
  BY DEF Job
<1>2. CASE j.version = 1
  <2>1. <<132, 4>> \in [1 .. 2 -> Nat] /\ 2 \in Nat
    OBVIOUS
  <2>2. Octets(<<132, 4>>) \in Text /\ Len(Octets(<<132, 4>>)) = 2
    BY <2>1, OctetsIs, ZenonT(40)
  <2> DEFINE rest == <<j.b7 \cap {4, 5, 6, 7}, j.b3, {}, {}>>
  <2>3. j.b7 \cap {4, 5, 6, 7} \in Octet /\ {} \in Octet
    BY <1>1 DEF Octet, Word
  <2>4. rest \in Text /\ Len(rest) = 4
    BY <1>1, <2>3 DEF Text
  <2> HIDE DEF rest
  <2> DEFINE first == Octets(<<132, 4>>)
  <2>5. first \in Text /\ Len(first) = 2
    BY <2>2
  <2> HIDE DEF first
  <2>6. first \o rest \in Text /\ Len(first \o rest) = Len(first) + Len(rest)
    BY <2>4, <2>5, ConcatIs
  <2>7. Len(first \o rest) = 6
    BY <2>4, <2>5, <2>6
  <2> QED
    BY <1>2, <2>6, <2>7 DEF Prefix, first, rest
<1>3. CASE j.version # 1
  <2>1. <<132, 2, 128, 65, 96, 0>> \in [1 .. 6 -> Nat] /\ <<4, 4, 176, 211, 0, 0>> \in [1 .. 6 -> Nat] /\ 6 \in Nat
    OBVIOUS
  <2>2. \A ns \in [1 .. 6 -> Nat] : Octets(ns) \in Text /\ Len(Octets(ns)) = 6
    BY <2>1, OctetsIs
  <2>3. j.version = 2 \/ j.version = 3
    BY <1>1, <1>3
  <2>4. CASE j.version = 2
    BY <2>1, <2>2, <2>4 DEF Prefix
  <2>5. CASE j.version = 3
    BY <2>1, <2>2, <2>5 DEF Prefix
  <2> QED
    BY <2>3, <2>4, <2>5
<1> QED
  BY <1>2, <1>3

LEMMA HexDigitsAre ==
  ASSUME NEW s \in Text
  PROVE  HexDigits(s) \in Seq(Digit64) /\ Len(HexDigits(s)) = 2 * Len(s)
<1>1. Len(s) \in Nat /\ s \in [1 .. Len(s) -> Octet]
  BY TextLen
<1>2. \A b \in Octet : Shr(b, 4) \in Digit64 /\ Cut(4, b) \in Digit64
  BY DEF Shr, Cut, Octet, Word, Digit64
<1>3. ASSUME NEW k \in 1 .. 2 * Len(s)
      PROVE  (IF k % 2 = 1 THEN Shr(s[(k + 1) \div 2], 4) ELSE Cut(4, s[k \div 2])) \in Digit64
  <2>1. CASE k % 2 = 1
    <3>1. (k + 1) \div 2 \in 1 .. Len(s)
      BY <1>1, <2>1
    <3> QED
      BY <1>1, <1>2, <2>1, <3>1
  <2>2. CASE k % 2 # 1
    <3>1. k \div 2 \in 1 .. Len(s)
      BY <1>1, <2>2
    <3> QED
      BY <1>1, <1>2, <2>2, <3>1
  <2> QED
    BY <2>1, <2>2
<1>4. HexDigits(s) \in [1 .. 2 * Len(s) -> Digit64]
  BY <1>3 DEF HexDigits
<1>5. 2 * Len(s) \in Nat
  BY <1>1
<1> QED
  BY <1>4, <1>5, FcnIsSeq

--------------------------------------------------------------------------------
\* What is known of the bytes at each stage: whole blocks, twenty bytes, a block
\* for the digits of all bytes.
Stages ==
  /\ pc = "start" => out = <<>> /\ text = <<>>
  /\ pc \in {"simon", "ladon"} => text = <<>> /\ Len(buf) % 16 = 0 /\ Len(out) % 16 = 0
  /\ pc = "ladon" => job.kind = "ladon" /\ PaddingSize(Len(job.data)) <= Len(buf)
  /\ pc \in {"wrap", "aes"} => text = <<>>
  /\ pc \in {"mix", "hex"} => job.kind = "gorgon" /\ Len(buf) = 20
  /\ pc = "base64" =>
       cap = Digits64(Len(buf)) /\ Len(text) % 4 = 0 /\ 3 * (Len(text) \div 4) < Len(buf) + 3
  /\ pc = "done" => Len(text) < cap

HeaderInv == TypeOK /\ Stages

\* The external functions give bytes, MD5 sixteen of them.
Externals ==
  /\ \A s \in Text : Aes(s) \in Text
  /\ \A s \in Text : Md5(s) \in Text /\ Len(Md5(s)) = 16

LEMMA NoneIsText == <<>> \in Text /\ Len(<<>>) = 0 /\ <<>> \in Seq(Digit64)
BY DEF Text

LEMMA InitHeader == Init => HeaderInv
BY NoneIsText DEF Init, HeaderInv, TypeOK, Stages, Digit64

LEMMA FixedBytes ==
  /\ Prefix1 \in Text /\ Prefix2 \in Text /\ Suffix \in Text /\ Magic \in Text
  /\ GorgonKey \in Text /\ Len(GorgonKey) = 20
<1>1. Prefix1 \in Text
  <2> DEFINE ns == <<242, 247, 252, 255, 242, 247, 252, 255>>
  <2>1. ns \in [1 .. 8 -> Nat]
    OBVIOUS
  <2> HIDE DEF ns
  <2>2. Octets(ns) \in Text
    BY <2>1, OctetsIs
  <2> QED
    BY <2>2 DEF Prefix1, ns
<1>2. Prefix2 \in Text
  <2> DEFINE ns == <<166, 110, 173, 159, 119, 1, 208, 12, 24>>
  <2>1. ns \in [1 .. 9 -> Nat]
    OBVIOUS
  <2> HIDE DEF ns
  <2>2. Octets(ns) \in Text
    BY <2>1, OctetsIs
  <2> QED
    BY <2>2 DEF Prefix2, ns
<1>3. Suffix \in Text /\ Magic \in Text
  <2>1. <<97, 111>> \in [1 .. 2 -> Nat] /\ <<242, 129>> \in [1 .. 2 -> Nat]
    OBVIOUS
  <2> QED
    BY <2>1, OctetsIs, ZenonT(40) DEF Suffix, Magic
<1>4. GorgonKey \in Text /\ Len(GorgonKey) = 20
  <2> DEFINE ns == <<223, 119, 185, 64, 185, 155, 132, 131, 209, 185, 203, 209, 247, 194,
                     185, 133, 195, 208, 251, 195>>
  <2>1. ns \in [1 .. 20 -> Nat]
    OBVIOUS
  <2> HIDE DEF ns
  <2>2. Octets(ns) \in Text /\ Len(Octets(ns)) = 20
    BY <2>1, OctetsIs
  <2> QED
    BY <2>2 DEF GorgonKey, ns
<1> QED
  BY <1>1, <1>2, <1>3, <1>4

\* Whole blocks and one more are whole blocks.
LEMMA BlockMore ==
  ASSUME NEW s \in Text, Len(s) % 16 = 0, NEW p
  PROVE  s \o Join(p) \in Text /\ Len(s \o Join(p)) % 16 = 0
<1> DEFINE block == Join(p)
<1>1. block \in Text /\ Len(block) = 16
  BY JoinIs
<1> HIDE DEF block
<1>2. s \o block \in Text /\ Len(s \o block) = Len(s) + Len(block)
  BY <1>1, ConcatIs
<1>3. Len(s) \in Nat
  BY TextLen
<1>4. Len(s \o block) % 16 = 0
  BY <1>1, <1>2, <1>3
<1> QED
  BY <1>2, <1>4 DEF block

LEMMA PadsFit ==
  ASSUME NEW s \in Text
  PROVE  /\ Pkcs7(s) \in Text /\ Len(Pkcs7(s)) % 16 = 0
         /\ PaddingSize(Len(s)) <= Len(Pkcs7(s))
<1>1. Len(s) \in Nat
  BY TextLen
<1> DEFINE n == Len(s)  padded == Pkcs7(s)
<1>2. padded \in Text /\ Len(padded) = n + PadLen(n)
  BY Pkcs7Is
<1>3. (n + PadLen(n)) % 16 = 0 /\ PaddingSize(n) <= n + PadLen(n)
  BY <1>1, PadLenIs
<1> HIDE DEF n, padded
<1>4. Len(padded) % 16 = 0 /\ PaddingSize(n) <= Len(padded)
  BY <1>2, <1>3
<1> QED
  BY <1>2, <1>4 DEF n, padded

LEMMA Digits64Is == \A n \in Nat : Digits64(n) \in Nat
BY DEF Digits64

LEMMA StepHeader ==
  ASSUME Externals, HeaderInv, [Next]_vars
  PROVE  HeaderInv'
<1> USE DEF HeaderInv
<1>1. job \in Job
  BY JobAssumption DEF TypeOK
<1>2. CASE ArgusPad
  <2>1. job.bean \in Text
    BY <1>1, <1>2 DEF ArgusPad, Job
  <2>2. Pkcs7(job.bean) \in Text /\ Len(Pkcs7(job.bean)) % 16 = 0
    BY <2>1, PadsFit
  <2>3. buf' \in Text /\ Len(buf') % 16 = 0
    BY <1>2, <2>2 DEF ArgusPad
  <2>4. TypeOK'
    BY <1>2, <2>3 DEF ArgusPad, TypeOK
  <2>5. Stages'
    BY <1>2, <2>3, NoneIsText DEF ArgusPad, Stages
  <2> QED
    BY <2>4, <2>5
<1>3. CASE ArgusBlock
  <2>1. out \in Text /\ Len(out) % 16 = 0
    BY <1>3 DEF ArgusBlock, TypeOK, Stages
  <2>2. out' \in Text /\ Len(out') % 16 = 0
    BY <1>3, <2>1, BlockMore DEF ArgusBlock
  <2>3. TypeOK'
    BY <1>3, <2>2 DEF ArgusBlock, TypeOK
  <2>4. Stages'
    BY <1>3, <2>2 DEF ArgusBlock, Stages
  <2> QED
    BY <2>3, <2>4
<1>4. CASE ArgusMask
  <2>1. Prefix1 \o out \in Text
    BY FixedBytes, ConcatIs DEF TypeOK
  <2>2. buf' \in Text
    BY <1>4, <2>1, MaskedIs DEF ArgusMask
  <2>3. TypeOK'
    BY <1>4, <2>2, NoneIsText DEF ArgusMask, TypeOK
  <2>4. Stages'
    BY <1>4 DEF ArgusMask, Stages
  <2> QED
    BY <2>3, <2>4
<1>5. CASE ArgusWrap
  <2>1. Prefix2 \o buf \in Text
    BY FixedBytes, ConcatIs DEF TypeOK
  <2>2. Prefix2 \o buf \o Suffix \in Text
    BY <2>1, FixedBytes, ConcatIs
  <2>3. TypeOK'
    BY <1>5, <2>2 DEF ArgusWrap, TypeOK
  <2>4. Stages'
    BY <1>5 DEF ArgusWrap, Stages
  <2> QED
    BY <2>3, <2>4
<1>6. CASE ArgusAes
  <2>1. Magic \o Aes(buf) \in Text
    BY FixedBytes, ConcatIs DEF TypeOK, Externals
  <2>2. buf' \in Text /\ Len(buf') \in Nat
    BY <1>6, <2>1, TextLen DEF ArgusAes
  <2>3. cap' \in Nat
    BY <1>6, <2>2, Digits64Is DEF ArgusAes
  <2>4. TypeOK'
    BY <1>6, <2>2, <2>3 DEF ArgusAes, TypeOK
  <2>5. text' = <<>> /\ Len(text') = 0
    BY <1>6, NoneIsText DEF ArgusAes, Stages
  <2>6. Stages'
    BY <1>6, <2>2, <2>5 DEF ArgusAes, Stages
  <2> QED
    BY <2>4, <2>6
<1>7. CASE LadonPad
  <2>1. job.data \in Text
    BY <1>1, <1>7, LadonJobIs DEF LadonPad
  <2>2. /\ Pkcs7(job.data) \in Text /\ Len(Pkcs7(job.data)) % 16 = 0
        /\ PaddingSize(Len(job.data)) <= Len(Pkcs7(job.data))
    BY <2>1, PadsFit
  <2>3. buf' \in Text /\ Len(buf') % 16 = 0 /\ PaddingSize(Len(job'.data)) <= Len(buf')
    BY <1>7, <2>2 DEF LadonPad
  <2>4. TypeOK'
    BY <1>7, <2>3 DEF LadonPad, TypeOK
  <2>5. Stages'
    BY <1>7, <2>3, NoneIsText DEF LadonPad, Stages
  <2> QED
    BY <2>4, <2>5
<1>8. CASE LadonBlock
  <2>1. out \in Text /\ Len(out) % 16 = 0
    BY <1>8 DEF LadonBlock, TypeOK, Stages
  <2>2. out' \in Text /\ Len(out') % 16 = 0
    BY <1>8, <2>1, BlockMore DEF LadonBlock
  <2>3. TypeOK'
    BY <1>8, <2>2 DEF LadonBlock, TypeOK
  <2>4. Stages'
    BY <1>8, <2>2 DEF LadonBlock, Stages
  <2> QED
    BY <2>3, <2>4
<1>9. CASE LadonPrefix
  <2>1. job.random \in Text
    BY <1>1, <1>9, LadonJobIs DEF LadonPrefix, Stages
  <2>2. job.random \o out \in Text
    BY <2>1, ConcatIs DEF TypeOK
  <2>3. buf' \in Text /\ Len(buf') \in Nat
    BY <1>9, <2>2, TextLen DEF LadonPrefix
  <2>4. cap' \in Nat
    BY <1>9, <2>3, Digits64Is DEF LadonPrefix
  <2>5. TypeOK'
    BY <1>9, <2>3, <2>4, NoneIsText DEF LadonPrefix, TypeOK
  <2>6. text' = <<>> /\ Len(text') = 0
    BY <1>9, NoneIsText DEF LadonPrefix, Stages
  <2>7. Stages'
    BY <1>9, <2>3, <2>6 DEF LadonPrefix, Stages
  <2> QED
    BY <2>5, <2>7
<1>10. CASE Base64Group
  <2>1. text \in Seq(Digit64) /\ Len(text) \in Nat /\ Len(buf) \in Nat
    BY LenProperties, TextLen DEF TypeOK, Digit64
  <2>2. PICK four : text' = text \o four /\ four \in Seq(Digit64) /\ Len(four) = 4
    <3>1. \A group : [k \in 1 .. 4 |-> Digit(group, k)] \in [1 .. 4 -> Digit64]
      BY DEF Digit, Digit64, Cut, Word
    <3>2. \A group : /\ [k \in 1 .. 4 |-> Digit(group, k)] \in Seq(Digit64)
                     /\ Len([k \in 1 .. 4 |-> Digit(group, k)]) = 4
      BY <3>1, FcnIsSeq
    <3> QED
      BY <1>10, <3>2 DEF Base64Group
  <2>3. text' \in Seq(Digit64) /\ Len(text') = Len(text) + Len(four)
    BY <2>1, <2>2, ConcatProperties
  <2>4. TypeOK'
    BY <1>10, <2>3 DEF Base64Group, TypeOK, Digit64
  <2>5. Len(text) % 4 = 0 /\ 3 * (Len(text) \div 4) < Len(buf)
    BY <1>10 DEF Base64Group, Done64, Stages
  <2>6. Len(text') % 4 = 0 /\ 3 * (Len(text') \div 4) < Len(buf) + 3
    <3> DEFINE m == Len(text)
    <3>1. Len(text') = m + 4 /\ m \in Nat /\ m % 4 = 0
      BY <2>1, <2>2, <2>3, <2>5
    <3> HIDE DEF m
    <3>2. (m + 4) % 4 = 0 /\ (m + 4) \div 4 = (m \div 4) + 1
      BY <3>1
    <3> QED
      BY <2>1, <2>5, <3>1, <3>2 DEF m
  <2>7. Stages'
    BY <1>10, <2>6 DEF Base64Group, Stages
  <2> QED
    BY <2>4, <2>7
<1>11. CASE Base64End
  <2>1. TypeOK'
    BY <1>11 DEF Base64End, TypeOK
  <2>2. Len(text) \in Nat /\ Len(buf) \in Nat
    BY LenProperties, TextLen DEF TypeOK
  <2>3. cap = Digits64(Len(buf)) /\ Len(text) % 4 = 0 /\ 3 * (Len(text) \div 4) < Len(buf) + 3
    BY <1>11 DEF Base64End, Stages
  <2>4. Len(text) < cap
    BY <2>2, <2>3 DEF Digits64
  <2>5. Stages'
    BY <1>11, <2>4 DEF Base64End, Stages
  <2> QED
    BY <2>1, <2>5
<1>12. CASE GorgonFill
  <2>1. Filled(job) \in Text /\ Len(Filled(job)) = 20
    BY <1>1, <1>12, FilledIs DEF GorgonFill, Externals
  <2>2. XorEach(Filled(job), GorgonKey) \in Text /\ Len(XorEach(Filled(job), GorgonKey)) = 20
    BY <2>1, FixedBytes, XorEachIs
  <2>3. buf' \in Text /\ Len(buf') = 20
    BY <1>12, <2>1, <2>2 DEF GorgonFill
  <2>4. TypeOK'
    BY <1>12, <2>3 DEF GorgonFill, TypeOK
  <2>5. Stages'
    BY <1>12, <2>3 DEF GorgonFill, Stages
  <2> QED
    BY <2>4, <2>5
<1>13. CASE GorgonMix
  <2> DEFINE i == Len(out) + 1
  <2>1. out \in Text /\ buf \in Text /\ Len(out) < 20 /\ Len(buf) = 20
    BY <1>13 DEF GorgonMix, TypeOK, Stages
  <2>2. Len(out) \in Nat /\ buf \in [1 .. Len(buf) -> Octet]
    BY <2>1, TextLen
  <2>3. i \in 1 .. 20 /\ buf \in [1 .. 20 -> Octet]
    BY <2>1, <2>2, SMTT(30)
  <2>4. MixedByte(buf, i) \in Octet
    BY DEF MixedByte, Cut, Octet, Word
  <2>5. buf' = [buf EXCEPT ![i] = MixedByte(buf, i)] /\ out' = Append(out, buf'[i])
    BY <1>13 DEF GorgonMix
  <2> HIDE DEF i
  <2>6. buf' \in [1 .. 20 -> Octet]
    BY <2>3, <2>4, <2>5
  <2>7. buf' \in Text /\ Len(buf') = 20
    BY <2>6, FcnIsSeq, ZenonT(40) DEF Text
  <2>8. out' \in Text
    BY <2>3, <2>5, <2>6, AppendProperties DEF TypeOK, Text
  <2>9. TypeOK'
    BY <1>13, <2>7, <2>8 DEF GorgonMix, TypeOK
  <2>10. Stages'
    BY <1>13, <2>7 DEF GorgonMix, Stages
  <2> QED
    BY <2>9, <2>10
<1>14. CASE GorgonMixed
  <2>1. TypeOK'
    BY <1>14, NoneIsText DEF GorgonMixed, TypeOK
  <2>2. Stages'
    BY <1>14 DEF GorgonMixed, Stages
  <2> QED
    BY <2>1, <2>2
<1>15. CASE GorgonHex
  <2>1. job.kind = "gorgon" /\ buf \in Text /\ Len(buf) = 20
    BY <1>15 DEF GorgonHex, Stages, TypeOK
  <2>2. Prefix(job) \in Text /\ Len(Prefix(job)) = 6
    BY <1>1, <2>1, PrefixIs
  <2> DEFINE bytes == Prefix(job) \o buf
  <2>3. bytes \in Text /\ Len(bytes) = Len(Prefix(job)) + Len(buf)
    BY <2>1, <2>2, ConcatIs
  <2> HIDE DEF bytes
  <2>4. HexDigits(bytes) \in Seq(Digit64) /\ Len(HexDigits(bytes)) = 2 * Len(bytes)
    BY <2>3, HexDigitsAre
  <2>5. text' = HexDigits(bytes) /\ cap' = IF job.version = 1 THEN 256 ELSE 12 + 2 * Len(buf) + 1
    BY <1>15 DEF GorgonHex, bytes
  <2>6. Len(bytes) = 26
    BY <2>1, <2>2, <2>3
  <2>7. cap' \in Nat /\ Len(text') < cap'
    <3>1. Len(text') = 2 * 26
      BY <2>4, <2>5, <2>6
    <3>2. cap' = 256 \/ cap' = 12 + 2 * 20 + 1
      BY <2>1, <2>5
    <3> QED
      BY <3>1, <3>2
  <2>8. TypeOK'
    BY <1>15, <2>4, <2>5, <2>7 DEF GorgonHex, TypeOK, Digit64
  <2>9. Stages'
    BY <1>15, <2>7 DEF GorgonHex, Stages
  <2> QED
    BY <2>8, <2>9
<1>16. CASE UNCHANGED vars
  BY <1>16 DEF vars, TypeOK, Stages
<1> QED
  BY <1>2, <1>3, <1>4, <1>5, <1>6, <1>7, <1>8, <1>9, <1>10, <1>11, <1>12, <1>13, <1>14, <1>15,
     <1>16 DEF Next

\* Whole blocks below a whole number of blocks leave room for one more.
LEMMA HeaderInvBounds == HeaderInv => InBounds
<1> SUFFICES ASSUME HeaderInv PROVE InBounds
  OBVIOUS
<1> USE DEF HeaderInv
<1>1. Len(out) \in Nat /\ Len(buf) \in Nat /\ Len(text) \in Nat
  BY TextLen, LenProperties DEF TypeOK
<1>2. ASSUME pc = "simon", Len(out) < Len(buf)
      PROVE  Len(out) + 16 <= Len(buf)
  <2>1. Len(out) % 16 = 0 /\ Len(buf) % 16 = 0
    BY <1>2 DEF Stages
  <2> QED
    BY <1>1, <1>2, <2>1
<1>3. ASSUME pc = "ladon", Len(out) < PaddingSize(Len(job.data))
      PROVE  Len(out) + 16 <= Len(buf)
  <2> DEFINE size == PaddingSize(Len(job.data))
  <2>1. Len(out) % 16 = 0 /\ job.kind = "ladon" /\ size <= Len(buf)
    BY <1>3 DEF Stages
  <2>2. job.data \in Text
    BY <2>1, JobAssumption, LadonJobIs DEF TypeOK
  <2>3. size \in Nat /\ size % 16 = 0
    BY <2>2, TextLen, PadLenIs
  <2>4. Len(out) < size
    BY <1>3
  <2> HIDE DEF size
  <2> QED
    BY <1>1, <2>1, <2>3, <2>4
<1>4. ASSUME pc \in {"base64", "done"}
      PROVE  Len(text) < cap
  <2>1. CASE pc = "base64"
    <3>1. cap = Digits64(Len(buf)) /\ Len(text) % 4 = 0 /\ 3 * (Len(text) \div 4) < Len(buf) + 3
      BY <2>1 DEF Stages
    <3> QED
      BY <1>1, <3>1 DEF Digits64
  <2>2. CASE pc = "done"
    BY <2>2 DEF Stages
  <2> QED
    BY <1>4, <2>1, <2>2
<1> QED
  BY <1>2, <1>3, <1>4 DEF InBounds

\* Whatever is signed, under whatever keys: argus_encrypt and ladon_encrypt find
\* every block they encrypt in the padded bytes, gorgon_v1/v2/v3 mix twenty bytes,
\* and all digits and their terminator fit the block allocated for them.
THEOREM HeadersInBounds ==
  ASSUME Externals
  PROVE  Spec => []InBounds
<1>1. HeaderInv /\ [Next]_vars => HeaderInv'
  BY StepHeader
<1> QED
  BY <1>1, InitHeader, HeaderInvBounds, PTL DEF Spec

--------------------------------------------------------------------------------
\* A round of simon_encrypt can be taken back, whatever the words and the round key:
\* what makes ArgusOpens possible for every bean.
LEMMA SimonRoundOpens ==
  \A a, b, k : Cipher!RoundBack(Cipher!Round(<<a, b>>, k), k) = <<a, b>>
<1> TAKE a, b, k
<1> DEFINE f == Cipher!F(b)  c == Cipher!Xor(Cipher!Xor(a, f), k)
<1>1. Cipher!Round(<<a, b>>, k) = <<b, c>>
  BY DEF Cipher!Round
<1>2. Cipher!RoundBack(<<b, c>>, k) = <<Cipher!Xor(Cipher!Xor(c, f), k), b>>
  BY DEF Cipher!RoundBack
<1>3. Cipher!Xor(Cipher!Xor(c, f), k) = a
  <2> HIDE DEF f
  <2> QED
    BY DEF Cipher!Xor
<1> QED
  BY <1>1, <1>2, <1>3

--------------------------------------------------------------------------------
(* Bits of octets *)

LEMMA SwapIs ==
  ASSUME NEW b \in Octet
  PROVE  /\ NibbleSwap(b) \in Octet
         /\ \A i \in 0 .. 7 : i \in NibbleSwap(b) <=> (IF i < 4 THEN i + 4 ELSE i - 4) \in b
<1>1. b \in SUBSET (0 .. 7)
  BY DEF Octet, Word
<1>2. NibbleSwap(b) = {c - 4 : c \in {d \in b : d >= 4}} \cup {i + 4 : i \in b \cap (0 .. 3)}
  BY DEF NibbleSwap, Shr, Cut
<1>3. \A i \in 0 .. 7 : i \in NibbleSwap(b) <=> (IF i < 4 THEN i + 4 ELSE i - 4) \in b
  BY <1>1, <1>2
<1>4. NibbleSwap(b) \subseteq 0 .. 7
  BY <1>1, <1>2
<1> QED
  BY <1>3, <1>4 DEF Octet, Word

\* In halves, pairs and single bits: the bits in the opposite order.
LEMMA ReverseIs ==
  ASSUME NEW b \in Octet
  PROVE  BitReverse(b) \in Octet /\ BitReverse(b) = {7 - i : i \in b}
<1> DEFINE c == Swapped(b, 4, {4, 5, 6, 7})
           d == Swapped(c, 2, {2, 3, 6, 7})
           e == Swapped(d, 1, {1, 3, 5, 7})
<1>1. b \in SUBSET (0 .. 7)
  BY DEF Octet, Word
<1>2. /\ c \in SUBSET (0 .. 7)
      /\ 0 \in c <=> 4 \in b
      /\ 1 \in c <=> 5 \in b
      /\ 2 \in c <=> 6 \in b
      /\ 3 \in c <=> 7 \in b
      /\ 4 \in c <=> 0 \in b
      /\ 5 \in c <=> 1 \in b
      /\ 6 \in c <=> 2 \in b
      /\ 7 \in c <=> 3 \in b
  <2>1. c = {j - 4 : j \in {k \in b \cap {4, 5, 6, 7} : k >= 4}} \cup {i + 4 : i \in b \ {4, 5, 6, 7}}
    BY DEF Swapped, Shr
  <2>2. c \subseteq 0 .. 7
    BY <1>1, <2>1
  <2> QED
    BY <1>1, <2>1, <2>2
<1> HIDE DEF c
<1>3. /\ d \in SUBSET (0 .. 7)
      /\ 0 \in d <=> 2 \in c
      /\ 1 \in d <=> 3 \in c
      /\ 2 \in d <=> 0 \in c
      /\ 3 \in d <=> 1 \in c
      /\ 4 \in d <=> 6 \in c
      /\ 5 \in d <=> 7 \in c
      /\ 6 \in d <=> 4 \in c
      /\ 7 \in d <=> 5 \in c
  <2>1. d = {j - 2 : j \in {k \in c \cap {2, 3, 6, 7} : k >= 2}} \cup {i + 2 : i \in c \ {2, 3, 6, 7}}
    BY DEF Swapped, Shr
  <2>2. d \subseteq 0 .. 7
    BY <1>2, <2>1
  <2> QED
    BY <1>2, <2>1, <2>2
<1> HIDE DEF d
<1>4. /\ e \in SUBSET (0 .. 7)
      /\ 0 \in e <=> 1 \in d
      /\ 1 \in e <=> 0 \in d
      /\ 2 \in e <=> 3 \in d
      /\ 3 \in e <=> 2 \in d
      /\ 4 \in e <=> 5 \in d
      /\ 5 \in e <=> 4 \in d
      /\ 6 \in e <=> 7 \in d
      /\ 7 \in e <=> 6 \in d
  <2>1. e = {j - 1 : j \in {k \in d \cap {1, 3, 5, 7} : k >= 1}} \cup {i + 1 : i \in d \ {1, 3, 5, 7}}
    BY DEF Swapped, Shr
  <2>2. e \subseteq 0 .. 7
    BY <1>3, <2>1
  <2> QED
    BY <1>3, <2>1, <2>2
<1>5. BitReverse(b) = e
  BY DEF BitReverse, c, d
<1> HIDE DEF e
<1>6. \A i \in 0 .. 7 : i \in e <=> 7 - i \in b
  BY <1>2, <1>3, <1>4
<1>7. e = {7 - i : i \in b}
  <2>1. {7 - i : i \in b} \subseteq 0 .. 7
    BY <1>1
  <2>2. \A j \in 0 .. 7 : j \in {7 - i : i \in b} <=> 7 - j \in b
    BY <1>1
  <2> HIDE DEF c, d, e
  <2> QED
    BY <1>4, <1>6, <2>1, <2>2
<1> QED
  BY <1>4, <1>5, <1>7 DEF Octet, Word

\* 255 ^ 20, and its complement.
LEMMA MaskIs ==
  /\ Xor(Bits(255), Bits(20)) = {0, 1, 3, 5, 6, 7}
  /\ Bits(235) = {0, 1, 3, 5, 6, 7}
<1> DEFINE P == [i \in 0 .. 30 |-> 2 ^ i]
<1>1. /\ P[0] = 1 /\ P[1] = 2 /\ P[2] = 4 /\ P[3] = 8 /\ P[4] = 16 /\ P[5] = 32 /\ P[6] = 64 /\ P[7] = 128
      /\ P[8] = 256 /\ P[9] = 512 /\ P[10] = 1024 /\ P[11] = 2048 /\ P[12] = 4096 /\ P[13] = 8192
      /\ P[14] = 16384 /\ P[15] = 32768 /\ P[16] = 65536 /\ P[17] = 131072 /\ P[18] = 262144
      /\ P[19] = 524288 /\ P[20] = 1048576 /\ P[21] = 2097152 /\ P[22] = 4194304 /\ P[23] = 8388608
      /\ P[24] = 16777216 /\ P[25] = 33554432 /\ P[26] = 67108864 /\ P[27] = 134217728
      /\ P[28] = 268435456 /\ P[29] = 536870912 /\ P[30] = 1073741824
  OBVIOUS
<1>2. \A n : Bits(n) = {i \in 0 .. 30 : (n \div P[i]) % 2 = 1}
  BY DEF Bits
<1> HIDE DEF P
<1>3. \A i \in 8 .. 30 : P[i] \in Int /\ P[i] > 255
  BY <1>1
<1>4. \A i \in 8 .. 30 : (255 \div P[i]) % 2 = 0 /\ (235 \div P[i]) % 2 = 0 /\ (20 \div P[i]) % 2 = 0
  <2>1. \A x \in Int : x > 255 => (255 \div x) % 2 = 0 /\ (235 \div x) % 2 = 0 /\ (20 \div x) % 2 = 0
    OBVIOUS
  <2> QED
    BY <1>3, <2>1
<1>5. \A n \in {255, 235, 20} : Bits(n) = {i \in 0 .. 7 : (n \div P[i]) % 2 = 1}
  BY <1>2, <1>4
<1>6. Bits(235) = {0, 1, 3, 5, 6, 7}
  BY <1>1, <1>5
<1>7. Bits(255) = 0 .. 7
  BY <1>1, <1>5
<1>8. Bits(20) = {2, 4}
  BY <1>1, <1>5
<1> QED
  BY <1>6, <1>7, <1>8 DEF Xor

\* What a round of the mix makes of a byte and its right neighbour, and what the
\* receiver makes of that.
Mix(a, next) == Cut(8, Xor(BitReverse(Xor(NibbleSwap(a), next)), Xor(Bits(255), Bits(20))))

LEMMA MixIs ==
  ASSUME NEW a \in Octet, NEW next \in Octet
  PROVE  Mix(a, next) \in Octet /\ UnmixedByte(Mix(a, next), next) = a
<1> DEFINE n == NibbleSwap(a)
           x == Xor(n, next)
           r == BitReverse(x)
           h == Mix(a, next)
           M == {0, 1, 3, 5, 6, 7}
           u == {7 - b : b \in Xor(h, Bits(235))}
<1>1. n \in Octet /\ \A i \in 0 .. 7 : i \in n <=> (IF i < 4 THEN i + 4 ELSE i - 4) \in a
  BY SwapIs
<1>2. x \in Octet
  BY <1>1, XorOctets
<1>3. r \in Octet /\ r = {7 - i : i \in x}
  BY <1>2, ReverseIs
<1>4. h = Xor(r, M)
  <2>1. Xor(r, M) \in SUBSET (0 .. 7)
    BY <1>3 DEF Xor, Octet, Word
  <2>2. h = Cut(8, Xor(r, M))
    BY MaskIs DEF Mix
  <2> QED
    BY <2>1, <2>2 DEF Cut
<1>5. h \in Octet
  BY <1>3, <1>4 DEF Xor, Octet, Word
<1>6. Xor(h, Bits(235)) = r
  BY <1>4, MaskIs DEF Xor
<1>7. u = x
  <2> HIDE DEF r, x, h
  <2>1. u = {7 - b : b \in r}
    BY <1>6
  <2>2. x \in SUBSET (0 .. 7)
    BY <1>2 DEF Octet, Word
  <2>3. \A j \in 0 .. 7 : j \in r <=> 7 - j \in x
    BY <1>3, <2>2
  <2>4. r \subseteq 0 .. 7
    BY <1>3 DEF Octet, Word
  <2>5. u \subseteq 0 .. 7 /\ \A j \in 0 .. 7 : j \in u <=> 7 - j \in r
    <3>1. \A w \in SUBSET (0 .. 7) : /\ {7 - b : b \in w} \subseteq 0 .. 7
                                     /\ \A j \in 0 .. 7 : j \in {7 - b : b \in w} <=> 7 - j \in w
      OBVIOUS
    <3> HIDE DEF u
    <3> QED
      BY <2>1, <2>4, <3>1
  <2>6. \A j \in 0 .. 7 : 7 - j \in 0 .. 7 /\ 7 - (7 - j) = j
    OBVIOUS
  <2>7. \A j \in 0 .. 7 : j \in u <=> j \in x
    BY <2>3, <2>5, <2>6
  <2> HIDE DEF u
  <2> QED
    BY <2>2, <2>5, <2>7
<1>8. Xor(u, next) = n
  <2> HIDE DEF n, u
  <2> QED
    BY <1>7 DEF Xor, x
<1>9. NibbleSwap(n) = a
  <2> HIDE DEF n
  <2>1. NibbleSwap(n) \in SUBSET (0 .. 7) /\ a \in SUBSET (0 .. 7)
    BY <1>1, SwapIs DEF Octet, Word
  <2>2. \A i \in 0 .. 7 : i \in NibbleSwap(n) <=> (IF i < 4 THEN i + 4 ELSE i - 4) \in n
    BY <1>1, SwapIs
  <2>3. \A i \in 0 .. 7 : i \in NibbleSwap(n) <=> i \in a
    BY <1>1, <2>2
  <2> QED
    BY <2>1, <2>3
<1>10. UnmixedByte(h, next) = NibbleSwap(Xor(u, next))
  BY DEF UnmixedByte
<1> QED
  BY <1>5, <1>8, <1>9, <1>10

--------------------------------------------------------------------------------
(* Hexadecimal digits *)

LEMMA UnhexedIs ==
  ASSUME NEW s \in Text
  PROVE  Unhexed(HexDigits(s)) = s
<1>1. s \in [1 .. Len(s) -> Octet] /\ Len(s) \in Nat
  BY TextLen
<1> DEFINE L == Len(s)  t == HexDigits(s)
<1>2. t = [k \in 1 .. 2 * L |-> IF k % 2 = 1 THEN Shr(s[(k + 1) \div 2], 4) ELSE Cut(4, s[k \div 2])]
  BY DEF HexDigits
<1>3. Len(t) = 2 * L
  BY <1>1, HexDigitsAre
<1> HIDE DEF t, L
<1>4. Len(t) \div 2 = L /\ L \in Nat
  <2>1. L \in Nat /\ \A l \in Nat : (2 * l) \div 2 = l
    BY <1>1 DEF L
  <2> QED
    BY <1>3, <2>1
<1>5. ASSUME NEW k \in 1 .. L
      PROVE  {b + 4 : b \in t[2 * k - 1]} \cup t[2 * k] = s[k]
  <2>1. /\ 2 * k - 1 \in 1 .. 2 * L /\ (2 * k - 1) % 2 = 1 /\ ((2 * k - 1) + 1) \div 2 = k
        /\ 2 * k \in 1 .. 2 * L /\ (2 * k) % 2 = 0 /\ (2 * k) \div 2 = k
    BY <1>4
  <2>2. t[2 * k - 1] = Shr(s[k], 4) /\ t[2 * k] = Cut(4, s[k])
    BY <1>2, <2>1
  <2>3. s[k] \in SUBSET (0 .. 7)
    BY <1>1 DEF Octet, Word, L
  <2>4. \A x \in SUBSET (0 .. 7) : {b + 4 : b \in Shr(x, 4)} \cup Cut(4, x) = x
    <3> TAKE x \in SUBSET (0 .. 7)
    <3>1. Shr(x, 4) = {c - 4 : c \in {d \in x : d >= 4}} /\ Cut(4, x) = x \cap (0 .. 3)
      BY DEF Shr, Cut
    <3>2. \A i \in 0 .. 7 : i \in {b + 4 : b \in Shr(x, 4)} <=> i >= 4 /\ i \in x
      BY <3>1
    <3>3. {b + 4 : b \in Shr(x, 4)} \subseteq 0 .. 7
      BY <3>1
    <3>4. Cut(4, x) \subseteq 0 .. 7 /\ \A i \in 0 .. 7 : i \in Cut(4, x) <=> i < 4 /\ i \in x
      BY <3>1
    <3> DEFINE y == {b + 4 : b \in Shr(x, 4)}  z == Cut(4, x)
    <3> HIDE DEF y, z
    <3>5. \A i \in 0 .. 7 : i \in y \cup z <=> i \in x
      BY <3>2, <3>4 DEF y, z
    <3>6. y \cup z \subseteq 0 .. 7
      BY <3>3, <3>4 DEF y, z
    <3>7. y \cup z = x
      BY <3>5, <3>6
    <3> QED
      BY <3>7 DEF y, z
  <2> QED
    BY <2>2, <2>3, <2>4
<1>6. Unhexed(t) = [k \in 1 .. L |-> s[k]]
  BY <1>4, <1>5 DEF Unhexed
<1> QED
  BY <1>1, <1>6 DEF t, L

--------------------------------------------------------------------------------
(* The mix and the receiver of X-Gorgon *)

\* The first n bytes of w are mixed, in place: each from its right neighbour, the
\* twentieth from the first.
Bytes20 == [1 .. 20 -> Octet]
MixedTo(w, m, n) ==
  /\ w \in Bytes20 /\ m \in Bytes20
  /\ \A k \in 1 .. 20 : m[k] = IF k <= n THEN Mix(w[k], IF k < 20 THEN w[k + 1] ELSE m[1]) ELSE w[k]

LEMMA MixStep ==
  ASSUME NEW w, NEW m, NEW n \in 0 .. 19, MixedTo(w, m, n)
  PROVE  MixedTo(w, [m EXCEPT ![n + 1] = MixedByte(m, n + 1)], n + 1)
<1> DEFINE i == n + 1
           v == MixedByte(m, i)
           q == [m EXCEPT ![i] = v]
<1>1. i \in 1 .. 20 /\ w \in Bytes20 /\ m \in Bytes20
  BY DEF MixedTo
<1>2. v = Mix(w[i], IF i < 20 THEN w[i + 1] ELSE m[1])
  <2>1. v = Mix(m[i], m[(i % 20) + 1])
    BY DEF MixedByte, Mix
  <2>2. m[i] = w[i]
    <3>1. ~(i <= n)
      OBVIOUS
    <3> QED
      BY <1>1, <3>1 DEF MixedTo
  <2>3. CASE i < 20
    <3>1. (i % 20) + 1 = i + 1 /\ i + 1 \in 1 .. 20 /\ ~(i + 1 <= n)
      BY <1>1, <2>3
    <3>2. m[i + 1] = w[i + 1]
      BY <3>1 DEF MixedTo
    <3> HIDE DEF i, v
    <3> QED
      BY <2>1, <2>2, <2>3, <3>1, <3>2
  <2>4. CASE ~(i < 20)
    <3>1. (i % 20) + 1 = 1
      BY <1>1, <2>4
    <3> HIDE DEF i, v
    <3> QED
      BY <2>1, <2>2, <2>4, <3>1
  <2> QED
    BY <2>3, <2>4
<1>3. v \in Octet
  <2>1. w[i] \in Octet /\ (i < 20 => w[i + 1] \in Octet) /\ m[1] \in Octet
    BY <1>1 DEF Bytes20
  <2> HIDE DEF i, v
  <2> QED
    BY <1>2, <2>1, MixIs
<1> HIDE DEF v
<1>4. q \in Bytes20 /\ q[i] = v /\ \A k \in 1 .. 20 : k # i => q[k] = m[k]
  BY <1>1, <1>3 DEF Bytes20
<1>5. ASSUME NEW k \in 1 .. 20
      PROVE  q[k] = IF k <= i THEN Mix(w[k], IF k < 20 THEN w[k + 1] ELSE q[1]) ELSE w[k]
  <2>1. m[k] = IF k <= n THEN Mix(w[k], IF k < 20 THEN w[k + 1] ELSE m[1]) ELSE w[k]
    BY DEF MixedTo
  <2>2. CASE k = i
    <3>1. ~(k < 20) => q[1] = m[1]
      BY <1>4, <2>2
    <3>2. k <= i
      BY <2>2
    <3> HIDE DEF i, q
    <3> QED
      BY <1>2, <1>4, <2>2, <3>1, <3>2
  <2>3. CASE k # i
    <3>1. (k <= i <=> k <= n) /\ q[k] = m[k]
      BY <1>4, <2>3
    <3>2. k <= n => k < 20
      OBVIOUS
    <3> HIDE DEF i, q
    <3> QED
      BY <2>1, <3>1, <3>2
  <2> QED
    BY <2>2, <2>3
<1> HIDE DEF q, i
<1>6. MixedTo(w, q, i)
  BY <1>1, <1>4, <1>5 DEF MixedTo
<1> QED
  BY <1>6 DEF q, i, v

\* From the last byte to the first, each is taken back with its neighbour as it was.
LEMMA UnmixedIs ==
  ASSUME NEW w, NEW m, MixedTo(w, m, 20), w \in Text, Len(w) = 20
  PROVE  Unmixed(m) = XorEach(w, GorgonKey)
<1> DEFINE From(f, i) == IF i = 21 THEN <<m[1]>> ELSE <<UnmixedByte(m[i], f[i + 1][1])>> \o f[i + 1]
           IsFrom(f) == f = [i \in 1 .. 21 |-> From(f, i)]
           g == [i \in 1 .. 21 |-> [k \in 1 .. 22 - i |-> IF k = 22 - i THEN m[1] ELSE w[i + k - 1]]]
<1>0. /\ \A i \in 1 .. 20 : /\ i \in 1 .. 21 /\ i # 21
                             /\ i + 1 \in 0 .. 21 /\ ~(i + 1 <= i) /\ i + 1 # 0
      /\ \A i \in 0 .. 21 : i # 0 /\ i # 21 => i \in 1 .. 20
  OBVIOUS
<1>1. w \in Bytes20 /\ m \in Bytes20
  BY DEF MixedTo
<1>2. \A k \in 1 .. 20 : UnmixedByte(m[k], IF k < 20 THEN w[k + 1] ELSE m[1]) = w[k]
  <2> TAKE k \in 1 .. 20
  <2> DEFINE next == IF k < 20 THEN w[k + 1] ELSE m[1]
  <2>1. w[k] \in Octet /\ next \in Octet
    BY <1>1 DEF Bytes20
  <2>2. m[k] = Mix(w[k], next)
    BY DEF MixedTo
  <2> HIDE DEF next
  <2>3. UnmixedByte(Mix(w[k], next), next) = w[k]
    BY <2>1, MixIs
  <2> QED
    BY <2>2, <2>3 DEF next
<1>3. \A i \in 1 .. 20 : <<UnmixedByte(m[i], g[i + 1][1])>> \o g[i + 1] = g[i]
  <2> TAKE i \in 1 .. 20
  <2>1. i + 1 \in 1 .. 21 /\ 22 - (i + 1) = 21 - i /\ 21 - i \in Nat /\ 1 \in 1 .. 21 - i
    OBVIOUS
  <2>2. g[i + 1] = [k \in 1 .. 21 - i |-> IF k = 21 - i THEN m[1] ELSE w[(i + 1) + k - 1]]
    BY <2>1
  <2>3. g[i + 1][1] = IF i < 20 THEN w[i + 1] ELSE m[1]
    <3>1. (1 = 21 - i <=> ~(i < 20)) /\ (i + 1) + 1 - 1 = i + 1
      OBVIOUS
    <3> HIDE DEF g
    <3> QED
      BY <2>1, <2>2, <3>1
  <2>4. UnmixedByte(m[i], g[i + 1][1]) = w[i]
    <3> HIDE DEF g
    <3> QED
      BY <1>2, <2>3
  <2>5. g[i] = [k \in 1 .. 22 - i |-> IF k = 22 - i THEN m[1] ELSE w[i + k - 1]]
    OBVIOUS
  <2> DEFINE r == g[i + 1]
  <2>6. r \in Seq(Octet) /\ Len(r) = 21 - i
    <3>1. r \in [1 .. 21 - i -> Octet]
      <4>1. ASSUME NEW k \in 1 .. 21 - i
            PROVE  (IF k = 21 - i THEN m[1] ELSE w[(i + 1) + k - 1]) \in Octet
        <5>1. k # 21 - i => (i + 1) + k - 1 \in 1 .. 20
          OBVIOUS
        <5> QED
          BY <1>1, <5>1 DEF Bytes20
      <4> HIDE DEF g
      <4> QED
        BY <2>2, <4>1
    <3> HIDE DEF r
    <3> QED
      BY <2>1, <3>1
  <2>7. <<w[i]>> \in Seq(Octet) /\ Len(<<w[i]>>) = 1 /\ <<w[i]>>[1] = w[i]
    BY <1>1 DEF Bytes20
  <2>8. <<w[i]>> \o r = [k \in 1 .. 22 - i |-> IF k <= 1 THEN w[i] ELSE r[k - 1]]
    <3> DEFINE one == <<w[i]>>
    <3>1. one \in Seq(Octet) /\ Len(one) = 1 /\ one[1] = w[i]
      BY <2>7
    <3> HIDE DEF one, r
    <3>3. Len(one) + Len(r) = 22 - i
      <4>1. 1 + (21 - i) = 22 - i
        OBVIOUS
      <4> QED
        BY <2>6, <3>1, <4>1
    <3>6. /\ one \o r \in Seq(Octet) /\ Len(one \o r) = 22 - i
          /\ \A k \in 1 .. 22 - i : (one \o r)[k] = IF k <= 1 THEN one[k] ELSE r[k - 1]
      <4>1. /\ one \o r \in Seq(Octet) /\ Len(one \o r) = Len(one) + Len(r)
            /\ \A k \in 1 .. Len(one) + Len(r) : (one \o r)[k] = IF k <= Len(one) THEN one[k] ELSE r[k - Len(one)]
        BY <2>6, <3>1, ConcatProperties
      <4> QED
        BY <3>1, <3>3, <4>1
    <3>2. one \o r = [k \in 1 .. 22 - i |-> (one \o r)[k]]
      <4>1. \A x \in Seq(Octet) : x = [k \in 1 .. Len(x) |-> x[k]]
        BY LenProperties
      <4> QED
        BY <3>6, <4>1, Zenon
    <3>4. \A k \in 1 .. 22 - i : k <= 1 => k = 1
      OBVIOUS
    <3>5. one \o r = [k \in 1 .. 22 - i |-> IF k <= 1 THEN w[i] ELSE r[k - 1]]
      BY <3>1, <3>2, <3>4, <3>6
    <3> QED
      BY <3>5 DEF one
  <2>9. \A k \in 1 .. 22 - i : (IF k <= 1 THEN w[i] ELSE r[k - 1]) = (IF k = 22 - i THEN m[1] ELSE w[i + k - 1])
    <3> TAKE k \in 1 .. 22 - i
    <3>1. CASE k <= 1
      <4>1. k = 1 /\ k # 22 - i /\ i + k - 1 = i
        BY <3>1
      <4> QED
        BY <3>1, <4>1
    <3>2. CASE ~(k <= 1)
      <4>1. /\ k - 1 \in 1 .. 21 - i /\ (k - 1 = 21 - i <=> k = 22 - i)
            /\ (i + 1) + (k - 1) - 1 = i + k - 1
        BY <3>2
      <4> HIDE DEF g
      <4>2. g[i + 1][k - 1] = IF k - 1 = 21 - i THEN m[1] ELSE w[(i + 1) + (k - 1) - 1]
        BY <2>2, <4>1
      <4> QED
        BY <3>2, <4>1, <4>2
    <3> QED
      BY <3>1, <3>2
  <2>10. <<w[i]>> \o r = g[i]
    <3> HIDE DEF r, g
    <3> QED
      BY <2>5, <2>8, <2>9
  <2> QED
    BY <2>4, <2>10
<1>4. g[21] = <<m[1]>>
  OBVIOUS
<1>5. \A f : IsFrom(f) => f[1] = g[1]
  <2> HIDE DEF g
  <2> SUFFICES ASSUME NEW f, IsFrom(f) PROVE f[1] = g[1]
    OBVIOUS
  <2>1. \A i \in 1 .. 21 : f[i] = From(f, i)
    <3> HIDE DEF From
    <3> QED
      BY Zenon
  <2>2. f[21] = g[21]
    <3>1. From(f, 21) = <<m[1]>>
      OBVIOUS
    <3> HIDE DEF From
    <3> QED
      BY <1>4, <2>1, <3>1
  <2>3. \A i \in 1 .. 20 : f[i + 1] = g[i + 1] => f[i] = g[i]
    <3> TAKE i \in 1 .. 20
    <3> HAVE f[i + 1] = g[i + 1]
    <3>1. f[i] = <<UnmixedByte(m[i], f[i + 1][1])>> \o f[i + 1]
      <4>1. i \in 1 .. 21 /\ i # 21
        BY <1>0, Zenon
      <4> QED
        BY <2>1, <4>1
    <3> QED
      BY <1>3, <3>1
  <2> DEFINE Wrong == {i \in 0 .. 21 : i # 0 /\ f[i] # g[i]}
  <2>4. SUFFICES ASSUME f[1] # g[1] PROVE FALSE
    OBVIOUS
  <2>5. PICK j \in Wrong : \A i \in Wrong : i <= j
    <3>1. Wrong \in SUBSET (0 .. 21) /\ 21 \in Nat
      OBVIOUS
    <3>2. 1 \in Wrong
      <4>1. 1 \in 0 .. 21 /\ 1 # 0
        OBVIOUS
      <4> QED
        BY <2>4, <4>1, Zenon
    <3> HIDE DEF Wrong
    <3> QED
      BY <3>1, <3>2, Numbers!GreatestNatural
  <2>6. j \in 1 .. 20
    <3>1. j \in 0 .. 21 /\ j # 0 /\ j # 21
      BY <2>2
    <3> QED
      BY <1>0, <3>1, Zenon
  <2>7. j + 1 \in 0 .. 21 /\ ~(j + 1 <= j) /\ j + 1 # 0
    BY <1>0, <2>6, Zenon
  <2>8. f[j + 1] = g[j + 1]
    BY <2>5, <2>7
  <2> QED
    BY <2>3, <2>6, <2>8
<1>6. IsFrom(g)
  <2>1. \A i \in 1 .. 21 : g[i] = From(g, i)
    <3> TAKE i \in 1 .. 21
    <3> HIDE DEF g
    <3>1. i = 21 \/ (i \in 1 .. 20 /\ i # 21)
      OBVIOUS
    <3> QED
      BY <1>3, <1>4, <3>1
  <2>2. g = [i \in 1 .. 21 |-> g[i]]
    OBVIOUS
  <2> HIDE DEF g, From
  <2> QED
    BY <2>1, <2>2
<1>7. SubSeq(g[1], 1, 20) = w
  <2>1. g[1] = [k \in 1 .. 21 |-> IF k = 21 THEN m[1] ELSE w[k]]
    <3>1. g[1] = [k \in 1 .. 22 - 1 |-> IF k = 22 - 1 THEN m[1] ELSE w[1 + k - 1]]
      OBVIOUS
    <3>2. \A k \in 1 .. 21 : 1 + k - 1 = k
      OBVIOUS
    <3>3. 22 - 1 = 21
      OBVIOUS
    <3> HIDE DEF g
    <3> QED
      BY <3>1, <3>2, <3>3
  <2>2. SubSeq(g[1], 1, 20) = [k \in 1 .. 20 |-> g[1][k]]
    <3>1. \A x : SubSeq(x, 1, 20) = [k \in 1 .. 20 |-> x[k]]
      OBVIOUS
    <3> HIDE DEF g
    <3> QED
      BY <3>1
  <2>3. \A k \in 1 .. 20 : g[1][k] = w[k]
    <3> HIDE DEF g
    <3> QED
      BY <2>1
  <2> HIDE DEF g
  <2> QED
    BY <1>1, <2>2, <2>3 DEF Bytes20
<1>8. Unmixed(m) = XorEach(SubSeq((CHOOSE f : IsFrom(f))[1], 1, 20), GorgonKey)
  BY DEF Unmixed
<1>9. IsFrom(CHOOSE f : IsFrom(f))
  <2> HIDE DEF IsFrom
  <2> QED
    BY <1>6
<1> HIDE DEF IsFrom, g
<1> QED
  BY <1>5, <1>7, <1>8, <1>9

--------------------------------------------------------------------------------
(* Slices of texts *)

LEMMA TextEqual ==
  ASSUME NEW s \in Text, NEW t \in Text, Len(s) = Len(t), \A i \in 1 .. Len(s) : s[i] = t[i]
  PROVE  s = t
BY SeqEqual DEF Text

LEMMA XorTwice ==
  ASSUME NEW s \in Text, NEW t \in Text, Len(t) = Len(s)
  PROVE  XorEach(XorEach(s, t), t) = s
<1> DEFINE x == XorEach(s, t)  y == XorEach(x, t)
<1>1. x \in Text /\ Len(x) = Len(s)
  BY XorEachIs
<1>2. \A i \in 1 .. Len(s) : x[i] = Xor(s[i], t[i])
  BY TextLen DEF XorEach
<1> HIDE DEF x
<1>3. y \in Text /\ Len(y) = Len(s)
  BY <1>1, XorEachIs
<1>4. \A i \in 1 .. Len(s) : y[i] = Xor(x[i], t[i])
  BY <1>1, TextLen DEF XorEach
<1> HIDE DEF y
<1>5. \A a, b : Xor(Xor(a, b), b) = a
  BY DEF Xor
<1>6. \A i \in 1 .. Len(s) : y[i] = s[i]
  BY <1>2, <1>4, <1>5
<1>7. y = s
  BY <1>3, <1>6, TextEqual
<1> QED
  BY <1>7 DEF x, y

\* A slice of a text.
LEMMA SliceIs ==
  ASSUME NEW s \in Text, NEW off \in Nat, NEW n \in Nat, off + n <= Len(s)
  PROVE  /\ Slice(s, off, n) \in Text /\ Len(Slice(s, off, n)) = n
         /\ \A i \in 1 .. n : Slice(s, off, n)[i] = s[off + i]
<1>1. s \in [1 .. Len(s) -> Octet] /\ Len(s) \in Nat
  BY TextLen
<1>2. \A i \in off + 1 .. off + n : s[i] \in Octet
  <2>1. \A i \in off + 1 .. off + n : i \in 1 .. Len(s)
    BY <1>1
  <2> QED
    BY <1>1, <2>1
<1>3. off + 1 \in Int /\ off + n \in Int
  OBVIOUS
<1> DEFINE t == SubSeq(s, off + 1, off + n)
<1>4. /\ t \in Seq(Octet)
      /\ Len(t) = IF off + 1 <= off + n THEN off + n - (off + 1) + 1 ELSE 0
      /\ \A i \in 1 .. off + n - (off + 1) + 1 : t[i] = s[off + 1 + i - 1]
  BY <1>2, <1>3, SubSeqProperties, SMTT(30)
<1>5. off + n - (off + 1) + 1 = n /\ (~(off + 1 <= off + n) => n = 0)
  OBVIOUS
<1>6. \A i \in 1 .. n : off + 1 + i - 1 = off + i
  OBVIOUS
<1> HIDE DEF t
<1>7. t \in Seq(Octet) /\ Len(t) = n /\ \A i \in 1 .. n : t[i] = s[off + i]
  BY <1>4, <1>5, <1>6
<1> QED
  BY <1>7 DEF Slice, Text, t

\* The bytes of a text before and after another.
LEMMA SliceLeft ==
  ASSUME NEW s \in Text, NEW t \in Text, NEW off \in Nat, NEW n \in Nat, off + n <= Len(s)
  PROVE  Slice(s \o t, off, n) = Slice(s, off, n)
<1>1. Len(s) \in Nat /\ Len(t) \in Nat
  BY TextLen
<1> DEFINE st == s \o t
<1>2. /\ st \in Text /\ Len(st) = Len(s) + Len(t)
      /\ \A i \in 1 .. Len(s) + Len(t) : st[i] = IF i <= Len(s) THEN s[i] ELSE t[i - Len(s)]
  BY ConcatProperties DEF Text
<1> HIDE DEF st
<1>3. off + n <= Len(st)
  BY <1>1, <1>2
<1> DEFINE x == Slice(st, off, n)  y == Slice(s, off, n)
<1>4. x \in Text /\ Len(x) = n /\ \A i \in 1 .. n : x[i] = st[off + i]
  BY <1>2, <1>3, SliceIs
<1>5. y \in Text /\ Len(y) = n /\ \A i \in 1 .. n : y[i] = s[off + i]
  BY SliceIs
<1> HIDE DEF x, y
<1>6. \A i \in 1 .. n : off + i \in 1 .. Len(s) + Len(t) /\ off + i <= Len(s)
  BY <1>1
<1>7. \A i \in 1 .. n : x[i] = y[i]
  BY <1>2, <1>4, <1>5, <1>6
<1>8. x = y
  BY <1>4, <1>5, <1>7, TextEqual
<1> QED
  BY <1>8 DEF x, y, st

LEMMA SliceRight ==
  ASSUME NEW s \in Text, NEW t \in Text
  PROVE  Slice(s \o t, Len(s), Len(t)) = t
<1>1. Len(s) \in Nat /\ Len(t) \in Nat
  BY TextLen
<1> DEFINE st == s \o t  n == Len(t)  off == Len(s)
<1>2. /\ st \in Text /\ Len(st) = Len(s) + Len(t)
      /\ \A i \in 1 .. Len(s) + Len(t) : st[i] = IF i <= Len(s) THEN s[i] ELSE t[i - Len(s)]
  BY ConcatProperties DEF Text
<1>0. off \in Nat /\ n \in Nat /\ Len(t) = n /\ Len(s) = off
  BY <1>1
<1> HIDE DEF st, n, off
<1>3. off + n <= Len(st)
  BY <1>0, <1>2
<1> DEFINE x == Slice(st, off, n)
<1>4. x \in Text /\ Len(x) = n /\ \A i \in 1 .. n : x[i] = st[off + i]
  BY <1>0, <1>2, <1>3, SliceIs
<1> HIDE DEF x
<1>5. \A i \in 1 .. n : off + i \in 1 .. off + n /\ ~(off + i <= off) /\ off + i - off = i
  BY <1>0
<1>6. \A i \in 1 .. n : x[i] = t[i]
  BY <1>0, <1>2, <1>4, <1>5
<1>7. x = t
  BY <1>0, <1>4, <1>6, TextEqual
<1> QED
  BY <1>7 DEF x, st, n, off

\* The slices of s and t in st, which is the one followed by the other.
OfTwo(st, s, t, l, n) ==
  /\ Slice(st, l, n) = t
  /\ \A off, m \in Nat : off + m <= l => Slice(st, off, m) = Slice(s, off, m)
  /\ st \in Text /\ Len(st) = l + n
  /\ \A i \in 1 .. n : st[l + i] = t[i]

LEMMA SliceOfTwo ==
  ASSUME NEW s \in Text, NEW t \in Text, NEW l, NEW n, Len(s) = l, Len(t) = n
  PROVE  OfTwo(s \o t, s, t, l, n)
<1>0. l \in Nat /\ n \in Nat
  BY TextLen
<1>1. Slice(s \o t, l, n) = t
  BY SliceRight
<1>2. \A off, m \in Nat : off + m <= Len(s) => Slice(s \o t, off, m) = Slice(s, off, m)
  BY SliceLeft
<1>3. s \o t \in Text /\ Len(s \o t) = Len(s) + Len(t)
  BY ConcatIs
<1> DEFINE st == s \o t
<1>4. \A i \in 1 .. Len(s) + Len(t) : st[i] = IF i <= Len(s) THEN s[i] ELSE t[i - Len(s)]
  BY ConcatProperties DEF Text
<1> HIDE DEF st
<1>5. \A i \in 1 .. n : l + i \in 1 .. l + n /\ ~(l + i <= l) /\ l + i - l = i
  OBVIOUS
<1>6. \A i \in 1 .. n : st[l + i] = t[i]
  BY <1>4, <1>5
<1> QED
  BY <1>1, <1>2, <1>3, <1>6 DEF st, OfTwo

LEMMA SliceWhole == \A s \in Text : Slice(s, 0, Len(s)) = s
<1> TAKE s \in Text
<1>1. Len(s) \in Nat
  BY TextLen
<1>2. 0 + 1 = 1 /\ 0 + Len(s) = Len(s)
  BY <1>1
<1>3. SubSeq(s, 1, Len(s)) = s
  BY SubSeqFull DEF Text
<1> QED
  BY <1>2, <1>3 DEF Slice

\* Four octets of a word, and back.
LEMMA FromBigIs ==
  ASSUME NEW a \in SUBSET (0 .. 31), NEW s, NEW off,
         \A k \in 0 .. 3 : s[off + k + 1] = BigEndian(4, a)[k + 1]
  PROVE  FromBig(s, off) = a
<1>1. ASSUME NEW k \in 0 .. 3 PROVE s[off + k + 1] = {b \in 0 .. 7 : 8 * (3 - k) + b \in a}
  <2>1. k + 1 \in 1 .. 4 /\ 4 - (k + 1) = 3 - k
    OBVIOUS
  <2> QED
    BY <2>1 DEF BigEndian, Low
<1>2. ASSUME NEW k \in 0 .. 3 PROVE {8 * (3 - k) + b : b \in s[off + k + 1]} = {i \in a : i \div 8 = 3 - k}
  <2>0. s[off + k + 1] = {b \in 0 .. 7 : 8 * (3 - k) + b \in a}
    BY <1>1
  <2>1. \A i \in a : i \div 8 = 3 - k => i - 8 * (3 - k) \in 0 .. 7 /\ 8 * (3 - k) + (i - 8 * (3 - k)) = i
    <3>1. \A i, c \in Int : i \div 8 = c => i - 8 * c \in 0 .. 7 /\ 8 * c + (i - 8 * c) = i
      OBVIOUS
    <3>2. 3 - k \in Int
      OBVIOUS
    <3>3. \A i \in a : i \in Int
      BY \A i \in 0 .. 31 : i \in Int
    <3> QED
      BY <3>1, <3>2, <3>3, Zenon
  <2>2. \A b \in 0 .. 7 : (8 * (3 - k) + b) \div 8 = 3 - k
    OBVIOUS
  <2> DEFINE x == {8 * (3 - k) + b : b \in s[off + k + 1]}  y == {i \in a : i \div 8 = 3 - k}
  <2>3. ASSUME NEW i \in x PROVE i \in y
    <3>1. PICK b \in 0 .. 7 : i = 8 * (3 - k) + b /\ 8 * (3 - k) + b \in a
      BY <2>0
    <3> QED
      BY <2>2, <3>1
  <2>4. ASSUME NEW i \in y PROVE i \in x
    <3>1. i - 8 * (3 - k) \in s[off + k + 1] /\ 8 * (3 - k) + (i - 8 * (3 - k)) = i
      BY <2>0, <2>1
    <3> QED
      BY <3>1
  <2>5. x = y
    BY <2>3, <2>4
  <2> QED
    BY <2>5
<1>3. \A i \in a : 3 - (i \div 8) \in 0 .. 3 /\ i \div 8 = 3 - (3 - (i \div 8))
  OBVIOUS
<1>4. FromBig(s, off) \subseteq a
  BY <1>2 DEF FromBig
<1>5. a \subseteq FromBig(s, off)
  <2> SUFFICES ASSUME NEW i \in a PROVE i \in FromBig(s, off)
    OBVIOUS
  <2> DEFINE k == 3 - (i \div 8)
  <2>1. k \in 0 .. 3 /\ i \div 8 = 3 - k
    BY <1>3
  <2> HIDE DEF k
  <2>2. i \in {8 * (3 - k) + b : b \in s[off + k + 1]}
    BY <1>2, <2>1
  <2> QED
    BY <2>1, <2>2 DEF FromBig
<1> QED
  BY <1>4, <1>5

\* What the twenty bytes hold.
LEMMA FilledHolds ==
  ASSUME NEW j \in Job, j.kind = "gorgon", \A s \in Text : Md5(s) \in Text /\ Len(Md5(s)) = 16
  PROVE  /\ Slice(Filled(j), 0, 4) = Slice(Md5(j.params), 0, 4)
         /\ Slice(Filled(j), 4, 4) = QuadOf(j.payload)
         /\ Slice(Filled(j), 8, 4) = QuadOf(j.cookie)
         /\ FromBig(Filled(j), 16) = j.unix \cap (0 .. 31)
<1>1. j.params \in Text /\ j.payload \in Text /\ j.cookie \in Text /\ j.version \in 1 .. 3
  BY DEF Job
<1>2. \A s \in Text : Quad(s) = Slice(Md5(s), 0, 4) /\ Quad(s) \in Text /\ Len(Quad(s)) = 4
  <2> TAKE s \in Text
  <2>1. Quad(s) = Slice(Md5(s), 0, 4)
    <3>1. 0 + 1 = 1 /\ 0 + 4 = 4
      OBVIOUS
    <3> QED
      BY <3>1 DEF Quad, Slice
  <2>2. Md5(s) \in Text /\ 0 \in Nat /\ 4 \in Nat /\ 0 + 4 <= Len(Md5(s))
    <3>1. Md5(s) \in Text /\ Len(Md5(s)) = 16
      OBVIOUS
    <3>2. 0 + 4 <= 16
      OBVIOUS
    <3> QED
      BY <3>1, <3>2
  <2>3. Slice(Md5(s), 0, 4) \in Text /\ Len(Slice(Md5(s), 0, 4)) = 4
    BY <2>2, SliceIs
  <2> QED
    BY <2>1, <2>3
<1>3. Repeated({}, 4) \in Text /\ Len(Repeated({}, 4)) = 4
  <2>1. {} \in Octet /\ 4 \in Nat
    BY DEF Octet, Word
  <2> QED
    BY <2>1, RepeatedIs
<1>4. \A s \in Text : QuadOf(s) \in Text /\ Len(QuadOf(s)) = 4
  BY <1>2, <1>3 DEF QuadOf
<1>5. Mark(j.version) \in Text /\ Len(Mark(j.version)) = 4
  <2>1. <<1, 1, 2, 4>> \in [1 .. 4 -> Nat] /\ <<0, 6, 11, 28>> \in [1 .. 4 -> Nat] /\ 4 \in Nat
    OBVIOUS
  <2>2. \A ns \in [1 .. 4 -> Nat] : Octets(ns) \in Text /\ Len(Octets(ns)) = 4
    BY <2>1, OctetsIs
  <2> QED
    BY <2>1, <2>2 DEF Mark
<1> DEFINE p == Quad(j.params)  q == QuadOf(j.payload)  c == QuadOf(j.cookie)
           m == Mark(j.version)  a == j.unix \cap (0 .. 31)  u == BigEndian(4, a)
<1>6. /\ p \in Text /\ q \in Text /\ c \in Text /\ m \in Text /\ u \in Text
      /\ Len(p) = 4 /\ Len(q) = 4 /\ Len(c) = 4 /\ Len(m) = 4 /\ Len(u) = 4
  BY <1>1, <1>2, <1>4, <1>5, BigEndianIs
<1>7. Cut(32, j.unix) = a
  <2>1. 32 - 1 = 31
    OBVIOUS
  <2> QED
    BY <2>1 DEF Cut
<1> DEFINE pq == p \o q  pqc == pq \o c  pqcm == pqc \o m  all == pqcm \o u
<1>8. Filled(j) = all
  BY <1>7 DEF Filled
<1> HIDE DEF p, q, c, m, u
<1>9. /\ pq \in Text /\ Len(pq) = 8
      /\ Slice(pq, 4, 4) = q /\ Slice(pq, 0, 4) = p
  <2>0. OfTwo(pq, p, q, 4, 4)
    BY <1>6, SliceOfTwo, Zenon
  <2>1. /\ Slice(pq, 4, 4) = q
        /\ \A off, n \in Nat : off + n <= 4 => Slice(pq, off, n) = Slice(p, off, n)
        /\ pq \in Text /\ Len(pq) = 4 + 4
    BY <2>0, Zenon DEF OfTwo
  <2>2. Slice(p, 0, 4) = p
    BY <1>6, SliceWhole
  <2> HIDE DEF pq
  <2> QED
    BY <2>1, <2>2
<1> HIDE DEF pq
<1>10. /\ pqc \in Text /\ Len(pqc) = 12
       /\ Slice(pqc, 8, 4) = c /\ Slice(pqc, 4, 4) = q /\ Slice(pqc, 0, 4) = p
  <2>0. OfTwo(pqc, pq, c, 8, 4)
    BY <1>6, <1>9, SliceOfTwo, Zenon
  <2>1. /\ Slice(pqc, 8, 4) = c
        /\ \A off, n \in Nat : off + n <= 8 => Slice(pqc, off, n) = Slice(pq, off, n)
        /\ pqc \in Text /\ Len(pqc) = 8 + 4
    BY <2>0, Zenon DEF OfTwo
  <2> HIDE DEF pqc
  <2> QED
    BY <1>9, <2>1
<1> HIDE DEF pqc
<1> DEFINE mu == m \o u
<1>14. all = pqc \o mu
  <2>1. m \in Seq(Octet) /\ u \in Seq(Octet) /\ pqc \in Seq(Octet)
    BY <1>6, <1>10 DEF Text
  <2> QED
    BY <2>1, ConcatAssociative
<1>13. mu \in Text /\ Len(mu) = 8 /\ \A i \in 1 .. 4 : mu[4 + i] = u[i]
  <2>0. OfTwo(mu, m, u, 4, 4)
    BY <1>6, SliceOfTwo, Zenon
  <2>1. mu \in Text /\ Len(mu) = 4 + 4 /\ \A i \in 1 .. 4 : mu[4 + i] = u[i]
    BY <2>0, Zenon DEF OfTwo
  <2> HIDE DEF mu
  <2> QED
    BY <2>1
<1> HIDE DEF mu, all, pqcm
<1>15. /\ Slice(all, 8, 4) = c /\ Slice(all, 4, 4) = q /\ Slice(all, 0, 4) = p
       /\ \A k \in 0 .. 3 : all[16 + k + 1] = u[k + 1]
  <2>0. OfTwo(pqc \o mu, pqc, mu, 12, 8)
    BY <1>10, <1>13, SliceOfTwo, Zenon
  <2>1. /\ \A off, n \in Nat : off + n <= 12 => Slice(all, off, n) = Slice(pqc, off, n)
        /\ \A i \in 1 .. 8 : all[12 + i] = mu[i]
    BY <1>14, <2>0, Zenon DEF OfTwo
  <2>2. ASSUME NEW k \in 0 .. 3 PROVE all[16 + k + 1] = u[k + 1]
    <3>1. 4 + (k + 1) \in 1 .. 8 /\ k + 1 \in 1 .. 4 /\ 12 + (4 + (k + 1)) = 16 + k + 1
      OBVIOUS
    <3>2. all[12 + (4 + (k + 1))] = mu[4 + (k + 1)] /\ mu[4 + (k + 1)] = u[k + 1]
      BY <1>13, <2>1, <3>1
    <3> QED
      BY <3>1, <3>2
  <2> QED
    BY <1>10, <2>1, <2>2
<1>17. FromBig(all, 16) = a
  <2>1. a \in SUBSET (0 .. 31)
    OBVIOUS
  <2>2. \A k \in 0 .. 3 : all[16 + k + 1] = BigEndian(4, a)[k + 1]
    BY <1>15 DEF u
  <2> HIDE DEF a
  <2> QED
    BY <2>1, <2>2, FromBigIs
<1>18. p = Slice(Md5(j.params), 0, 4) /\ q = QuadOf(j.payload) /\ c = QuadOf(j.cookie)
  BY <1>1, <1>2 DEF p, q, c
<1> HIDE DEF a
<1> QED
  BY <1>8, <1>15, <1>17, <1>18 DEF a

--------------------------------------------------------------------------------
\* At each stage of gorgon_v1/v2/v3: as many bytes mixed as have been counted; the
\* header of the filled bytes, in version 1 as they are and later mixed throughout.
Keyed(j) == XorEach(Filled(j), GorgonKey)
Given(j, m) == IF j.version = 1 THEN m = Filled(j) ELSE MixedTo(Keyed(j), m, 20)

GorgonStages ==
  /\ job.kind = "gorgon" => pc \in {"start", "mix", "hex", "done"}
  /\ pc = "mix" => job.version # 1 /\ Len(out) <= 20 /\ MixedTo(Keyed(job), buf, Len(out))
  /\ pc = "hex" => Given(job, buf)
  /\ pc = "done" /\ job.kind = "gorgon" =>
       \E m \in Text : Len(m) = 20 /\ Given(job, m) /\ text = HexDigits(Prefix(job) \o m)

GorgonInv == HeaderInv /\ GorgonStages

LEMMA KeyedIs ==
  ASSUME Externals, NEW j \in Job, j.kind = "gorgon"
  PROVE  /\ Filled(j) \in Text /\ Len(Filled(j)) = 20
         /\ Keyed(j) \in Text /\ Len(Keyed(j)) = 20
         /\ XorEach(Keyed(j), GorgonKey) = Filled(j)
<1>1. Filled(j) \in Text /\ Len(Filled(j)) = 20
  BY FilledIs DEF Externals
<1>2. GorgonKey \in Text /\ Len(GorgonKey) = 20
  BY FixedBytes
<1>3. Keyed(j) \in Text /\ Len(Keyed(j)) = 20
  BY <1>1, <1>2, XorEachIs DEF Keyed
<1>4. XorEach(Keyed(j), GorgonKey) = Filled(j)
  BY <1>1, <1>2, XorTwice DEF Keyed
<1> QED
  BY <1>1, <1>3, <1>4

LEMMA InitGorgon == Init => GorgonInv
<1>1. Init => GorgonStages
  BY DEF Init, GorgonStages
<1> QED
  BY <1>1, InitHeader DEF GorgonInv

LEMMA StepGorgon ==
  ASSUME Externals, GorgonInv, [Next]_vars
  PROVE  GorgonInv'
<1>1. HeaderInv /\ HeaderInv'
  BY StepHeader DEF GorgonInv
<1> SUFFICES GorgonStages'
  BY <1>1 DEF GorgonInv
<1>2. GorgonStages /\ job \in Job
  BY <1>1, JobAssumption DEF GorgonInv, HeaderInv, TypeOK
<1>3. CASE ArgusPad \/ LadonPad
  BY <1>2, <1>3 DEF ArgusPad, LadonPad, GorgonStages
<1>4. CASE ArgusBlock \/ ArgusMask \/ ArgusWrap \/ ArgusAes
  BY <1>2, <1>4 DEF ArgusBlock, ArgusMask, ArgusWrap, ArgusAes, GorgonStages
<1>5. CASE LadonBlock \/ LadonPrefix \/ Base64Group \/ Base64End
  BY <1>2, <1>5 DEF LadonBlock, LadonPrefix, Base64Group, Base64End, GorgonStages
<1>6. CASE GorgonFill
  <2>1. job' = job /\ job.kind = "gorgon"
    BY <1>6 DEF GorgonFill
  <2>2. CASE job.version = 1
    BY <1>6, <2>1, <2>2 DEF GorgonFill, GorgonStages, Given
  <2>3. CASE job.version # 1
    <3>1. pc = "start" /\ pc' = "mix" /\ buf' = Keyed(job) /\ out' = out
      BY <1>6, <2>3 DEF GorgonFill, Keyed
    <3>2. out = <<>> /\ Len(out) = 0
      BY <1>1, <3>1, NoneIsText DEF HeaderInv, Stages
    <3>3. MixedTo(Keyed(job), buf', 0)
      <4> DEFINE w == Keyed(job)
      <4>1. w \in Text /\ Len(w) = 20
        BY <1>2, <2>1, KeyedIs
      <4> HIDE DEF w
      <4>2. w \in Bytes20
        BY <4>1, TextLen DEF Bytes20
      <4>3. MixedTo(w, w, 0)
        BY <4>2 DEF MixedTo
      <4> QED
        BY <3>1, <4>3 DEF w
    <3>4. Len(out') <= 20 /\ MixedTo(Keyed(job'), buf', Len(out'))
      BY <2>1, <3>1, <3>2, <3>3
    <3> QED
      BY <2>1, <2>3, <3>1, <3>4 DEF GorgonStages
  <2> QED
    BY <2>2, <2>3
<1>7. CASE GorgonMix
  <2> DEFINE n == Len(out)  w == Keyed(job)
  <2>1. /\ pc = "mix" /\ pc' = "mix" /\ n < 20 /\ job' = job
        /\ buf' = [buf EXCEPT ![n + 1] = MixedByte(buf, n + 1)]
        /\ out' = Append(out, buf'[n + 1])
    BY <1>7 DEF GorgonMix
  <2>2. MixedTo(w, buf, n) /\ job.version # 1
    BY <1>2, <2>1 DEF GorgonStages
  <2>3. out \in Text /\ n \in Nat
    BY <1>1, TextLen DEF HeaderInv, TypeOK
  <2>4. n \in 0 .. 19
    <3> HIDE DEF n
    <3> QED
      BY <2>1, <2>3
  <2>5. MixedTo(w, buf', n + 1)
    <3> HIDE DEF n, w
    <3>1. MixedTo(w, [buf EXCEPT ![n + 1] = MixedByte(buf, n + 1)], n + 1)
      BY <2>2, <2>4, MixStep
    <3> QED
      BY <2>1, <3>1
  <2>6. Len(out') = n + 1
    <3>1. n + 1 \in 1 .. 20
      <4> HIDE DEF n
      <4> QED
        BY <2>4
    <3>2. buf'[n + 1] \in Octet
      <4> HIDE DEF n, w
      <4> QED
        BY <2>5, <3>1 DEF MixedTo, Bytes20
    <3>3. \A x \in Octet : Len(Append(out, x)) = Len(out) + 1
      BY <2>3, AppendProperties DEF Text
    <3> QED
      BY <2>1, <3>2, <3>3
  <2> HIDE DEF n
  <2>7. Len(out') <= 20
    BY <2>4, <2>6
  <2>8. MixedTo(Keyed(job'), buf', Len(out'))
    BY <2>1, <2>5, <2>6
  <2> QED
    BY <1>2, <2>1, <2>2, <2>7, <2>8 DEF GorgonStages
<1>8. CASE GorgonMixed
  <2>1. pc = "mix" /\ Len(out) = 20 /\ pc' = "hex" /\ job' = job /\ buf' = buf
    BY <1>8 DEF GorgonMixed
  <2>2. Given(job', buf')
    BY <1>2, <2>1 DEF GorgonStages, Given
  <2> QED
    BY <1>2, <2>1, <2>2 DEF GorgonStages
<1>9. CASE GorgonHex
  <2>1. pc = "hex" /\ pc' = "done" /\ job' = job /\ text' = HexDigits(Prefix(job) \o buf)
    BY <1>9 DEF GorgonHex
  <2>2. buf \in Text /\ Len(buf) = 20 /\ Given(job, buf)
    BY <1>1, <1>2, <2>1 DEF GorgonStages, HeaderInv, TypeOK, Stages
  <2>3. \E m \in Text : Len(m) = 20 /\ Given(job', m) /\ text' = HexDigits(Prefix(job') \o m)
    BY <2>1, <2>2
  <2> QED
    BY <2>1, <2>3 DEF GorgonStages
<1>10. CASE UNCHANGED vars
  BY <1>2, <1>10 DEF vars, GorgonStages
<1> QED
  BY <1>3, <1>4, <1>5, <1>6, <1>7, <1>8, <1>9, <1>10 DEF Next, GorgonInv

LEMMA GorgonInvOpens == Externals /\ GorgonInv => GorgonOpens
<1> SUFFICES ASSUME Externals, GorgonInv, pc = "done", job.kind = "gorgon"
             PROVE  LET bytes == Unhexed(text)
                        given == IF job.version = 1 THEN Slice(bytes, 6, 20) ELSE Unmixed(Slice(bytes, 6, 20))
                        none  == Repeated({}, 4)
                    IN  /\ Len(bytes) = 26
                        /\ Slice(given, 0, 4) = Slice(Md5(job.params), 0, 4)
                        /\ Slice(given, 4, 4) = IF job.payload = <<>> THEN none ELSE Slice(Md5(job.payload), 0, 4)
                        /\ Slice(given, 8, 4) = IF job.cookie = <<>> THEN none ELSE Slice(Md5(job.cookie), 0, 4)
                        /\ FromBig(given, 16) = job.unix \cap (0 .. 31)
  BY DEF GorgonOpens
<1>1. job \in Job /\ job.payload \in Text /\ job.cookie \in Text
  BY JobAssumption DEF GorgonInv, HeaderInv, TypeOK, Job
<1>2. PICK m \in Text : Len(m) = 20 /\ Given(job, m) /\ text = HexDigits(Prefix(job) \o m)
  BY DEF GorgonInv, GorgonStages
<1> DEFINE prefix == Prefix(job)  bytes == prefix \o m
           given == IF job.version = 1 THEN Slice(Unhexed(text), 6, 20) ELSE Unmixed(Slice(Unhexed(text), 6, 20))
<1>3. prefix \in Text /\ Len(prefix) = 6
  BY <1>1, PrefixIs
<1> HIDE DEF prefix
<1>4. bytes \in Text /\ Len(bytes) = 26 /\ Slice(bytes, 6, 20) = m
  <2>1. OfTwo(prefix \o m, prefix, m, 6, 20)
    BY <1>2, <1>3, SliceOfTwo, Zenon
  <2>2. bytes \in Text /\ Len(bytes) = 6 + 20 /\ Slice(bytes, 6, 20) = m
    BY <2>1, Zenon DEF OfTwo
  <2> HIDE DEF bytes
  <2> QED
    BY <2>2
<1>5. Unhexed(text) = bytes
  <2>1. Unhexed(HexDigits(bytes)) = bytes
    <3> HIDE DEF bytes
    <3> QED
      BY <1>4, UnhexedIs
  <2>2. text = HexDigits(bytes)
    BY <1>2 DEF prefix
  <2> HIDE DEF bytes
  <2> QED
    BY <2>1, <2>2
<1> HIDE DEF bytes
<1>6. given = Filled(job)
  <2>1. CASE job.version = 1
    BY <1>2, <1>4, <1>5, <2>1 DEF Given
  <2>2. CASE job.version # 1
    <3>1. given = Unmixed(m)
      BY <1>4, <1>5, <2>2
    <3>2. MixedTo(Keyed(job), m, 20)
      BY <1>2, <2>2 DEF Given
    <3>3. Keyed(job) \in Text /\ Len(Keyed(job)) = 20 /\ XorEach(Keyed(job), GorgonKey) = Filled(job)
      BY <1>1, KeyedIs
    <3>4. Unmixed(m) = XorEach(Keyed(job), GorgonKey)
      BY <3>2, <3>3, UnmixedIs
    <3> QED
      BY <3>1, <3>3, <3>4
  <2> QED
    BY <2>1, <2>2
<1> HIDE DEF given
<1>7. /\ Slice(Filled(job), 0, 4) = Slice(Md5(job.params), 0, 4)
      /\ Slice(Filled(job), 4, 4) = QuadOf(job.payload)
      /\ Slice(Filled(job), 8, 4) = QuadOf(job.cookie)
      /\ FromBig(Filled(job), 16) = job.unix \cap (0 .. 31)
  BY <1>1, FilledHolds DEF Externals
<1>8. \A s : QuadOf(s) = IF s = <<>> THEN Repeated({}, 4) ELSE Slice(Md5(s), 0, 4)
  <2>1. 0 + 1 = 1 /\ 0 + 4 = 4
    OBVIOUS
  <2> QED
    BY <2>1 DEF QuadOf, Quad, Slice
<1>9. /\ Len(Unhexed(text)) = 26
      /\ Slice(given, 0, 4) = Slice(Md5(job.params), 0, 4)
      /\ Slice(given, 4, 4) = IF job.payload = <<>> THEN Repeated({}, 4) ELSE Slice(Md5(job.payload), 0, 4)
      /\ Slice(given, 8, 4) = IF job.cookie = <<>> THEN Repeated({}, 4) ELSE Slice(Md5(job.cookie), 0, 4)
      /\ FromBig(given, 16) = job.unix \cap (0 .. 31)
  BY <1>4, <1>5, <1>6, <1>7, <1>8
<1> QED
  BY <1>9 DEF given

\* Whoever holds the key of gorgon_v2/v3 takes their mix of twenty bytes apart, and
\* gets out of X-Gorgon what went in, whatever is signed and whatever MD5 is.
THEOREM GorgonUndone ==
  ASSUME Externals
  PROVE  Spec => []GorgonOpens
<1>1. GorgonInv /\ [Next]_vars => GorgonInv'
  BY StepGorgon
<1>2. GorgonInv => GorgonOpens
  BY GorgonInvOpens
<1> QED
  BY <1>1, <1>2, InitGorgon, PTL DEF Spec

--------------------------------------------------------------------------------
(* Rounds forth and back *)

\* What the recursive functions of Simon and Ladon compute, of a block with the
\* number of a round: the rounds r[i + 1] to r[n], or the rounds l[i] to l[1].
Forth(n, S, r, f) ==
  f = [x \in (0 .. n) \X S |-> IF x[1] = n THEN x[2] ELSE f[<<x[1] + 1, r[x[1] + 1][x[2]]>>]]
Back(n, S, l, b) ==
  b = [x \in (0 .. n) \X S |-> IF x[1] = 0 THEN x[2] ELSE b[<<x[1] - 1, l[x[1]][x[2]]>>]]

ForthFrom(n, S, r, f, i) ==
  /\ f \in [(i .. n) \X S -> S]
  /\ \A j \in i .. n, q \in S : f[<<j, q>>] = IF j = n THEN q ELSE f[<<j + 1, r[j + 1][q]>>]

LEMMA ForthExists ==
  ASSUME NEW n \in Nat, NEW S, NEW r \in [1 .. n -> [S -> S]]
  PROVE  \E f : Forth(n, S, r, f) /\ f \in [(0 .. n) \X S -> S]
<1> DEFINE T == {i \in 0 .. n : \E f : ForthFrom(n, S, r, f, i)}
<1>1. n \in T
  <2> DEFINE f == [x \in (n .. n) \X S |-> x[2]]
  <2>1. f \in [(n .. n) \X S -> S]
    OBVIOUS
  <2>2. \A j \in n .. n, q \in S : f[<<j, q>>] = q /\ j = n
    OBVIOUS
  <2> HIDE DEF f
  <2>3. ForthFrom(n, S, r, f, n)
    BY <2>1, <2>2 DEF ForthFrom
  <2> QED
    BY <2>3
<1>2. PICK m \in T : \A i \in T : m <= i
  <2>1. T \in SUBSET Nat /\ T # {}
    BY <1>1
  <2> HIDE DEF T
  <2> QED
    BY <2>1, Numbers!LeastNatural
<1>3. PICK g : ForthFrom(n, S, r, g, m)
  OBVIOUS
<1>4. m = 0
  <2> SUFFICES ASSUME m # 0 PROVE FALSE
    OBVIOUS
  <2> DEFINE k == m - 1
             f == [x \in (k .. n) \X S |-> IF x[1] = k THEN g[<<m, r[m][x[2]]>>] ELSE g[x]]
  <2>1. k \in 0 .. n /\ k + 1 = m /\ m \in 1 .. n /\ k # n /\ ~(m <= k)
    OBVIOUS
  <2> HIDE DEF k
  <2>2. \A j \in k .. n : j # k => j \in m .. n /\ (j # n => j + 1 \in m .. n /\ j + 1 # k)
    BY <2>1
  <2>3. g \in [(m .. n) \X S -> S]
    BY <1>3 DEF ForthFrom
  <2>4. \A q \in S : r[m][q] \in S /\ <<m, r[m][q]>> \in (m .. n) \X S
    BY <2>1
  <2>5. f \in [(k .. n) \X S -> S]
    <3> SUFFICES ASSUME NEW x \in (k .. n) \X S
                 PROVE  (IF x[1] = k THEN g[<<m, r[m][x[2]]>>] ELSE g[x]) \in S
      OBVIOUS
    <3>1. x[1] \in k .. n /\ x[2] \in S /\ x = <<x[1], x[2]>>
      OBVIOUS
    <3>2. CASE x[1] = k
      BY <2>3, <2>4, <3>1, <3>2
    <3>3. CASE x[1] # k
      <4>1. x \in (m .. n) \X S
        BY <2>2, <3>1, <3>3
      <4> QED
        BY <2>3, <3>3, <4>1
    <3> QED
      BY <3>2, <3>3
  <2>6. \A j \in k .. n, q \in S : f[<<j, q>>] = IF j = k THEN g[<<m, r[m][q]>>] ELSE g[<<j, q>>]
    OBVIOUS
  <2> HIDE DEF f
  <2>7. ASSUME NEW j \in k .. n, NEW q \in S
        PROVE  f[<<j, q>>] = IF j = n THEN q ELSE f[<<j + 1, r[j + 1][q]>>]
    <3>1. CASE j = k
      <4>1. f[<<j, q>>] = g[<<m, r[m][q]>>]
        BY <2>6, <3>1
      <4>2. f[<<m, r[m][q]>>] = g[<<m, r[m][q]>>]
        <5>1. m \in k .. n /\ m # k
          BY <2>1
        <5> QED
          BY <2>4, <2>6, <5>1
      <4> QED
        BY <2>1, <3>1, <4>1, <4>2
    <3>2. CASE j # k
      <4>1. j \in m .. n /\ f[<<j, q>>] = g[<<j, q>>]
        BY <2>2, <2>6, <3>2
      <4>2. g[<<j, q>>] = IF j = n THEN q ELSE g[<<j + 1, r[j + 1][q]>>]
        BY <1>3, <4>1 DEF ForthFrom
      <4>3. CASE j = n
        BY <4>1, <4>2, <4>3
      <4>4. CASE j # n
        <5>1. j + 1 \in k .. n /\ j + 1 # k /\ j + 1 \in 1 .. n
          BY <2>1, <2>2, <3>2, <4>4
        <5>2. r[j + 1][q] \in S
          BY <5>1
        <5>3. f[<<j + 1, r[j + 1][q]>>] = g[<<j + 1, r[j + 1][q]>>]
          BY <2>6, <5>1, <5>2
        <5> QED
          BY <4>1, <4>2, <4>4, <5>3
      <4> QED
        BY <4>3, <4>4
    <3> QED
      BY <3>1, <3>2
  <2>8. ForthFrom(n, S, r, f, k)
    BY <2>5, <2>7 DEF ForthFrom
  <2>9. k \in T
    BY <2>1, <2>8
  <2> HIDE DEF T
  <2> QED
    BY <1>2, <2>1, <2>9
<1>5. g \in [(0 .. n) \X S -> S]
  BY <1>3, <1>4 DEF ForthFrom
<1>6. \A x \in (0 .. n) \X S :
        g[x] = IF x[1] = n THEN x[2] ELSE g[<<x[1] + 1, r[x[1] + 1][x[2]]>>]
  <2> TAKE x \in (0 .. n) \X S
  <2>1. x[1] \in m .. n /\ x[2] \in S /\ x = <<x[1], x[2]>>
    BY <1>4
  <2> QED
    BY <1>3, <2>1 DEF ForthFrom
<1>7. Forth(n, S, r, g)
  BY <1>5, <1>6 DEF Forth
<1> QED
  BY <1>5, <1>7

LEMMA BackExists ==
  ASSUME NEW n \in Nat, NEW S, NEW l \in [1 .. n -> [S -> S]]
  PROVE  \E b : Back(n, S, l, b)
<1> DEFINE r == [j \in 1 .. n |-> l[n + 1 - j]]
<1>1. r \in [1 .. n -> [S -> S]]
  <2>1. \A j \in 1 .. n : n + 1 - j \in 1 .. n
    OBVIOUS
  <2> QED
    BY <2>1
<1>2. \A j \in 1 .. n : r[j] = l[n + 1 - j]
  OBVIOUS
<1> HIDE DEF r
<1>3. PICK f : Forth(n, S, r, f) /\ f \in [(0 .. n) \X S -> S]
  BY <1>1, ForthExists
<1> DEFINE b == [x \in (0 .. n) \X S |-> f[<<n - x[1], x[2]>>]]
<1>4. \A i \in 0 .. n, q \in S : b[<<i, q>>] = f[<<n - i, q>>]
  OBVIOUS
<1>5. ASSUME NEW x \in (0 .. n) \X S
      PROVE  b[x] = IF x[1] = 0 THEN x[2] ELSE b[<<x[1] - 1, l[x[1]][x[2]]>>]
  <2>1. PICK i \in 0 .. n, q \in S : x = <<i, q>>
    OBVIOUS
  <2>2. n - i \in 0 .. n /\ (n - i = n <=> i = 0)
    OBVIOUS
  <2>3. <<n - i, q>> \in (0 .. n) \X S
    BY <2>2
  <2>4. f[<<n - i, q>>] = IF n - i = n THEN q ELSE f[<<n - i + 1, r[n - i + 1][q]>>]
    <3> DEFINE k == n - i
    <3>1. k \in 0 .. n
      BY <2>2
    <3> HIDE DEF k
    <3>2. f[<<k, q>>] = IF k = n THEN q ELSE f[<<k + 1, r[k + 1][q]>>]
      BY <1>3, <3>1 DEF Forth
    <3> QED
      BY <3>2 DEF k
  <2> HIDE DEF b
  <2>5. CASE i = 0
    BY <1>4, <2>1, <2>2, <2>4, <2>5
  <2>6. CASE i # 0
    <3>1. n - i + 1 \in 1 .. n /\ n + 1 - (n - i + 1) = i /\ n - (i - 1) = n - i + 1 /\ i - 1 \in 0 .. n /\ i \in 1 .. n
      BY <2>6
    <3>2. r[n - i + 1] = l[i]
      BY <1>2, <3>1
    <3>3. l[i][q] \in S
      BY <3>1
    <3>4. b[<<i - 1, l[i][q]>>] = f[<<n - i + 1, l[i][q]>>]
      BY <1>4, <3>1, <3>3
    <3>5. b[<<i, q>>] = f[<<n - i + 1, l[i][q]>>]
      BY <1>4, <2>2, <2>4, <2>6, <3>2
    <3> QED
      BY <2>1, <2>6, <3>4, <3>5
  <2> QED
    BY <2>5, <2>6
<1>6. b = [x \in (0 .. n) \X S |-> b[x]]
  OBVIOUS
<1> HIDE DEF b
<1>7. Back(n, S, l, b)
  BY <1>5, <1>6 DEF Back
<1> QED
  BY <1>7

Opposite(n, S, r, l) ==
  /\ r \in [1 .. n -> [S -> S]] /\ l \in [1 .. n -> [S -> S]]
  /\ \A i \in 1 .. n, q \in S : l[i][r[i][q]] = q

\* Rounds that are each taken back are taken back together, whatever function
\* the two recursions stand for.
LEMMA RoundsUndone ==
  ASSUME NEW n \in Nat, NEW S, NEW r, NEW l, Opposite(n, S, r, l),
         NEW f, NEW b, Forth(n, S, r, f), Back(n, S, l, b), NEW p \in S
  PROVE  f[<<0, p>>] \in S /\ b[<<n, f[<<0, p>>]>>] = p
<1> DEFINE Good(i) == \A q \in S : f[<<i, q>>] \in S /\ b[<<n, f[<<i, q>>]>>] = b[<<i, q>>]
           Wrong == {i \in 0 .. n : ~Good(i)}
<1> USE DEF Opposite
<1>1. \A i \in 0 .. n, q \in S :
        /\ f[<<i, q>>] = IF i = n THEN q ELSE f[<<i + 1, r[i + 1][q]>>]
        /\ b[<<i, q>>] = IF i = 0 THEN q ELSE b[<<i - 1, l[i][q]>>]
  <2> TAKE i \in 0 .. n, q \in S
  <2>1. f[<<i, q>>] = IF i = n THEN q ELSE f[<<i + 1, r[i + 1][q]>>]
    BY DEF Forth
  <2>2. b[<<i, q>>] = IF i = 0 THEN q ELSE b[<<i - 1, l[i][q]>>]
    BY DEF Back
  <2> QED
    BY <2>1, <2>2
<1>0. n \in 0 .. n /\ 0 \in 0 .. n
  OBVIOUS
<1>2. Good(n)
  <2> SUFFICES ASSUME NEW q \in S PROVE f[<<n, q>>] = q
    OBVIOUS
  <2> QED
    BY <1>0, <1>1
<1>3. ASSUME NEW i \in 0 .. n, i # n, Good(i + 1)
      PROVE  Good(i)
  <2> SUFFICES ASSUME NEW q \in S
               PROVE  f[<<i, q>>] \in S /\ b[<<n, f[<<i, q>>]>>] = b[<<i, q>>]
    OBVIOUS
  <2>1. i + 1 \in 1 .. n /\ i + 1 \in 0 .. n /\ i + 1 # 0 /\ i + 1 - 1 = i
    BY <1>3
  <2> DEFINE t == r[i + 1][q]
  <2>2. t \in S /\ l[i + 1][t] = q
    BY <2>1
  <2>3. f[<<i, q>>] = f[<<i + 1, t>>]
    BY <1>1, <1>3, ZenonT(40)
  <2> HIDE DEF t
  <2>4. b[<<i + 1, t>>] = b[<<i, q>>]
    <3>1. \A k \in 0 .. n : k # 0 => b[<<k, t>>] = b[<<k - 1, l[k][t]>>]
      BY <1>1, <2>2, ZenonT(40)
    <3>2. PICK k \in 0 .. n : k = i + 1
      BY <2>1
    <3>3. k # 0 /\ k - 1 = i /\ l[k][t] = q
      BY <2>1, <2>2, <3>2
    <3>4. b[<<k, t>>] = b[<<k - 1, l[k][t]>>]
      BY <3>1, <3>3
    <3> QED
      BY <3>2, <3>3, <3>4
  <2>5. f[<<i + 1, t>>] \in S /\ b[<<n, f[<<i + 1, t>>]>>] = b[<<i + 1, t>>]
    BY <1>3, <2>2
  <2> QED
    BY <2>3, <2>4, <2>5
<1> HIDE DEF Good
<1>4. Good(0)
  <2> SUFFICES ASSUME ~Good(0) PROVE FALSE
    OBVIOUS
  <2>1. PICK j \in Wrong : \A i \in Wrong : i <= j
    <3>1. Wrong \in SUBSET (0 .. n) /\ 0 \in Wrong
      OBVIOUS
    <3> HIDE DEF Wrong
    <3> QED
      BY <3>1, Numbers!GreatestNatural
  <2>2. j # n
    BY <1>2
  <2>3. j + 1 \in 0 .. n /\ ~(j + 1 <= j)
    BY <2>2
  <2>4. Good(j + 1)
    BY <2>1, <2>3
  <2> QED
    BY <1>3, <2>2, <2>4
<1>5. b[<<0, p>>] = p
  BY <1>0, <1>1
<1> QED
  BY <1>4, <1>5 DEF Good

--------------------------------------------------------------------------------
(* Simon *)

W64   == Word(64)
Block == W64 \X W64

LEMMA SameWords ==
  /\ Cipher!Word(64) = W64 /\ Cipher!Block = Block /\ Rotor!Word(64) = W64 /\ Rotor!Block = Block
  /\ \A a, b : Cipher!Xor(a, b) = Xor(a, b) /\ Rotor!Xor(a, b) = Xor(a, b)
BY DEF Cipher!Word, Rotor!Word, Word, W64, Block, Cipher!Block, Rotor!Block, Cipher!Xor, Rotor!Xor, Xor

LEMMA Words64 ==
  /\ \A a, b \in W64 : Xor(a, b) \in W64 /\ a \cap b \in W64
  /\ \A a, n : Cipher!Not(64, a) \in W64
  /\ \A a \in W64, n \in Int : /\ Cipher!Rol(64, a, n) \in W64 /\ Cipher!Ror(64, a, n) \in W64
                               /\ Rotor!Rol(64, a, n) \in W64 /\ Rotor!Ror(64, a, n) \in W64
  /\ {0} \in W64 /\ {0, 1} \in W64 /\ {} \in W64
<1>1. W64 = SUBSET (0 .. 63)
  BY DEF W64, Word
<1>2. \A c \in Int : c % 64 \in 0 .. 63
  OBVIOUS
<1>3. \A a \in SUBSET (0 .. 63), n \in Int : \A c \in a : c + n \in Int /\ c - n \in Int
  OBVIOUS
<1>4. \A a \in W64, n \in Int : /\ Cipher!Rol(64, a, n) \in W64 /\ Cipher!Ror(64, a, n) \in W64
                                /\ Rotor!Rol(64, a, n) \in W64 /\ Rotor!Ror(64, a, n) \in W64
  BY <1>1, <1>2, <1>3 DEF Cipher!Rol, Cipher!Ror, Rotor!Rol, Rotor!Ror
<1>5. \A a, n : Cipher!Not(64, a) \in W64
  BY <1>1 DEF Cipher!Not
<1>6. \A a, b \in W64 : Xor(a, b) \in W64 /\ a \cap b \in W64
  BY <1>1 DEF Xor
<1>7. {0} \in W64 /\ {0, 1} \in W64 /\ {} \in W64
  BY <1>1
<1> QED
  BY <1>4, <1>5, <1>6, <1>7, Zenon

LEMMA RoundIs ==
  ASSUME NEW p \in Block, NEW k \in W64
  PROVE  Cipher!Round(p, k) \in Block /\ Cipher!RoundBack(p, k) \in Block
         /\ Cipher!RoundBack(Cipher!Round(p, k), k) = p
<1>1. PICK a \in W64, b \in W64 : p = <<a, b>>
  BY DEF Block
<1>2. \A y \in W64 : Cipher!F(y) \in W64
  <2> TAKE y \in W64
  <2>1. Cipher!Rol(64, y, 1) \in W64 /\ Cipher!Rol(64, y, 8) \in W64 /\ Cipher!Rol(64, y, 2) \in W64
    BY Words64
  <2>2. Cipher!F(y) = Xor(Cipher!Rol(64, y, 1) \cap Cipher!Rol(64, y, 8), Cipher!Rol(64, y, 2))
    BY SameWords DEF Cipher!F
  <2>3. Cipher!Rol(64, y, 1) \cap Cipher!Rol(64, y, 8) \in W64
    BY <2>1, Words64, Zenon
  <2>4. Xor(Cipher!Rol(64, y, 1) \cap Cipher!Rol(64, y, 8), Cipher!Rol(64, y, 2)) \in W64
    BY <2>1, <2>3, Words64, Zenon
  <2> QED
    BY <2>2, <2>4, Zenon
<1>3. p[1] = a /\ p[2] = b
  BY <1>1
<1>4. Cipher!Round(p, k) = <<b, Xor(Xor(a, Cipher!F(b)), k)>>
  BY <1>3, SameWords DEF Cipher!Round
<1>5. Cipher!RoundBack(p, k) = <<Xor(Xor(b, Cipher!F(a)), k), a>>
  BY <1>3, SameWords DEF Cipher!RoundBack
<1>6. Cipher!F(a) \in W64 /\ Cipher!F(b) \in W64
  BY <1>2
<1>7. Xor(Xor(a, Cipher!F(b)), k) \in W64 /\ Xor(Xor(b, Cipher!F(a)), k) \in W64
  BY <1>6, Words64
<1>8. Cipher!RoundBack(Cipher!Round(p, k), k) = p
  BY <1>1, SimonRoundOpens
<1> QED
  BY <1>4, <1>5, <1>7, <1>8 DEF Block

\* What simon_encrypt makes of a block in its 72 rounds is a block, and the rounds
\* taken back in the opposite order give the block that went in.
THEOREM SimonUndone ==
  ASSUME NEW ks, \A i \in 1 .. 72 : ks[i] \in W64, NEW p \in Block
  PROVE  Cipher!Encrypt(ks, p) \in Block /\ Cipher!Decrypt(ks, Cipher!Encrypt(ks, p)) = p
<1> DEFINE r == [i \in 1 .. 72 |-> [q \in Block |-> Cipher!Round(q, ks[i])]]
           l == [i \in 1 .. 72 |-> [q \in Block |-> Cipher!RoundBack(q, ks[i])]]
           IsFrom(f) == f = [x \in (0 .. 72) \X Block |->
                               IF x[1] = 72 THEN x[2] ELSE f[<<x[1] + 1, Cipher!Round(x[2], ks[x[1] + 1])>>]]
           IsBack(b) == b = [x \in (0 .. 72) \X Block |->
                               IF x[1] = 0 THEN x[2] ELSE b[<<x[1] - 1, Cipher!RoundBack(x[2], ks[x[1]])>>]]
           f == CHOOSE f : IsFrom(f)
           b == CHOOSE b : IsBack(b)
<1>1. /\ r \in [1 .. 72 -> [Block -> Block]] /\ l \in [1 .. 72 -> [Block -> Block]]
      /\ \A i \in 1 .. 72, q \in Block : l[i][r[i][q]] = q
  BY RoundIs
<1>2. \A i \in 1 .. 72, q \in Block : r[i][q] = Cipher!Round(q, ks[i]) /\ l[i][q] = Cipher!RoundBack(q, ks[i])
  OBVIOUS
<1> HIDE DEF r, l
<1>3. ASSUME NEW x \in (0 .. 72) \X Block
      PROVE  /\ x[1] # 72 => r[x[1] + 1][x[2]] = Cipher!Round(x[2], ks[x[1] + 1])
             /\ x[1] # 0 => l[x[1]][x[2]] = Cipher!RoundBack(x[2], ks[x[1]])
  <2>1. x[1] \in 0 .. 72 /\ x[2] \in Block
    OBVIOUS
  <2>2. (x[1] # 72 => x[1] + 1 \in 1 .. 72) /\ (x[1] # 0 => x[1] \in 1 .. 72)
    BY <2>1
  <2> QED
    BY <1>2, <2>1, <2>2
<1>4. \A g : IsFrom(g) <=> Forth(72, Block, r, g)
  <2> TAKE g
  <2>1. [x \in (0 .. 72) \X Block |->
           IF x[1] = 72 THEN x[2] ELSE g[<<x[1] + 1, Cipher!Round(x[2], ks[x[1] + 1])>>]]
        = [x \in (0 .. 72) \X Block |-> IF x[1] = 72 THEN x[2] ELSE g[<<x[1] + 1, r[x[1] + 1][x[2]]>>]]
    BY <1>3
  <2> QED
    BY <2>1, Zenon DEF Forth
<1>5. \A g : IsBack(g) <=> Back(72, Block, l, g)
  <2> TAKE g
  <2>1. [x \in (0 .. 72) \X Block |->
           IF x[1] = 0 THEN x[2] ELSE g[<<x[1] - 1, Cipher!RoundBack(x[2], ks[x[1]])>>]]
        = [x \in (0 .. 72) \X Block |-> IF x[1] = 0 THEN x[2] ELSE g[<<x[1] - 1, l[x[1]][x[2]]>>]]
    BY <1>3
  <2> QED
    BY <2>1, Zenon DEF Back
<1>6. 72 \in Nat
  OBVIOUS
<1> HIDE DEF IsFrom, IsBack
<1>7. Forth(72, Block, r, f)
  <2>1. \E g : IsFrom(g)
    BY <1>1, <1>4, <1>6, ForthExists
  <2>2. IsFrom(f)
    BY <2>1
  <2> QED
    BY <1>4, <2>2
<1>8. Back(72, Block, l, b)
  <2>1. \E g : IsBack(g)
    BY <1>1, <1>5, <1>6, BackExists
  <2>2. IsBack(b)
    BY <2>1
  <2> QED
    BY <1>5, <2>2
<1>9. \A q : Cipher!Encrypt(ks, q) = f[<<0, q>>] /\ Cipher!Decrypt(ks, q) = b[<<72, q>>]
  BY SameWords DEF Cipher!Encrypt, Cipher!Decrypt, Cipher!Rounds, IsFrom, IsBack
<1> HIDE DEF f, b
<1>10. f[<<0, p>>] \in Block /\ b[<<72, f[<<0, p>>]>>] = p
  <2> DEFINE n == 72
  <2>1. n \in Nat /\ Opposite(n, Block, r, l) /\ Forth(n, Block, r, f) /\ Back(n, Block, l, b)
    BY <1>1, <1>6, <1>7, <1>8 DEF Opposite
  <2> HIDE DEF n
  <2>3. PICK N, S, R, L, G, B : N = n /\ S = Block /\ R = r /\ L = l /\ G = f /\ B = b
    BY <2>1
  <2>4. N \in Nat /\ Opposite(N, S, R, L) /\ Forth(N, S, R, G) /\ Back(N, S, L, B) /\ p \in S
    BY <2>1, <2>3
  <2>2. f[<<0, p>>] \in Block /\ b[<<n, f[<<0, p>>]>>] = p
    BY <2>3, <2>4, RoundsUndone
  <2> QED
    BY <2>2 DEF n
<1> QED
  BY <1>9, <1>10

\* The key schedule: seventy-two words, from four.
Grown == {ks \in Seq(W64) : Len(ks) >= 4}

LEMMA NextKeyIs ==
  ASSUME NEW ks \in Grown
  PROVE  /\ Cipher!NextKey(ks) \in W64
         /\ Append(ks, Cipher!NextKey(ks)) \in Grown
         /\ Len(Append(ks, Cipher!NextKey(ks))) = Len(ks) + 1
<1> DEFINE i == Len(ks)
<1>1. i \in Nat /\ i >= 4 /\ ks \in [1 .. i -> W64] /\ ks \in Seq(W64)
  BY LenProperties DEF Grown
<1>2. i \in 1 .. i /\ i - 2 \in 1 .. i /\ i - 3 \in 1 .. i
  BY <1>1
<1> HIDE DEF i
<1>3. ks[i] \in W64 /\ ks[i - 2] \in W64 /\ ks[i - 3] \in W64
  BY <1>1, <1>2
<1> DEFINE ror  == Cipher!Ror(64, ks[i], 3)
           tmp  == Xor(ror, ks[i - 2])
           turn == Cipher!Ror(64, tmp, 1)
           left == Cipher!Not(64, ks[i - 3])
           bit  == IF (i - 4) % 62 \in Cipher!Z THEN {0} ELSE {}
<1>4. ror \in W64 /\ left \in W64 /\ bit \in W64
  <2>1. ror \in W64 /\ left \in W64
    <3>1. \A a \in W64 : Cipher!Ror(64, a, 3) \in W64
      BY Words64
    <3> QED
      BY <1>3, <3>1, Words64, Zenon
  <2>2. bit = {0} \/ bit = {}
    OBVIOUS
  <2> HIDE DEF ror, left, bit
  <2> QED
    BY <2>1, <2>2, Words64
<1>5. tmp \in W64
  BY <1>3, <1>4, Words64
<1>6. turn \in W64
  BY <1>5, Words64
<1>7. Cipher!NextKey(ks) = Xor(Xor(left, Xor(tmp, turn)), Xor(bit, {0, 1}))
  BY SameWords DEF Cipher!NextKey, i
<1> HIDE DEF ror, tmp, turn, left, bit
<1>8. Xor(tmp, turn) \in W64 /\ Xor(bit, {0, 1}) \in W64
  BY <1>4, <1>5, <1>6, Words64
<1>9. Xor(left, Xor(tmp, turn)) \in W64
  BY <1>4, <1>8, Words64
<1>10. Cipher!NextKey(ks) \in W64
  BY <1>7, <1>8, <1>9, Words64, ZenonT(40)
<1>11. Append(ks, Cipher!NextKey(ks)) \in Seq(W64) /\ Len(Append(ks, Cipher!NextKey(ks))) = Len(ks) + 1
  BY <1>1, <1>10, AppendProperties
<1>12. Len(ks) + 1 >= 4
  BY <1>1 DEF i
<1> QED
  BY <1>10, <1>11, <1>12 DEF Grown

LEMMA ScheduleIs ==
  ASSUME NEW key \in Seq(W64), Len(key) = 4
  PROVE  \A i \in 1 .. 72 : Cipher!Schedule(key)[i] \in W64
<1> DEFINE more(ks) == Append(ks, Cipher!NextKey(ks))
           IsGrown(g) == g = [ks \in Grown |-> IF Len(ks) = 72 THEN ks ELSE g[more(ks)]]
           r == [i \in 1 .. 68 |-> [ks \in Grown |-> more(ks)]]
<1>1. \A ks \in Grown : /\ more(ks) \in Grown /\ Len(more(ks)) = Len(ks) + 1
                        /\ Len(ks) \in Nat /\ Len(ks) >= 4 /\ ks \in Seq(W64)
  <2> TAKE ks \in Grown
  <2>1. more(ks) \in Grown /\ Len(more(ks)) = Len(ks) + 1
    BY NextKeyIs
  <2> QED
    BY <2>1, LenProperties DEF Grown
<1> HIDE DEF more
<1>2. r \in [1 .. 68 -> [Grown -> Grown]] /\ \A i \in 1 .. 68, ks \in Grown : r[i][ks] = more(ks)
  BY <1>1
<1> HIDE DEF r
<1>3. PICK f : Forth(68, Grown, r, f) /\ f \in [(0 .. 68) \X Grown -> Grown]
  <2>1. 68 \in Nat
    OBVIOUS
  <2> QED
    BY <1>2, <2>1, ForthExists
<1>4. \A i \in 0 .. 68, ks \in Grown : f[<<i, ks>>] = IF i = 68 THEN ks ELSE f[<<i + 1, more(ks)>>]
  <2> TAKE i \in 0 .. 68, ks \in Grown
  <2>1. f[<<i, ks>>] = IF i = 68 THEN ks ELSE f[<<i + 1, r[i + 1][ks]>>]
    BY <1>3 DEF Forth
  <2>2. i # 68 => i + 1 \in 1 .. 68
    OBVIOUS
  <2> QED
    BY <1>2, <2>1, <2>2
<1>5. \E g : IsGrown(g)
  <2> DEFINE g == [ks \in Grown |-> IF Len(ks) > 72 THEN <<>> ELSE f[<<Len(ks) - 4, ks>>]]
  <2>0. \A ks \in Grown : g[ks] = IF Len(ks) > 72 THEN <<>> ELSE f[<<Len(ks) - 4, ks>>]
    OBVIOUS
  <2>2. g = [ks \in Grown |-> g[ks]]
    OBVIOUS
  <2> HIDE DEF g
  <2>1. ASSUME NEW ks \in Grown
        PROVE  g[ks] = IF Len(ks) = 72 THEN ks ELSE g[more(ks)]
    <3>1. PICK n \in Nat, t \in Grown : n = Len(ks) /\ n >= 4 /\ t = more(ks) /\ Len(t) = n + 1
      BY <1>1
    <3>2. g[ks] = IF n > 72 THEN <<>> ELSE f[<<n - 4, ks>>]
      BY <2>0, <3>1
    <3>3. g[t] = IF n + 1 > 72 THEN <<>> ELSE f[<<n + 1 - 4, t>>]
      BY <2>0, <3>1
    <3>4. CASE n > 72
      <4>1. n + 1 > 72 /\ n # 72
        BY <3>4
      <4> QED
        BY <3>1, <3>2, <3>3, <3>4, <4>1
    <3>5. CASE n <= 72
      <4>1. PICK i \in 0 .. 68 : i = n - 4
        <5>1. \A x \in Nat : x >= 4 /\ x <= 72 => x - 4 \in 0 .. 68
          OBVIOUS
        <5> QED
          BY <3>1, <3>5, <5>1
      <4>2. (i = 68 <=> n = 72) /\ n + 1 - 4 = i + 1 /\ ~(n > 72) /\ (n # 72 => ~(n + 1 > 72))
        BY <3>5, <4>1
      <4>3. f[<<i, ks>>] = IF i = 68 THEN ks ELSE f[<<i + 1, t>>]
        BY <1>4, <3>1
      <4> QED
        BY <3>1, <3>2, <3>3, <4>1, <4>2, <4>3
    <3>6. n > 72 \/ n <= 72
      BY <3>1
    <3> QED
      BY <3>4, <3>5, <3>6
  <2>3. IsGrown(g)
    BY <2>1, <2>2
  <2> QED
    BY <2>3
<1> DEFINE g == CHOOSE h : IsGrown(h)
<1>6. IsGrown(g)
  <2> HIDE DEF IsGrown
  <2> QED
    BY <1>5
<1>7. Cipher!Schedule(key) = g[key]
  BY SameWords DEF Cipher!Schedule, Cipher!Rounds, Grown, more
<1> HIDE DEF g
<1>8. \A ks \in Grown : g[ks] = IF Len(ks) = 72 THEN ks ELSE g[more(ks)]
  BY <1>6
<1> DEFINE Good(n) == \A ks \in Grown : Len(ks) = n => g[ks] \in Seq(W64) /\ Len(g[ks]) = 72
           Wrong == {n \in 0 .. 72 : n >= 4 /\ ~Good(n)}
<1>9. Good(72)
  BY <1>1, <1>8
<1>10. ASSUME NEW n \in 4 .. 71, Good(n + 1) PROVE Good(n)
  <2> SUFFICES ASSUME NEW ks \in Grown, Len(ks) = n PROVE g[ks] \in Seq(W64) /\ Len(g[ks]) = 72
    OBVIOUS
  <2>1. more(ks) \in Grown /\ Len(more(ks)) = n + 1 /\ Len(ks) # 72
    BY <1>1
  <2>2. g[ks] = g[more(ks)]
    BY <1>8, <2>1
  <2> QED
    BY <1>10, <2>1, <2>2
<1> HIDE DEF Good
<1>11. Good(4)
  <2> SUFFICES ASSUME ~Good(4) PROVE FALSE
    OBVIOUS
  <2>1. PICK j \in Wrong : \A i \in Wrong : i <= j
    <3>1. Wrong \in SUBSET (0 .. 72) /\ 4 \in Wrong /\ 72 \in Nat
      OBVIOUS
    <3> HIDE DEF Wrong
    <3> QED
      BY <3>1, Numbers!GreatestNatural
  <2>2. j # 72 /\ j >= 4 /\ j \in 0 .. 72 /\ ~Good(j)
    BY <1>9
  <2>3. j \in 4 .. 71 /\ j + 1 \in 0 .. 72 /\ j + 1 >= 4 /\ ~(j + 1 <= j)
    BY <2>2
  <2>4. Good(j + 1)
    BY <2>1, <2>3
  <2> QED
    BY <1>10, <2>2, <2>3, <2>4
<1>12. key \in Grown
  BY DEF Grown
<1>13. g[key] \in Seq(W64) /\ Len(g[key]) = 72
  BY <1>11, <1>12 DEF Good
<1>14. g[key] \in [1 .. 72 -> W64]
  BY <1>13, LenProperties
<1> QED
  BY <1>7, <1>14

--------------------------------------------------------------------------------
(* Texts in pieces *)

\* Pieces c of a text, each from where the one before it ends to e[k], are the
\* text when put together again.
Pieces(s, n, e, c) ==
  /\ e \in [0 .. n -> Nat] /\ e[0] = 0 /\ e[n] = Len(s)
  /\ \A k \in 1 .. n : e[k - 1] <= e[k] /\ e[k] <= Len(s)
  /\ c = [k \in 1 .. n |-> SubSeq(s, e[k - 1] + 1, e[k])]

LEMMA FlattenIs ==
  ASSUME NEW s \in Text, NEW n \in Nat, NEW e, NEW c, Pieces(s, n, e, c)
  PROVE  FlattenSeq(c) = s
<1> USE DEF Pieces
<1>1. Len(s) \in Nat /\ s \in Seq(Octet)
  BY TextLen DEF Text
<1>2. \A k \in 1 .. n : k - 1 \in 0 .. n /\ k \in 0 .. n /\ e[k - 1] \in Nat /\ e[k] \in Nat
  OBVIOUS
<1>3. \A i, j \in Nat : i <= j /\ j <= Len(s) =>
        /\ SubSeq(s, 1, i) \o SubSeq(s, i + 1, j) = SubSeq(s, 1, j)
        /\ SubSeq(s, i + 1, j) \in Seq(Octet)
  <2> TAKE i \in Nat, j \in Nat
  <2> HAVE i <= j /\ j <= Len(s)
  <2>1. 1 \in 1 .. Len(s) + 1 /\ i \in 1 - 1 .. Len(s) /\ j \in i .. Len(s)
    BY <1>1
  <2>2. SubSeq(s, 1, i) \o SubSeq(s, i + 1, j) = SubSeq(s, 1, j)
    BY <1>1, <2>1, ConcatAdjacentSubSeq
  <2>3. \A k \in i + 1 .. j : s[k] \in Octet
    <3>1. \A k \in i + 1 .. j : k \in 1 .. Len(s)
      BY <1>1
    <3> QED
      BY <1>1, <3>1, LenProperties
  <2>4. i + 1 \in Int /\ j \in Int
    OBVIOUS
  <2>5. SubSeq(s, i + 1, j) \in Seq(Octet)
    BY <2>3, <2>4, SubSeqProperties
  <2> QED
    BY <2>2, <2>5
<1>4. Len(c) = n /\ \A k \in 1 .. n : c[k] = SubSeq(s, e[k - 1] + 1, e[k])
  <2>1. \A k \in 1 .. n : SubSeq(s, e[k - 1] + 1, e[k]) \in Seq(Octet)
    BY <1>2, <1>3
  <2>2. c \in [1 .. n -> Seq(Octet)] /\ \A k \in 1 .. n : c[k] = SubSeq(s, e[k - 1] + 1, e[k])
    BY <2>1
  <2>3. Len(c) = n
    BY <2>2, FcnIsSeq, ZenonT(40)
  <2> QED
    BY <2>2, <2>3
<1>5. CASE n = 0
  <2>1. c = <<>> /\ s = <<>>
    <3>1. Len(s) = 0 /\ c = [k \in 1 .. 0 |-> SubSeq(s, e[k - 1] + 1, e[k])]
      BY <1>5
    <3>2. 1 .. 0 = {}
      OBVIOUS
    <3>3. s = <<>>
      BY <1>1, <3>1, EmptySeq
    <3>4. c = <<>>
      <4>1. c \in [1 .. 0 -> Text]
        BY <3>1, <3>2
      <4>2. c \in Seq(Text) /\ Len(c) = 0
        <5>1. 0 \in Nat
          OBVIOUS
        <5> QED
          BY <4>1, <5>1, FcnIsSeq, ZenonT(40)
      <4> QED
        BY <4>2, EmptySeq
    <3> QED
      BY <3>3, <3>4
  <2> QED
    BY <1>4, <1>5, <2>1 DEF FlattenSeq
<1>6. CASE n # 0
  <2> DEFINE IsFlat(f) == f = [i \in 1 .. n |-> IF i = 1 THEN c[i] ELSE f[i - 1] \o c[i]]
             g == [i \in 1 .. n |-> SubSeq(s, 1, e[i])]
             f == CHOOSE h : IsFlat(h)
  <2>1. 1 \in 1 .. n /\ n \in 1 .. n /\ \A k \in 1 .. n : k # 1 => k - 1 \in 1 .. n
    BY <1>6
  <2>2. \A k \in 1 .. n : /\ k = 1 => c[k] = SubSeq(s, 1, e[k])
                          /\ SubSeq(s, 1, e[k - 1]) \o c[k] = SubSeq(s, 1, e[k])
    <3> TAKE k \in 1 .. n
    <3>1. e[k - 1] \in Nat /\ e[k] \in Nat /\ e[k - 1] <= e[k] /\ e[k] <= Len(s)
      BY <1>2
    <3>2. SubSeq(s, 1, e[k - 1]) \o SubSeq(s, e[k - 1] + 1, e[k]) = SubSeq(s, 1, e[k])
      BY <1>3, <3>1
    <3>3. k = 1 => e[k - 1] + 1 = 1
      <4>1. k = 1 => k - 1 = 0
        OBVIOUS
      <4> QED
        BY <4>1
    <3>4. c[k] = SubSeq(s, e[k - 1] + 1, e[k])
      BY <1>4
    <3> QED
      BY <3>2, <3>3, <3>4
  <2>3. \A k \in 1 .. n : g[k] = SubSeq(s, 1, e[k])
    OBVIOUS
  <2>4. IsFlat(g)
    <3>1. ASSUME NEW i \in 1 .. n PROVE g[i] = IF i = 1 THEN c[i] ELSE g[i - 1] \o c[i]
      <4> HIDE DEF g
      <4> QED
        BY <2>1, <2>2, <2>3
    <3>2. g = [i \in 1 .. n |-> g[i]]
      OBVIOUS
    <3> HIDE DEF g
    <3> QED
      BY <3>1, <3>2
  <2>5. IsFlat(f)
    <3> HIDE DEF IsFlat, g
    <3> QED
      BY <2>4
  <2>6. FlattenSeq(c) = f[n]
    BY <1>4, <1>6 DEF FlattenSeq
  <2> HIDE DEF f, g
  <2>7. \A i \in 1 .. n : f[i] = IF i = 1 THEN c[i] ELSE f[i - 1] \o c[i]
    BY <2>5
  <2>8. f[n] = g[n]
    <3> DEFINE Wrong == {i \in 1 .. n : f[i] # g[i]}
    <3> SUFFICES ASSUME f[n] # g[n] PROVE FALSE
      OBVIOUS
    <3>1. PICK i \in Wrong : \A j \in Wrong : i <= j
      <4>1. Wrong \in SUBSET Nat /\ Wrong # {}
        <5>1. n \in Wrong
          BY <2>1
        <5>2. \A j \in Wrong : j \in 1 .. n
          OBVIOUS
        <5> HIDE DEF Wrong
        <5>3. \A j \in 1 .. n : j \in Nat
          OBVIOUS
        <5> QED
          BY <5>1, <5>2, <5>3, ZenonT(20)
      <4> HIDE DEF Wrong
      <4> QED
        BY <4>1, Numbers!LeastNatural
    <3>2. i \in 1 .. n /\ f[i] # g[i]
      OBVIOUS
    <3>3. i # 1
      BY <2>2, <2>3, <2>7, <3>2
    <3>4. i - 1 \in 1 .. n /\ ~(i <= i - 1)
      BY <2>1, <3>2, <3>3
    <3>5. f[i - 1] = g[i - 1]
      BY <3>1, <3>4
    <3>6. f[i] = f[i - 1] \o c[i]
      BY <2>7, <3>2, <3>3
    <3>7. g[i] = g[i - 1] \o c[i]
      BY <2>2, <2>3, <3>2, <3>4
    <3> QED
      BY <3>2, <3>5, <3>6, <3>7
  <2>9. g[n] = s
    <3>1. g[n] = SubSeq(s, 1, e[n])
      BY <2>1, <2>3
    <3>2. SubSeq(s, 1, Len(s)) = s
      BY <1>1, SubSeqFull
    <3> QED
      BY <3>1, <3>2
  <2> QED
    BY <2>6, <2>8, <2>9
<1> QED
  BY <1>5, <1>6

\* Blocks of sixteen bytes.
LEMMA BlocksFlatten ==
  ASSUME NEW s \in Text, NEW n \in Nat, Len(s) = 16 * n,
         NEW c, c = [k \in 1 .. n |-> Slice(s, 16 * (k - 1), 16)]
  PROVE  FlattenSeq(c) = s
<1> DEFINE e == [k \in 0 .. n |-> 16 * k]
<1>1. e \in [0 .. n -> Nat] /\ \A k \in 0 .. n : e[k] = 16 * k
  OBVIOUS
<1> HIDE DEF e
<1>2. 0 \in 0 .. n /\ n \in 0 .. n /\ \A k \in 1 .. n : k - 1 \in 0 .. n /\ k \in 0 .. n
  OBVIOUS
<1>3. e[0] = 0 /\ e[n] = Len(s)
  BY <1>1, <1>2
<1>4. \A k \in 1 .. n : e[k - 1] = 16 * (k - 1) /\ e[k] = 16 * k
  BY <1>1, <1>2
<1>5. \A k \in 1 .. n : 16 * (k - 1) <= 16 * k /\ 16 * k <= 16 * n /\ 16 * (k - 1) + 16 = 16 * k
  OBVIOUS
<1>6. \A k \in 1 .. n : e[k - 1] <= e[k] /\ e[k] <= Len(s)
  BY <1>4, <1>5
<1>7. \A k \in 1 .. n : Slice(s, 16 * (k - 1), 16) = SubSeq(s, e[k - 1] + 1, e[k])
  BY <1>4, <1>5 DEF Slice
<1>8. c = [k \in 1 .. n |-> SubSeq(s, e[k - 1] + 1, e[k])]
  BY <1>7
<1>9. PICK E : E = e
  OBVIOUS
<1>10. Pieces(s, n, E, c)
  BY <1>1, <1>3, <1>6, <1>8, <1>9 DEF Pieces
<1> QED
  BY <1>10, FlattenIs

--------------------------------------------------------------------------------
(* Words and bytes *)

\* A word out of eight bytes: in the word, byte k stands from bit 8 * k on.
LEMMA LittleOf ==
  ASSUME NEW s, NEW off, NEW t \in [0 .. 7 -> Octet], \A k \in 0 .. 7 : s[off + k + 1] = t[k]
  PROVE  FromLittle(s, off) \in W64 /\ \A k \in 0 .. 7 : Low(FromLittle(s, off), k) = t[k]
<1> DEFINE part(k) == {8 * k + b : b \in t[k]}
<1>1. FromLittle(s, off) = UNION {part(k) : k \in 0 .. 7}
  BY DEF FromLittle
<1>2. \A k \in 0 .. 7 : t[k] \subseteq 0 .. 7
  BY DEF Octet, Word
<1>3. \A k, b \in 0 .. 7 : 8 * k + b \in 0 .. 63
  OBVIOUS
<1>4. \A k \in 0 .. 7 : part(k) \subseteq 0 .. 63
  BY <1>2, <1>3
<1>5. FromLittle(s, off) \subseteq 0 .. 63
  <2> HIDE DEF part
  <2> QED
    BY <1>1, <1>4
<1>6. \A k, h, b, c \in 0 .. 7 : 8 * k + b = 8 * h + c => k = h /\ b = c
  OBVIOUS
<1>7. ASSUME NEW k \in 0 .. 7 PROVE Low(FromLittle(s, off), k) = t[k]
  <2>1. ASSUME NEW b \in t[k] PROVE b \in Low(FromLittle(s, off), k)
    <3>1. 8 * k + b \in part(k) /\ b \in 0 .. 7
      BY <1>2
    <3> HIDE DEF part
    <3>2. 8 * k + b \in FromLittle(s, off)
      BY <1>1, <3>1
    <3> QED
      BY <3>1, <3>2 DEF Low
  <2>2. ASSUME NEW b \in Low(FromLittle(s, off), k) PROVE b \in t[k]
    <3>1. b \in 0 .. 7 /\ 8 * k + b \in FromLittle(s, off)
      BY DEF Low
    <3>2. PICK h \in 0 .. 7 : 8 * k + b \in part(h)
      <4> HIDE DEF part
      <4> QED
        BY <1>1, <3>1
    <3>3. PICK c \in t[h] : 8 * k + b = 8 * h + c
      BY <3>2
    <3>4. c \in 0 .. 7
      BY <1>2
    <3> QED
      BY <1>6, <3>1, <3>3, <3>4
  <2> QED
    BY <2>1, <2>2
<1> QED
  BY <1>5, <1>7 DEF W64, Word

\* A word is known by its bytes.
LEMMA BytesTell ==
  ASSUME NEW a \in W64, NEW b \in W64, \A k \in 0 .. 7 : Low(a, k) = Low(b, k)
  PROVE  a = b
<1>1. \A i \in 0 .. 63 : i \div 8 \in 0 .. 7 /\ i % 8 \in 0 .. 7 /\ 8 * (i \div 8) + (i % 8) = i
  OBVIOUS
<1>2. ASSUME NEW i \in 0 .. 63 PROVE i \in a <=> i \in b
  <2>1. PICK k \in 0 .. 7, c \in 0 .. 7 : 8 * k + c = i
    BY <1>1
  <2>2. c \in Low(a, k) <=> c \in Low(b, k)
    BY Zenon
  <2> QED
    BY <2>1, <2>2 DEF Low
<1>3. a \subseteq 0 .. 63 /\ b \subseteq 0 .. 63
  BY DEF W64, Word
<1> QED
  BY <1>2, <1>3

LEMMA LowIs == \A a : \A k \in 0 .. 7 : Low(a, k) \in Octet
BY DEF Low, Octet, Word

LEMMA LittleEndianIs ==
  \A a : LittleEndian(a) \in Text /\ Len(LittleEndian(a)) = 8
         /\ \A k \in 0 .. 7 : LittleEndian(a)[k + 1] = Low(a, k)
<1> TAKE a
<1>1. \A k \in 0 .. 7 : k + 1 \in 1 .. 8 /\ k + 1 - 1 = k
  OBVIOUS
<1>2. \A k \in 1 .. 8 : k - 1 \in 0 .. 7
  OBVIOUS
<1> DEFINE l == LittleEndian(a)
<1>3. l = [k \in 1 .. 8 |-> Low(a, k - 1)]
  BY DEF LittleEndian
<1>4. l \in [1 .. 8 -> Octet] /\ \A k \in 1 .. 8 : l[k] = Low(a, k - 1)
  BY <1>2, <1>3, LowIs
<1> HIDE DEF l
<1>5. PICK n \in Nat : n = 8
  OBVIOUS
<1>6. l \in Text /\ Len(l) = 8
  <2>1. l \in [1 .. n -> Octet]
    BY <1>4, <1>5
  <2>2. l \in Text /\ Len(l) = n
    BY <2>1, FcnIsSeq, ZenonT(40) DEF Text
  <2> QED
    BY <1>5, <2>2
<1>7. \A k \in 0 .. 7 : l[k + 1] = Low(a, k)
  BY <1>1, <1>4
<1> QED
  BY <1>6, <1>7 DEF l

LEMMA FromLittleIs ==
  ASSUME NEW a \in W64, NEW s, NEW off, \A k \in 0 .. 7 : s[off + k + 1] = Low(a, k)
  PROVE  FromLittle(s, off) = a
<1> DEFINE t == [k \in 0 .. 7 |-> Low(a, k)]
<1>1. t \in [0 .. 7 -> Octet] /\ \A k \in 0 .. 7 : t[k] = Low(a, k)
  BY LowIs
<1> HIDE DEF t
<1>2. FromLittle(s, off) \in W64 /\ \A k \in 0 .. 7 : Low(FromLittle(s, off), k) = t[k]
  BY <1>1, LittleOf
<1> QED
  BY <1>1, <1>2, BytesTell

\* Two words as sixteen bytes, and sixteen bytes as two words.
LEMMA PairOfJoin ==
  ASSUME NEW p \in Block
  PROVE  Pair(Join(p)) = p
<1>1. PICK a \in W64, b \in W64 : p = <<a, b>>
  BY DEF Block
<1> DEFINE low == LittleEndian(a)  high == LittleEndian(b)  s == low \o high
<1>2. /\ low \in Text /\ Len(low) = 8 /\ \A k \in 0 .. 7 : low[k + 1] = Low(a, k)
      /\ high \in Text /\ Len(high) = 8 /\ \A k \in 0 .. 7 : high[k + 1] = Low(b, k)
  BY LittleEndianIs
<1>3. Join(p) = s
  BY <1>1 DEF Join
<1> HIDE DEF low, high
<1>4. \A i \in 1 .. 8 + 8 : s[i] = IF i <= 8 THEN low[i] ELSE high[i - 8]
  <2>1. \A i \in 1 .. Len(low) + Len(high) : s[i] = IF i <= Len(low) THEN low[i] ELSE high[i - Len(low)]
    BY <1>2, ConcatProperties DEF Text
  <2> HIDE DEF s
  <2> QED
    BY <1>2, <2>1, Zenon
<1> HIDE DEF s
<1>5. \A k \in 0 .. 7 : 0 + k + 1 \in 1 .. 8 + 8 /\ 0 + k + 1 <= 8 /\ 0 + k + 1 = k + 1
  OBVIOUS
<1>6. \A k \in 0 .. 7 : 8 + k + 1 \in 1 .. 8 + 8 /\ ~(8 + k + 1 <= 8) /\ 8 + k + 1 - 8 = k + 1
  OBVIOUS
<1>7. \A k \in 0 .. 7 : s[0 + k + 1] = Low(a, k) /\ s[8 + k + 1] = Low(b, k)
  BY <1>2, <1>4, <1>5, <1>6
<1>8. FromLittle(s, 0) = a
  BY <1>7, FromLittleIs
<1>9. FromLittle(s, 8) = b
  BY <1>7, FromLittleIs
<1> QED
  BY <1>1, <1>3, <1>8, <1>9 DEF Pair

LEMMA JoinOfPair ==
  ASSUME NEW s \in Text, Len(s) = 16
  PROVE  Pair(s) \in Block /\ Join(Pair(s)) = s
<1> DEFINE a == FromLittle(s, 0)  b == FromLittle(s, 8)
           x == [k \in 0 .. 7 |-> s[0 + k + 1]]  y == [k \in 0 .. 7 |-> s[8 + k + 1]]
<1>0. s \in [1 .. 16 -> Octet]
  BY TextLen
<1>1. \A k \in 0 .. 7 : 0 + k + 1 \in 1 .. 16 /\ 8 + k + 1 \in 1 .. 16
  OBVIOUS
<1>2. x \in [0 .. 7 -> Octet] /\ y \in [0 .. 7 -> Octet]
      /\ \A k \in 0 .. 7 : s[0 + k + 1] = x[k] /\ s[8 + k + 1] = y[k]
  BY <1>0, <1>1
<1> HIDE DEF x, y
<1>3. a \in W64 /\ \A k \in 0 .. 7 : Low(a, k) = x[k]
  BY <1>2, LittleOf
<1>4. b \in W64 /\ \A k \in 0 .. 7 : Low(b, k) = y[k]
  BY <1>2, LittleOf
<1>5. Pair(s) = <<a, b>>
  BY DEF Pair
<1> HIDE DEF a, b
<1> DEFINE low == LittleEndian(a)  high == LittleEndian(b)  t == low \o high
<1>6. /\ low \in Text /\ Len(low) = 8 /\ \A k \in 0 .. 7 : low[k + 1] = Low(a, k)
      /\ high \in Text /\ Len(high) = 8 /\ \A k \in 0 .. 7 : high[k + 1] = Low(b, k)
  BY LittleEndianIs
<1>7. Join(Pair(s)) = t
  BY <1>5 DEF Join
<1> HIDE DEF low, high
<1>8. t \in Text /\ Len(t) = 8 + 8 /\ \A i \in 1 .. 8 + 8 : t[i] = IF i <= 8 THEN low[i] ELSE high[i - 8]
  <2>1. /\ t \in Text /\ Len(t) = Len(low) + Len(high)
        /\ \A i \in 1 .. Len(low) + Len(high) : t[i] = IF i <= Len(low) THEN low[i] ELSE high[i - Len(low)]
    BY <1>6, ConcatProperties DEF Text
  <2> HIDE DEF t
  <2> QED
    BY <1>6, <2>1, Zenon
<1> HIDE DEF t
<1>9. ASSUME NEW i \in 1 .. 16 PROVE t[i] = s[i]
  <2>1. CASE i <= 8
    <3>1. PICK k \in 0 .. 7 : k + 1 = i
      <4>1. i - 1 \in 0 .. 7 /\ i - 1 + 1 = i
        BY <2>1
      <4> QED
        BY <4>1
    <3>2. 0 + k + 1 = i /\ i \in 1 .. 8 + 8
      BY <3>1
    <3>3. t[i] = low[k + 1]
      BY <1>8, <2>1, <3>1, <3>2
    <3> QED
      BY <1>2, <1>3, <1>6, <3>2, <3>3
  <2>2. CASE ~(i <= 8)
    <3>1. PICK k \in 0 .. 7 : k + 1 = i - 8
      <4>1. i - 9 \in 0 .. 7 /\ i - 9 + 1 = i - 8
        BY <2>2
      <4> QED
        BY <4>1
    <3>2. 8 + k + 1 = i /\ i \in 1 .. 8 + 8
      BY <3>1
    <3>3. t[i] = high[k + 1]
      BY <1>8, <2>2, <3>1, <3>2
    <3> QED
      BY <1>2, <1>4, <1>6, <3>2, <3>3
  <2> QED
    BY <2>1, <2>2
<1>10. t = s
  <2>1. Len(t) = Len(s) /\ \A i \in 1 .. Len(s) : t[i] = s[i]
    BY <1>8, <1>9
  <2> QED
    BY <1>8, <2>1, TextEqual, ZenonT(40)
<1> QED
  BY <1>3, <1>4, <1>5, <1>7, <1>10 DEF Block

\* The round keys of argus_encrypt are words.
LEMMA ArgusKeysAre == \A i \in 1 .. 72 : ArgusKeys[i] \in W64
<1> DEFINE key == [k \in 1 .. 4 |-> FromLittle(Argus, 8 * (k - 1))]
<1>1. Argus \in [1 .. 32 -> Octet]
  BY KeyAssumption, TextLen
<1>2. ASSUME NEW k \in 1 .. 4 PROVE FromLittle(Argus, 8 * (k - 1)) \in W64
  <2> DEFINE t == [h \in 0 .. 7 |-> Argus[8 * (k - 1) + h + 1]]
  <2>1. \A h \in 0 .. 7 : 8 * (k - 1) + h + 1 \in 1 .. 32
    OBVIOUS
  <2>2. t \in [0 .. 7 -> Octet] /\ \A h \in 0 .. 7 : Argus[8 * (k - 1) + h + 1] = t[h]
    BY <1>1, <2>1
  <2> HIDE DEF t
  <2> QED
    BY <2>2, LittleOf
<1>3. key \in [1 .. 4 -> W64] /\ 4 \in Nat
  BY <1>2
<1>4. ArgusKeys = Cipher!Schedule(key)
  BY DEF ArgusKeys, Cipher!Schedule
<1> HIDE DEF key
<1>5. key \in Seq(W64) /\ Len(key) = 4
  BY <1>3, FcnIsSeq, ZenonT(40)
<1> QED
  BY <1>4, <1>5, ScheduleIs

--------------------------------------------------------------------------------
(* Padding *)

\* The bytes that padding consists of are different for different lengths.
LEMMA PadBytes ==
  \A n \in 1 .. 16 : Byte(n) = Bits(n) /\ \A m \in 1 .. 16 : Bits(m) = Bits(n) => m = n
<1> DEFINE P == [i \in 0 .. 30 |-> 2 ^ i]
<1>1. /\ P[0] = 1 /\ P[1] = 2 /\ P[2] = 4 /\ P[3] = 8 /\ P[4] = 16 /\ P[5] = 32 /\ P[6] = 64 /\ P[7] = 128
      /\ P[8] = 256 /\ P[9] = 512 /\ P[10] = 1024 /\ P[11] = 2048 /\ P[12] = 4096 /\ P[13] = 8192
      /\ P[14] = 16384 /\ P[15] = 32768 /\ P[16] = 65536 /\ P[17] = 131072 /\ P[18] = 262144
      /\ P[19] = 524288 /\ P[20] = 1048576 /\ P[21] = 2097152 /\ P[22] = 4194304 /\ P[23] = 8388608
      /\ P[24] = 16777216 /\ P[25] = 33554432 /\ P[26] = 67108864 /\ P[27] = 134217728
      /\ P[28] = 268435456 /\ P[29] = 536870912 /\ P[30] = 1073741824
  OBVIOUS
<1>2. \A n : Bits(n) = {i \in 0 .. 30 : (n \div P[i]) % 2 = 1}
  BY DEF Bits
<1> HIDE DEF P
<1>3. \A i \in 5 .. 30 : P[i] \in Int /\ P[i] > 16
  BY <1>1
<1>4. \A n \in 1 .. 16, i \in 5 .. 30 : (n \div P[i]) % 2 = 0
  <2>1. \A n \in 1 .. 16, x \in Int : x > 16 => (n \div x) % 2 = 0
    OBVIOUS
  <2> QED
    BY <1>3, <2>1
<1>5. \A n \in 1 .. 16 : Byte(n) = Bits(n)
  <2> TAKE n \in 1 .. 16
  <2>1. \A i \in 0 .. 30 : ~(i \in 0 .. 7) => i \in 5 .. 30
    OBVIOUS
  <2> QED
    BY <1>2, <1>4, <2>1 DEF Byte
<1>6. \A n : /\ 0 \in Bits(n) <=> (n \div 1) % 2 = 1
             /\ 1 \in Bits(n) <=> (n \div 2) % 2 = 1
             /\ 2 \in Bits(n) <=> (n \div 4) % 2 = 1
             /\ 3 \in Bits(n) <=> (n \div 8) % 2 = 1
             /\ 4 \in Bits(n) <=> (n \div 16) % 2 = 1
  BY <1>1, <1>2
<1>7. \A m, n \in 1 .. 16 :
        /\ (m \div 1) % 2 = 1 <=> (n \div 1) % 2 = 1
        /\ (m \div 2) % 2 = 1 <=> (n \div 2) % 2 = 1
        /\ (m \div 4) % 2 = 1 <=> (n \div 4) % 2 = 1
        /\ (m \div 8) % 2 = 1 <=> (n \div 8) % 2 = 1
        /\ (m \div 16) % 2 = 1 <=> (n \div 16) % 2 = 1
        => m = n
  OBVIOUS
<1>8. \A n \in 1 .. 16 : \A m \in 1 .. 16 : Bits(m) = Bits(n) => m = n
  <2> TAKE n \in 1 .. 16
  <2> TAKE m \in 1 .. 16
  <2> HAVE Bits(m) = Bits(n)
  <2> QED
    BY <1>6, <1>7
<1> QED
  BY <1>5, <1>8

LEMMA UnpaddedIs ==
  ASSUME NEW s \in Text, NEW n \in 1 .. 16, NEW lengths \in SUBSET (1 .. 16), n \in lengths
  PROVE  Unpadded(s \o Repeated(Byte(n), n), lengths) = s
<1> DEFINE tail == Repeated(Byte(n), n)  q == s \o tail  l == Len(s)
           chosen == CHOOSE m \in lengths : q[Len(q)] = Bits(m)
<1>1. l \in Nat /\ n \in Nat /\ 1 \in 1 .. n /\ n \in 1 .. n
  BY TextLen
<1>2. tail \in Text /\ Len(tail) = n /\ tail[n] = Byte(n)
  <2>1. Byte(n) \in Octet
    BY ByteIs
  <2>2. tail \in Text /\ Len(tail) = n
    BY <1>1, <2>1, RepeatedIs
  <2> QED
    BY <1>1, <2>2 DEF Repeated
<1> HIDE DEF tail, l
<1>3. OfTwo(q, s, tail, l, n)
  <2>1. Len(s) = l
    BY DEF l
  <2> QED
    BY <1>2, <2>1, SliceOfTwo, Zenon
<1>4. q \in Text /\ Len(q) = l + n /\ q[l + n] = Byte(n) /\ Slice(q, 0, l) = Slice(s, 0, l)
  <2>1. \A i \in 1 .. n : q[l + i] = tail[i]
    BY <1>3, Zenon DEF OfTwo
  <2>2. q[l + n] = Byte(n)
    BY <1>1, <1>2, <2>1, Zenon
  <2>3. 0 \in Nat /\ 0 + l <= l
    BY <1>1
  <2>4. Slice(q, 0, l) = Slice(s, 0, l)
    BY <1>1, <1>3, <2>3, Zenon DEF OfTwo
  <2> QED
    BY <1>3, <2>2, <2>4, Zenon DEF OfTwo
<1> HIDE DEF q
<1>5. Slice(q, 0, l) = SubSeq(q, 1, l)
  <2>1. 0 + 1 = 1 /\ 0 + l = l
    BY <1>1
  <2> QED
    BY <2>1 DEF Slice
<1>6. Slice(s, 0, l) = s
  BY SliceWhole DEF l
<1>7. q[Len(q)] = Bits(n)
  BY <1>4, PadBytes
<1>8. chosen = n
  <2>1. chosen \in lengths /\ q[Len(q)] = Bits(chosen)
    BY <1>7
  <2> HIDE DEF chosen
  <2>2. chosen \in 1 .. 16
    BY <2>1
  <2> QED
    BY <1>7, <2>1, <2>2, PadBytes
<1>9. Len(q) - n = l
  BY <1>1, <1>4
<1>10. Unpadded(q, lengths) = SubSeq(q, 1, Len(q) - chosen)
  BY <1>7 DEF Unpadded
<1> HIDE DEF chosen
<1>11. Unpadded(q, lengths) = s
  BY <1>4, <1>5, <1>6, <1>8, <1>9, <1>10
<1> QED
  BY <1>11 DEF q, tail

LEMMA Pkcs7Undone ==
  ASSUME NEW s \in Text
  PROVE  Unpadded(Pkcs7(s), 1 .. 16) = s
<1>1. Len(s) \in Nat
  BY TextLen
<1> DEFINE n == PadLen(Len(s))
<1>2. n \in 1 .. 16
  BY <1>1, PadLenIs
<1>3. Pkcs7(s) = s \o Repeated(Byte(n), n)
  BY DEF Pkcs7
<1> HIDE DEF n
<1> QED
  BY <1>2, <1>3, UnpaddedIs

--------------------------------------------------------------------------------
(* The envelope of argus_encrypt *)

LEMMA ReverseTwice ==
  ASSUME NEW s \in Text
  PROVE  Reverse(s) \in Text /\ Len(Reverse(s)) = Len(s) /\ Reverse(Reverse(s)) = s
<1> DEFINE n == Len(s)  r == Reverse(s)  t == Reverse(r)
<1>1. n \in Nat /\ s \in [1 .. n -> Octet]
  BY TextLen
<1>2. r = [i \in 1 .. n |-> s[(n - i) + 1]]
  BY DEF Reverse
<1>0. Len(s) = n
  OBVIOUS
<1> HIDE DEF n, r
<1>3. \A i \in 1 .. n : (n - i) + 1 \in 1 .. n /\ (n - ((n - i) + 1)) + 1 = i
  BY <1>1
<1>4. r \in [1 .. n -> Octet] /\ \A i \in 1 .. n : r[i] = s[(n - i) + 1]
  BY <1>1, <1>2, <1>3
<1>5. r \in Text /\ Len(r) = n
  BY <1>1, <1>4, FcnIsSeq, ZenonT(40) DEF Text
<1>6. t = [i \in 1 .. n |-> r[(n - i) + 1]]
  BY <1>5 DEF Reverse
<1> HIDE DEF t
<1>7. t \in [1 .. n -> Octet] /\ \A i \in 1 .. n : t[i] = r[(n - i) + 1]
  BY <1>3, <1>4, <1>6
<1>8. t \in Text /\ Len(t) = n
  BY <1>1, <1>7, FcnIsSeq, ZenonT(40) DEF Text
<1>9. \A i \in 1 .. n : t[i] = s[i]
  BY <1>3, <1>4, <1>7
<1>10. t = s
  BY <1>0, <1>8, <1>9, TextEqual
<1> QED
  BY <1>0, <1>5, <1>10 DEF t, r

\* Masked with its first eight bytes, which stay as they are.
LEMMA MaskUndone ==
  ASSUME NEW s \in Text, Len(s) >= 8
  PROVE  Masked(s) \in Text /\ Len(Masked(s)) = Len(s) /\ Unmasked(Masked(s)) = s
<1> DEFINE n == Len(s)  m == Masked(s)  key(k) == ((k - 1) % 8) + 1
<1>1. n \in Nat /\ n >= 8 /\ s \in [1 .. n -> Octet] /\ DOMAIN s = 1 .. n
  BY TextLen
<1>0. Len(s) = n
  OBVIOUS
<1> HIDE DEF n
<1>2. m = [k \in 1 .. n |-> IF k <= 8 THEN s[k] ELSE Xor(s[k], s[key(k)])]
  BY <1>1 DEF Masked
<1>3. \A k \in Int : key(k) \in 1 .. 8 /\ key(k + 8) = key(k)
  OBVIOUS
<1>4. \A k \in 1 .. 8 : k \in 1 .. n
  BY <1>1
<1> HIDE DEF m, key
<1>5. \A k \in 1 .. n : k \in Int
  BY <1>1
<1>6. m \in [1 .. n -> Octet] /\ \A k \in 1 .. n : m[k] = IF k <= 8 THEN s[k] ELSE Xor(s[k], s[key(k)])
  <2>1. \A k \in 1 .. n : s[k] \in Octet /\ s[key(k)] \in Octet
    BY <1>1, <1>3, <1>4, <1>5
  <2>2. \A k \in 1 .. n : Xor(s[k], s[key(k)]) \in Octet
    BY <2>1, XorOctets
  <2> QED
    BY <1>2, <2>1, <2>2
<1>7. m \in Text /\ Len(m) = n
  BY <1>1, <1>6, FcnIsSeq, ZenonT(40) DEF Text
<1> DEFINE head == SubSeq(m, 1, 8)
           rest == [k \in 1 .. n - 8 |-> Xor(m[k + 8], m[key(k)])]
           u == head \o rest
<1>8. Unmasked(m) = u
  BY <1>7 DEF Unmasked, key
<1>9. \A k \in 1 .. 8 : m[k] = s[k]
  BY <1>4, <1>6
<1>10. head \in Text /\ Len(head) = 8 /\ \A k \in 1 .. 8 : head[k] = s[k]
  <2>1. 0 \in Nat /\ 8 \in Nat /\ 0 + 8 <= Len(m) /\ 0 + 1 = 1 /\ 0 + 8 = 8 /\ \A k \in 1 .. 8 : 0 + k = k
    BY <1>1, <1>7
  <2>2. head = Slice(m, 0, 8)
    BY <2>1 DEF Slice
  <2> HIDE DEF head
  <2>3. head \in Text /\ Len(head) = 8 /\ \A k \in 1 .. 8 : head[k] = m[0 + k]
    BY <1>7, <2>1, <2>2, SliceIs
  <2> QED
    BY <1>9, <2>1, <2>3
<1> HIDE DEF head
<1>11. rest \in [1 .. n - 8 -> Octet] /\ \A k \in 1 .. n - 8 : rest[k] = s[k + 8]
  <2>1. \A k \in 1 .. n - 8 : k + 8 \in 1 .. n /\ ~(k + 8 <= 8) /\ k \in Int
    BY <1>1
  <2>2. \A k \in 1 .. n - 8 : m[key(k)] = s[key(k)] /\ m[k + 8] = Xor(s[k + 8], s[key(k)])
    BY <1>3, <1>6, <1>9, <2>1
  <2>3. \A a, b : Xor(Xor(a, b), b) = a
    BY DEF Xor
  <2>4. \A k \in 1 .. n - 8 : Xor(m[k + 8], m[key(k)]) = s[k + 8]
    BY <2>2, <2>3
  <2>5. \A k \in 1 .. n - 8 : s[k + 8] \in Octet
    BY <1>1, <2>1
  <2> QED
    BY <2>4, <2>5
<1> HIDE DEF rest
<1>12. n - 8 \in Nat
  BY <1>1
<1>13. rest \in Text /\ Len(rest) = n - 8
  BY <1>11, <1>12, FcnIsSeq, ZenonT(40) DEF Text
<1>14. u \in Text /\ Len(u) = n /\ \A k \in 1 .. n : u[k] = IF k <= 8 THEN head[k] ELSE rest[k - 8]
  <2>1. /\ u \in Text /\ Len(u) = Len(head) + Len(rest)
        /\ \A k \in 1 .. Len(head) + Len(rest) : u[k] = IF k <= Len(head) THEN head[k] ELSE rest[k - Len(head)]
    BY <1>10, <1>13, ConcatProperties DEF Text
  <2>2. 8 + (n - 8) = n
    BY <1>1
  <2> HIDE DEF u
  <2> QED
    BY <1>10, <1>13, <2>1, <2>2
<1> HIDE DEF u
<1>15. \A k \in 1 .. n : IF k <= 8 THEN k \in 1 .. 8 ELSE k - 8 \in 1 .. n - 8 /\ k - 8 + 8 = k
  BY <1>1
<1>16. \A k \in 1 .. n : u[k] = s[k]
  BY <1>10, <1>11, <1>14, <1>15
<1>17. u = s
  BY <1>0, <1>14, <1>16, TextEqual
<1> QED
  BY <1>0, <1>7, <1>8, <1>17 DEF m

\* What follows the first bytes of a text.
LEMMA Behind ==
  ASSUME NEW h \in Text, NEW s \in Text, NEW l, Len(h) = l
  PROVE  h \o s \in Text /\ Len(h \o s) = l + Len(s) /\ SubSeq(h \o s, l + 1, Len(h \o s)) = s
<1> DEFINE n == Len(s)
<1>1. OfTwo(h \o s, h, s, l, n)
  <2>1. Len(s) = n
    OBVIOUS
  <2> HIDE DEF n
  <2> QED
    BY <2>1, SliceOfTwo, Zenon
<1> QED
  BY <1>1 DEF OfTwo, Slice

\* A text without its last two bytes.
LEMMA LeftOfTwo ==
  ASSUME NEW s \in Text, NEW t \in Text, Len(t) = 2, NEW off \in Nat, off <= Len(s)
  PROVE  SubSeq(s \o t, off + 1, Len(s \o t) - 2) = SubSeq(s, off + 1, Len(s))
<1> DEFINE n == Len(s)  m == n - off
<1>1. OfTwo(s \o t, s, t, n, 2)
  <2>1. Len(s) = n
    OBVIOUS
  <2> HIDE DEF n
  <2> QED
    BY <2>1, SliceOfTwo, Zenon
<1>2. n \in Nat
  BY TextLen
<1>3. Len(s \o t) = n + 2
  BY <1>1 DEF OfTwo
<1> HIDE DEF n
<1>4. n >= off
  BY DEF n
<1>5. m \in Nat /\ off + m = n /\ off + m <= n /\ n + 2 - 2 = n
  BY <1>2, <1>4
<1> HIDE DEF m
<1>6. Slice(s \o t, off, m) = Slice(s, off, m)
  BY <1>1, <1>5, Zenon DEF OfTwo
<1> QED
  BY <1>3, <1>5, <1>6 DEF Slice, n

LEMMA FixedLens ==
  Len(Prefix1) = 8 /\ Len(Prefix2) = 9 /\ Len(Suffix) = 2 /\ Len(Magic) = 2
<1>1. Len(Prefix1) = 8
  <2> DEFINE ns == <<242, 247, 252, 255, 242, 247, 252, 255>>
  <2>1. ns \in [1 .. 8 -> Nat]
    OBVIOUS
  <2> HIDE DEF ns
  <2>2. Len(Octets(ns)) = 8
    BY <2>1, OctetsIs
  <2> QED
    BY <2>2 DEF Prefix1, ns
<1>2. Len(Prefix2) = 9
  <2> DEFINE ns == <<166, 110, 173, 159, 119, 1, 208, 12, 24>>
  <2>1. ns \in [1 .. 9 -> Nat]
    OBVIOUS
  <2> HIDE DEF ns
  <2>2. Len(Octets(ns)) = 9
    BY <2>1, OctetsIs
  <2> QED
    BY <2>2 DEF Prefix2, ns
<1>3. Len(Suffix) = 2 /\ Len(Magic) = 2
  <2>1. <<97, 111>> \in [1 .. 2 -> Nat] /\ <<242, 129>> \in [1 .. 2 -> Nat]
    OBVIOUS
  <2> QED
    BY <2>1, OctetsIs, ZenonT(40) DEF Suffix, Magic
<1> QED
  BY <1>1, <1>2, <1>3

\* The envelope of what was encrypted, opened.
Wrapped(s) == Prefix2 \o s \o Suffix

LEMMA EnvelopeOpens ==
  ASSUME NEW s \in Text
  PROVE  Wrapped(s) \in Text /\ SubSeq(Wrapped(s), 10, Len(Wrapped(s)) - 2) = s
<1> DEFINE front == Prefix2 \o s
<1>1. Prefix2 \in Text /\ Suffix \in Text /\ Len(Prefix2) = 9 /\ Len(Suffix) = 2
  BY FixedBytes, FixedLens
<1>2. front \in Text /\ Len(front) = 9 + Len(s) /\ SubSeq(front, 9 + 1, Len(front)) = s
  BY <1>1, Behind
<1> HIDE DEF front
<1>3. 9 \in Nat /\ 9 <= Len(front) /\ 9 + 1 = 10
  <2>1. Len(s) \in Nat
    BY TextLen
  <2> QED
    BY <1>2, <2>1
<1>4. SubSeq(front \o Suffix, 9 + 1, Len(front \o Suffix) - 2) = SubSeq(front, 9 + 1, Len(front))
  BY <1>1, <1>2, <1>3, LeftOfTwo
<1>5. front \o Suffix \in Text
  BY <1>1, <1>2, ConcatIs
<1> QED
  BY <1>2, <1>3, <1>4, <1>5 DEF Wrapped, front

--------------------------------------------------------------------------------
(* Base64 *)

\* The bits of one to three bytes, the first byte highest.
LEMMA Word24Is ==
  ASSUME NEW m \in 1 .. 3, NEW s \in [1 .. m -> Octet]
  PROVE  /\ Word24(s) \subseteq 8 * (3 - m) .. 23
         /\ \A k \in 1 .. m : Low(Word24(s), 3 - k) = s[k]
<1> DEFINE part(k) == {8 * (3 - k) + b : b \in s[k]}
<1>1. Word24(s) = UNION {part(k) : k \in 1 .. m}
  BY DEF Word24
<1>2. \A k \in 1 .. m : s[k] \subseteq 0 .. 7
  BY DEF Octet, Word
<1>3. \A k \in 1 .. m, b \in 0 .. 7 : 8 * (3 - k) + b \in 8 * (3 - m) .. 23
  OBVIOUS
<1>4. \A k \in 1 .. m : part(k) \subseteq 8 * (3 - m) .. 23
  BY <1>2, <1>3
<1>5. Word24(s) \subseteq 8 * (3 - m) .. 23
  <2> HIDE DEF part
  <2> QED
    BY <1>1, <1>4
<1>6. \A k, h \in 1 .. m, b, c \in 0 .. 7 : 8 * (3 - k) + b = 8 * (3 - h) + c => k = h /\ b = c
  OBVIOUS
<1>7. ASSUME NEW k \in 1 .. m PROVE Low(Word24(s), 3 - k) = s[k]
  <2>1. ASSUME NEW b \in s[k] PROVE b \in Low(Word24(s), 3 - k)
    <3>1. 8 * (3 - k) + b \in part(k) /\ b \in 0 .. 7
      BY <1>2
    <3> HIDE DEF part
    <3>2. 8 * (3 - k) + b \in Word24(s)
      BY <1>1, <3>1
    <3> QED
      BY <3>1, <3>2 DEF Low
  <2>2. ASSUME NEW b \in Low(Word24(s), 3 - k) PROVE b \in s[k]
    <3>1. b \in 0 .. 7 /\ 8 * (3 - k) + b \in Word24(s)
      BY DEF Low
    <3>2. PICK h \in 1 .. m : 8 * (3 - k) + b \in part(h)
      <4> HIDE DEF part
      <4> QED
        BY <1>1, <3>1
    <3>3. PICK c \in s[h] : 8 * (3 - k) + b = 8 * (3 - h) + c
      BY <3>2
    <3>4. c \in 0 .. 7
      BY <1>2
    <3> QED
      BY <1>6, <3>1, <3>3, <3>4
  <2> QED
    BY <2>1, <2>2
<1> QED
  BY <1>5, <1>7

\* Six of the bits; digits are never the filler.
LEMMA SixIs ==
  ASSUME NEW w \in SUBSET (0 .. 23), NEW n \in 0 .. 3
  PROVE  /\ Cut(6, Shr(w, 6 * n)) = {b \in 0 .. 5 : 6 * n + b \in w}
         /\ Cut(6, Shr(w, 6 * n)) # Pad64
<1>1. \A b \in 0 .. 5 : 6 * n + b >= 6 * n /\ 6 * n + b - 6 * n = b
  OBVIOUS
<1>2. \A c \in w : c \in Int /\ 6 * n + (c - 6 * n) = c
  OBVIOUS
<1>3. Cut(6, Shr(w, 6 * n)) = {b \in 0 .. 5 : \E c \in w : c >= 6 * n /\ b = c - 6 * n}
  BY DEF Cut, Shr
<1>4. \A b \in 0 .. 5 : (\E c \in w : c >= 6 * n /\ b = c - 6 * n) <=> 6 * n + b \in w
  BY <1>1, <1>2
<1>5. Cut(6, Shr(w, 6 * n)) = {b \in 0 .. 5 : 6 * n + b \in w}
  BY <1>3, <1>4
<1>6. ~(6 \in 0 .. 5)
  OBVIOUS
<1> QED
  BY <1>5, <1>6 DEF Pad64

\* Four digits are read as the bytes they were made of.
LEMMA Group64Is ==
  ASSUME NEW s \in Text, NEW m \in 1 .. 3, Len(s) = m,
         NEW t, NEW g, \A k \in 1 .. 4 : t[4 * g + k] = Digit(s, k)
  PROVE  Group64(t, g) = s
<1> DEFINE w == Word24(s)
           some == {n \in 1 .. 4 : t[4 * g + n] # Pad64}
           word == UNION {{6 * (4 - k) + b : b \in t[4 * g + k]} : k \in some}
<1>1. s \in [1 .. m -> Octet] /\ DOMAIN s = 1 .. m
  BY TextLen
<1>2. w \subseteq 8 * (3 - m) .. 23 /\ \A k \in 1 .. m : Low(w, 3 - k) = s[k]
  BY <1>1, Word24Is
<1>3. 8 * (3 - m) .. 23 \subseteq 0 .. 23
  OBVIOUS
<1> HIDE DEF w
<1>4. \A k \in 1 .. 4 : k <= m + 1 =>
        t[4 * g + k] = {b \in 0 .. 5 : 6 * (4 - k) + b \in w} /\ t[4 * g + k] # Pad64
  <2> TAKE k \in 1 .. 4
  <2> HAVE k <= m + 1
  <2>1. Digit(s, k) = Cut(6, Shr(w, 6 * (4 - k)))
    BY DEF Digit, w
  <2>2. w \in SUBSET (0 .. 23) /\ 4 - k \in 0 .. 3
    BY <1>2, <1>3
  <2> QED
    BY <2>1, <2>2, SixIs
<1>5. \A k \in 1 .. 4 : ~(k <= m + 1) => t[4 * g + k] = Pad64
  BY DEF Digit
<1>6. some = 1 .. m + 1
  <2>1. \A k \in 1 .. m + 1 : k \in 1 .. 4 /\ k <= m + 1
    OBVIOUS
  <2>2. \A k \in 1 .. 4 : k <= m + 1 => k \in 1 .. m + 1
    OBVIOUS
  <2>3. \A k \in 1 .. 4 : k <= m + 1 \/ ~(k <= m + 1)
    OBVIOUS
  <2> QED
    BY <1>4, <1>5, <2>1, <2>2, <2>3
<1> HIDE DEF some
<1>7. Cardinality(some) - 1 = m
  <2>1. 1 \in Int /\ m + 1 \in Int /\ 1 <= m + 1 /\ m + 1 - 1 + 1 - 1 = m
    OBVIOUS
  <2>2. Cardinality(1 .. m + 1) = m + 1 - 1 + 1
    BY <2>1, FS_Interval
  <2> QED
    BY <1>6, <2>1, <2>2
<1>8. \A k \in some : k \in 1 .. 4 /\ t[4 * g + k] = {b \in 0 .. 5 : 6 * (4 - k) + b \in w}
  BY <1>4, <1>6
<1>9. word = w
  <2>1. ASSUME NEW i \in w PROVE i \in word
    <3>1. i \in 0 .. 23 /\ i >= 8 * (3 - m)
      BY <1>2
    <3>2. PICK k \in 1 .. 4 : k = 4 - (i \div 6)
      <4>1. 4 - (i \div 6) \in 1 .. 4
        BY <3>1
      <4> QED
        BY <4>1
    <3>3. k \in 1 .. m + 1 /\ i - 6 * (4 - k) \in 0 .. 5 /\ 6 * (4 - k) + (i - 6 * (4 - k)) = i
      BY <3>1, <3>2
    <3>4. k \in some /\ i - 6 * (4 - k) \in t[4 * g + k]
      BY <1>6, <1>8, <3>3
    <3> QED
      BY <3>3, <3>4
  <2>2. ASSUME NEW i \in word PROVE i \in w
    <3>1. PICK k \in some : \E b \in t[4 * g + k] : i = 6 * (4 - k) + b
      OBVIOUS
    <3> QED
      BY <1>8, <3>1
  <2> HIDE DEF word
  <2> QED
    BY <2>1, <2>2
<1>10. Group64(t, g) = [k \in 1 .. m |-> Low(word, 3 - k)]
  BY <1>7 DEF Group64, some
<1> HIDE DEF word
<1>11. Group64(t, g) = [k \in 1 .. m |-> s[k]]
  BY <1>2, <1>9, <1>10
<1> QED
  BY <1>1, <1>11

\* The groups of bytes that base64 takes, and what it has made of the first of them.
End64(s, g)   == IF 3 * g > Len(s) THEN Len(s) ELSE 3 * g
Third(s, g)   == SubSeq(s, End64(s, g - 1) + 1, End64(s, g))
Coded64(s, t, c) ==
  /\ c \in Nat /\ t \in Seq(Digit64) /\ Len(t) = 4 * c
  /\ 3 * c < Len(s) + 3
  /\ \A g \in 1 .. c, k \in 1 .. 4 : t[4 * (g - 1) + k] = Digit(Third(s, g), k)

LEMMA ThirdIs ==
  ASSUME NEW s \in Text, NEW g \in Nat, g # 0, 3 * g < Len(s) + 3
  PROVE  Third(s, g) \in Text /\ Len(Third(s, g)) \in 1 .. 3
<1> DEFINE n == Len(s)  off == 3 * (g - 1)  end == IF off + 3 > n THEN n ELSE off + 3  m == end - off
<1>1. n \in Nat
  BY TextLen
<1>0. Len(s) = n
  OBVIOUS
<1> HIDE DEF n
<1>2. off \in Nat /\ m \in 1 .. 3 /\ off + m = end /\ end <= n /\ off + 3 = 3 * g /\ ~(off > n)
  BY <1>0, <1>1
<1>3. End64(s, g - 1) = off /\ End64(s, g) = end
  BY <1>0, <1>2 DEF End64
<1> HIDE DEF off, end
<1>4. Third(s, g) = SubSeq(s, off + 1, end)
  BY <1>3 DEF Third
<1> HIDE DEF m
<1>5. m \in Nat /\ off + m <= n
  BY <1>2
<1>6. Slice(s, off, m) \in Text /\ Len(Slice(s, off, m)) = m
  BY <1>0, <1>2, <1>5, SliceIs
<1>7. Slice(s, off, m) = SubSeq(s, off + 1, end)
  BY <1>2 DEF Slice
<1>8. Third(s, g) \in Text /\ Len(Third(s, g)) \in 1 .. 3
  BY <1>2, <1>4, <1>6, <1>7
<1> QED
  BY <1>8

LEMMA ThirdNext ==
  ASSUME NEW s \in Text, NEW c \in Nat, 3 * c < Len(s)
  PROVE  Third(s, c + 1) = SubSeq(s, 3 * c + 1, IF 3 * c + 3 > Len(s) THEN Len(s) ELSE 3 * c + 3)
<1>1. Len(s) \in Nat
  BY TextLen
<1>2. c + 1 - 1 = c /\ 3 * (c + 1) = 3 * c + 3 /\ ~(3 * c > Len(s))
  BY <1>1
<1>3. End64(s, c) = 3 * c
  BY <1>2 DEF End64
<1>4. End64(s, c + 1) = IF 3 * c + 3 > Len(s) THEN Len(s) ELSE 3 * c + 3
  BY <1>2, Zenon DEF End64
<1> DEFINE end == IF 3 * c + 3 > Len(s) THEN Len(s) ELSE 3 * c + 3
           g   == c + 1
<1>5. End64(s, g - 1) = 3 * c /\ End64(s, g) = end
  BY <1>2, <1>3, <1>4
<1> HIDE DEF end, g
<1>6. Third(s, g) = SubSeq(s, 3 * c + 1, end)
  BY <1>5 DEF Third
<1> QED
  BY <1>6 DEF end, g

\* One group more.
LEMMA CodedMore ==
  ASSUME NEW s \in Text, NEW t, NEW c, Coded64(s, t, c), 3 * c < Len(s)
  PROVE  Coded64(s, t \o [k \in 1 .. 4 |-> Digit(Third(s, c + 1), k)], c + 1)
<1> DEFINE q == [k \in 1 .. 4 |-> Digit(Third(s, c + 1), k)]  u == t \o q
<1>1. c \in Nat /\ t \in Seq(Digit64) /\ Len(t) = 4 * c
      /\ \A g \in 1 .. c, k \in 1 .. 4 : t[4 * (g - 1) + k] = Digit(Third(s, g), k)
  BY DEF Coded64
<1>2. Len(s) \in Nat
  BY TextLen
<1>3. \A a, k : Digit(a, k) \in Digit64
  BY DEF Digit, Digit64, Cut, Word
<1>4. q \in [1 .. 4 -> Digit64] /\ \A k \in 1 .. 4 : q[k] = Digit(Third(s, c + 1), k)
  BY <1>3
<1> HIDE DEF q
<1>5. q \in Seq(Digit64) /\ Len(q) = 4
  BY <1>4, FcnIsSeq
<1>6. /\ u \in Seq(Digit64) /\ Len(u) = Len(t) + Len(q)
      /\ \A i \in 1 .. Len(t) + Len(q) : u[i] = IF i <= Len(t) THEN t[i] ELSE q[i - Len(t)]
  BY <1>1, <1>5, ConcatProperties
<1> HIDE DEF u
<1>7. Len(u) = 4 * (c + 1) /\ c + 1 \in Nat /\ 3 * (c + 1) < Len(s) + 3
  BY <1>1, <1>2, <1>5, <1>6
<1>8. ASSUME NEW g \in 1 .. c + 1, NEW k \in 1 .. 4 PROVE u[4 * (g - 1) + k] = Digit(Third(s, g), k)
  <2>1. CASE g = c + 1
    <3>1. 4 * (g - 1) + k \in 1 .. 4 * c + 4 /\ ~(4 * (g - 1) + k <= 4 * c) /\ 4 * (g - 1) + k - 4 * c = k
      BY <1>1, <2>1
    <3> QED
      BY <1>1, <1>4, <1>5, <1>6, <2>1, <3>1
  <2>2. CASE g # c + 1
    <3>1. g \in 1 .. c /\ 4 * (g - 1) + k \in 1 .. 4 * c + 4 /\ 4 * (g - 1) + k <= 4 * c
      BY <1>1, <2>2
    <3> QED
      BY <1>1, <1>5, <1>6, <3>1
  <2> QED
    BY <2>1, <2>2
<1>9. Coded64(s, u, c + 1)
  BY <1>6, <1>7, <1>8 DEF Coded64
<1> QED
  BY <1>9 DEF u, q

\* A text whose bytes have all been taken is read back from its digits.
LEMMA CodedOpens ==
  ASSUME NEW s \in Text, NEW t, NEW c, Coded64(s, t, c), 3 * c >= Len(s)
  PROVE  Decoded64(t) = s
<1>1. c \in Nat /\ Len(t) = 4 * c /\ 3 * c < Len(s) + 3
      /\ \A g \in 1 .. c, k \in 1 .. 4 : t[4 * (g - 1) + k] = Digit(Third(s, g), k)
  BY DEF Coded64
<1>2. Len(s) \in Nat
  BY TextLen
<1> DEFINE n == Len(s)
<1>0. n = Len(s)
  OBVIOUS
<1> HIDE DEF n
<1>3. ASSUME NEW g \in 1 .. c PROVE Group64(t, g - 1) = Third(s, g)
  <2>1. g \in Nat /\ g # 0 /\ 3 * g < Len(s) + 3
    BY <1>1, <1>2
  <2>2. Third(s, g) \in Text /\ Len(Third(s, g)) \in 1 .. 3
    BY <2>1, ThirdIs
  <2>3. PICK m \in 1 .. 3, a \in Text : a = Third(s, g) /\ Len(a) = m
    BY <2>2
  <2>4. \A k \in 1 .. 4 : t[4 * (g - 1) + k] = Digit(a, k)
    BY <1>1, <2>3
  <2>5. Group64(t, g - 1) = a
    BY <2>3, <2>4, Group64Is
  <2> QED
    BY <2>3, <2>5
<1> DEFINE d == [g \in 1 .. c |-> Third(s, g)]
           e == [g \in 0 .. c |-> End64(s, g)]
<1>4. Decoded64(t) = FlattenSeq(d)
  <2>1. Len(t) \div 4 = c
    BY <1>1
  <2>2. [g \in 1 .. Len(t) \div 4 |-> Group64(t, g - 1)] = d
    BY <1>3, <2>1
  <2> QED
    BY <2>2 DEF Decoded64
<1>5. \A g \in 0 .. c : e[g] = IF 3 * g > n THEN n ELSE 3 * g
  BY <1>0 DEF End64
<1>6. e \in [0 .. c -> Nat]
  <2>1. \A g \in 0 .. c : End64(s, g) \in Nat
    BY <1>2 DEF End64
  <2> QED
    BY <2>1
<1>7. d = [g \in 1 .. c |-> SubSeq(s, e[g - 1] + 1, e[g])]
  <2>1. \A g \in 1 .. c : g - 1 \in 0 .. c /\ g \in 0 .. c
    BY <1>1
  <2>2. \A g \in 1 .. c : e[g - 1] = End64(s, g - 1) /\ e[g] = End64(s, g)
    BY <2>1
  <2> HIDE DEF e
  <2> QED
    BY <2>2 DEF Third
<1> HIDE DEF d, e
<1>8. 0 \in 0 .. c /\ c \in 0 .. c /\ \A g \in 1 .. c : g - 1 \in 0 .. c /\ g \in 0 .. c
  BY <1>1
<1>9. n \in Nat
  BY <1>0, <1>2
<1>10. e[0] = 0
  <2>1. 3 * 0 = 0 /\ ~(0 > n)
    BY <1>9
  <2> QED
    BY <1>5, <1>8, <2>1
<1>11. e[c] = n
  <2>1. ~(3 * c > n) => 3 * c = n
    BY <1>0, <1>1, <1>9
  <2> QED
    BY <1>5, <1>8, <2>1
<1>12. \A g \in 1 .. c : e[g - 1] <= e[g] /\ e[g] <= n
  <2> TAKE g \in 1 .. c
  <2>1. e[g] = (IF 3 * g > n THEN n ELSE 3 * g) /\ e[g - 1] = (IF 3 * (g - 1) > n THEN n ELSE 3 * (g - 1))
    BY <1>5, <1>8
  <2> QED
    BY <1>9, <2>1
<1>13. Pieces(s, c, e, d)
  BY <1>0, <1>6, <1>7, <1>10, <1>11, <1>12 DEF Pieces
<1>14. FlattenSeq(d) = s
  BY <1>1, <1>13, FlattenIs
<1> QED
  BY <1>4, <1>14

--------------------------------------------------------------------------------
(* Texts in blocks *)

\* The first n blocks of s, each under the cipher c.
Part(s, b) == Slice(s, 16 * (b - 1), 16)
Ciphered(c, s, o, n) ==
  /\ n \in Nat /\ o \in Text /\ Len(o) = 16 * n /\ 16 * n <= Len(s)
  /\ \A b \in 1 .. n : Part(o, b) = Join(c[Pair(Part(s, b))])

LEMMA PartIs ==
  ASSUME NEW s \in Text, NEW b \in Nat, b # 0, 16 * b <= Len(s)
  PROVE  /\ Part(s, b) \in Text /\ Len(Part(s, b)) = 16
         /\ \A i \in 1 .. 16 : Part(s, b)[i] = s[16 * (b - 1) + i]
<1> DEFINE off == 16 * (b - 1)
<1>1. Len(s) \in Nat
  BY TextLen
<1>2. off \in Nat /\ 16 \in Nat /\ off + 16 <= Len(s)
  BY <1>1
<1>3. Part(s, b) = Slice(s, off, 16)
  BY DEF Part
<1> HIDE DEF off
<1>4. /\ Slice(s, off, 16) \in Text /\ Len(Slice(s, off, 16)) = 16
      /\ \A i \in 1 .. 16 : Slice(s, off, 16)[i] = s[off + i]
  BY <1>2, SliceIs
<1> QED
  BY <1>3, <1>4 DEF off

\* One block more.
LEMMA CipheredMore ==
  ASSUME NEW c, NEW s \in Text, NEW o, NEW n, Ciphered(c, s, o, n), 16 * (n + 1) <= Len(s)
  PROVE  Ciphered(c, s, o \o Join(c[Pair(Slice(s, Len(o), 16))]), n + 1)
<1> DEFINE block == Join(c[Pair(Part(s, n + 1))])  u == o \o block  l == 16 * n
<1>1. n \in Nat /\ o \in Text /\ Len(o) = l /\ \A b \in 1 .. n : Part(o, b) = Join(c[Pair(Part(s, b))])
  BY DEF Ciphered
<1>2. block \in Text /\ Len(block) = 16
  BY JoinIs
<1>3. Slice(s, Len(o), 16) = Part(s, n + 1)
  <2>1. 16 * (n + 1 - 1) = l
    BY <1>1
  <2> QED
    BY <1>1, <2>1 DEF Part
<1>0. \A b \in 1 .. n + 1 : b = n + 1 => Join(c[Pair(Part(s, b))]) = block
  OBVIOUS
<1> HIDE DEF block
<1>4. l \in Nat /\ l = 16 * n /\ 16 * (n + 1) = l + 16 /\ n + 1 \in Nat
  BY <1>1
<1> HIDE DEF l
<1>5. OfTwo(u, o, block, l, 16)
  BY <1>1, <1>2, SliceOfTwo, Zenon
<1>6. u \in Text /\ Len(u) = l + 16 /\ Slice(u, l, 16) = block
      /\ \A off, m \in Nat : off + m <= l => Slice(u, off, m) = Slice(o, off, m)
  BY <1>5, Zenon DEF OfTwo
<1> HIDE DEF u
<1>7. ASSUME NEW b \in 1 .. n + 1 PROVE Part(u, b) = Join(c[Pair(Part(s, b))])
  <2>1. CASE b = n + 1
    <3>1. 16 * (b - 1) = l
      BY <1>1, <1>4, <2>1
    <3> QED
      BY <1>0, <1>6, <2>1, <3>1 DEF Part
  <2>2. CASE b # n + 1
    <3>1. b \in 1 .. n
      BY <1>1, <2>2
    <3>2. PICK off \in Nat : off = 16 * (b - 1) /\ off + 16 <= l
      <4>1. 16 * (b - 1) \in Nat /\ 16 * (b - 1) + 16 <= l
        BY <1>1, <1>4, <3>1
      <4> QED
        BY <4>1
    <3>3. Slice(u, off, 16) = Slice(o, off, 16)
      BY <1>6, <3>2
    <3> QED
      BY <1>1, <3>1, <3>2, <3>3 DEF Part
  <2> QED
    BY <2>1, <2>2
<1>8. Ciphered(c, s, u, n + 1)
  BY <1>4, <1>6, <1>7 DEF Ciphered
<1> QED
  BY <1>3, <1>8 DEF u, block

\* What the receiver makes of the blocks, if d undoes c: the text as far as it
\* was encrypted.
LEMMA CipheredOpens ==
  ASSUME NEW c, NEW d, \A p \in Block : c[p] \in Block /\ d[c[p]] = p,
         NEW s \in Text, NEW o, NEW n, Ciphered(c, s, o, n),
         NEW q, q = [k \in DOMAIN Blocks(o) |-> Join(d[Blocks(o)[k]])]
  PROVE  FlattenSeq(q) = Slice(s, 0, 16 * n)
<1> DEFINE l == 16 * n  z == Slice(s, 0, l)
<1>1. n \in Nat /\ o \in Text /\ Len(o) = 16 * n /\ 16 * n <= Len(s)
      /\ \A b \in 1 .. n : Part(o, b) = Join(c[Pair(Part(s, b))])
  BY DEF Ciphered
<1>2. Len(s) \in Nat
  BY TextLen
<1>3. l \in Nat /\ 0 \in Nat /\ 0 + l <= Len(s) /\ l = 16 * n /\ \A i \in 1 .. l : 0 + i = i
  BY <1>1, <1>2
<1> HIDE DEF l
<1>4. z \in Text /\ Len(z) = l /\ \A i \in 1 .. l : z[0 + i] = s[i]
  <2>1. z \in Text /\ Len(z) = l /\ \A i \in 1 .. l : z[i] = s[0 + i]
    BY <1>3, SliceIs
  <2> HIDE DEF z
  <2> QED
    BY <1>3, <2>1
<1> HIDE DEF z
<1>5. \A i \in 1 .. l : z[i] = s[i]
  BY <1>3, <1>4
<1>6. \A b \in 1 .. n : b \in Nat /\ b # 0 /\ 16 * b <= Len(s) /\ 16 * b <= Len(z)
  BY <1>1, <1>2, <1>3, <1>4
<1>7. ASSUME NEW b \in 1 .. n PROVE Part(z, b) = Part(s, b)
  <2>1. Part(s, b) \in Text /\ Len(Part(s, b)) = 16
        /\ \A i \in 1 .. 16 : Part(s, b)[i] = s[16 * (b - 1) + i]
    BY <1>6, PartIs
  <2>2. Part(z, b) \in Text /\ Len(Part(z, b)) = 16
        /\ \A i \in 1 .. 16 : Part(z, b)[i] = z[16 * (b - 1) + i]
    BY <1>4, <1>6, PartIs
  <2>3. \A i \in 1 .. 16 : 16 * (b - 1) + i \in 1 .. l
    BY <1>1, <1>3
  <2> DEFINE x == Part(z, b)  y == Part(s, b)
  <2>4. \A i \in 1 .. 16 : x[i] = y[i]
    BY <1>5, <2>1, <2>2, <2>3
  <2>5. x \in Text /\ y \in Text /\ Len(x) = 16 /\ Len(y) = 16
    BY <2>1, <2>2
  <2> HIDE DEF x, y
  <2>6. x = y
    BY <2>4, <2>5, TextEqual
  <2> QED
    BY <2>6 DEF x, y
<1>8. \A b \in 1 .. n : Join(d[Pair(Part(o, b))]) = Part(s, b)
  <2> TAKE b \in 1 .. n
  <2>1. Part(s, b) \in Text /\ Len(Part(s, b)) = 16
    BY <1>6, PartIs
  <2>2. Pair(Part(s, b)) \in Block /\ Join(Pair(Part(s, b))) = Part(s, b)
    BY <2>1, JoinOfPair
  <2>3. PICK p \in Block : p = Pair(Part(s, b))
    BY <2>2
  <2>4. Part(o, b) = Join(c[p]) /\ c[p] \in Block /\ d[c[p]] = p
    BY <1>1, <2>3
  <2>5. Pair(Join(c[p])) = c[p]
    BY <2>4, PairOfJoin
  <2> QED
    BY <2>2, <2>3, <2>4, <2>5
<1>9. Blocks(o) = [k \in 1 .. n |-> Pair(Part(o, k))]
  <2>1. Len(o) \div 16 = n
    BY <1>1
  <2> QED
    BY <2>1 DEF Blocks, Part
<1>10. q = [k \in 1 .. n |-> Join(d[Pair(Part(o, k))])]
  BY <1>9
<1>11. q = [k \in 1 .. n |-> Slice(z, 16 * (k - 1), 16)]
  BY <1>7, <1>8, <1>10 DEF Part
<1>12. FlattenSeq(q) = z
  BY <1>1, <1>3, <1>4, <1>11, BlocksFlatten
<1> QED
  BY <1>12 DEF z, l

--------------------------------------------------------------------------------
\* At each stage of argus_encrypt and ladon_encrypt: the blocks so far are the
\* first ones of the padded text under the cipher; the bytes for base64 are made
\* of all of them; and the digits so far are those of the first bytes.
ArgusCipher    == [p \in Block |-> Cipher!Encrypt(ArgusKeys, p)]
LadonCipher(j) == [p \in Block |-> Rotor!Encrypt(LadonTable(j.random, j.aid), p)]

Masks(j, s) == \E o, n : /\ Ciphered(ArgusCipher, Pkcs7(j.bean), o, n) /\ 16 * n = Len(Pkcs7(j.bean))
                         /\ s = Reverse(Masked(Prefix1 \o o))

Carries(j, m) ==
  \/ /\ j.kind = "argus"
     /\ \E s \in Text : Masks(j, s) /\ m = Magic \o Aes(Wrapped(s))
  \/ /\ j.kind = "ladon"
     /\ \E o, n : /\ Ciphered(LadonCipher(j), Pkcs7(j.data), o, n) /\ 16 * n = PaddingSize(Len(j.data))
                  /\ m = j.random \o o

BlockStages ==
  /\ job.kind = "argus" => pc \in {"start", "simon", "wrap", "aes", "base64", "done"}
  /\ job.kind = "ladon" => pc \in {"start", "ladon", "base64", "done"}
  /\ pc = "simon" =>
       job.kind = "argus" /\ buf = Pkcs7(job.bean) /\ \E n : Ciphered(ArgusCipher, buf, out, n)
  /\ pc = "ladon" =>
       /\ job.kind = "ladon" /\ buf = Pkcs7(job.data)
       /\ \E n : Ciphered(LadonCipher(job), buf, out, n) /\ 16 * n <= PaddingSize(Len(job.data))
  /\ pc = "wrap" => job.kind = "argus" /\ Masks(job, buf)
  /\ pc = "aes" => job.kind = "argus" /\ \E s \in Text : Masks(job, s) /\ buf = Wrapped(s)
  /\ pc = "base64" => Carries(job, buf) /\ \E c : Coded64(buf, text, c)
  /\ pc = "done" /\ job.kind # "gorgon" => \E m \in Text : Carries(job, m) /\ Decoded64(text) = m

BlockInv == HeaderInv /\ BlockStages

LEMMA InitBlock == Init => BlockInv
<1>1. Init => BlockStages
  BY DEF Init, BlockStages
<1> QED
  BY <1>1, InitHeader DEF BlockInv

\* Nothing encrypted yet, and no digit written.
LEMMA NoneYet ==
  /\ \A c : \A s \in Text : Ciphered(c, s, <<>>, 0)
  /\ \A s \in Text : Coded64(s, <<>>, 0)
<1>1. 0 \in Nat /\ 16 * 0 = 0 /\ 3 * 0 = 0 /\ 4 * 0 = 0 /\ 1 .. 0 = {}
  OBVIOUS
<1>2. \A s \in Text : 0 <= Len(s) /\ 0 < Len(s) + 3
  BY TextLen
<1>3. \A c : \A s \in Text : Ciphered(c, s, <<>>, 0)
  BY <1>1, <1>2, NoneIsText DEF Ciphered
<1>4. \A s \in Text : Coded64(s, <<>>, 0)
  BY <1>1, <1>2, NoneIsText DEF Coded64
<1> QED
  BY <1>3, <1>4

LEMMA NextMultiple == \A x, y, n \in Nat : x < y /\ x = 16 * n /\ y % 16 = 0 => 16 * (n + 1) <= y
OBVIOUS

LEMMA StepBlock ==
  ASSUME Externals, BlockInv, [Next]_vars
  PROVE  BlockInv'
<1>1. HeaderInv /\ HeaderInv'
  BY StepHeader DEF BlockInv
<1> SUFFICES BlockStages'
  BY <1>1 DEF BlockInv
<1>2. BlockStages /\ job \in Job /\ buf \in Text /\ out \in Text /\ buf' \in Text
  BY <1>1, JobAssumption DEF BlockInv, HeaderInv, TypeOK
<1>3. CASE ArgusPad
  <2>1. out = <<>> /\ buf' = Pkcs7(job.bean) /\ job.kind = "argus" /\ pc' = "simon" /\ job' = job /\ out' = out
    BY <1>1, <1>3 DEF ArgusPad, HeaderInv, Stages
  <2>2. Ciphered(ArgusCipher, buf', out', 0)
    BY <1>2, <2>1, NoneYet
  <2>3. ArgusCipher' = ArgusCipher
    BY DEF ArgusCipher
  <2> QED
    BY <2>1, <2>2, <2>3 DEF BlockStages
<1>4. CASE ArgusBlock
  <2>1. /\ pc = "simon" /\ Len(out) < Len(buf) /\ pc' = pc /\ job' = job /\ buf' = buf
        /\ out' = out \o Join(Cipher!Encrypt(ArgusKeys, Pair(Slice(buf, Len(out), 16))))
    BY <1>4 DEF ArgusBlock, NextBlock
  <2>2. job.kind = "argus" /\ buf = Pkcs7(job.bean)
    BY <1>2, <2>1 DEF BlockStages
  <2>3. PICK n : Ciphered(ArgusCipher, buf, out, n)
    BY <1>2, <2>1 DEF BlockStages
  <2>4. n \in Nat /\ Len(out) = 16 * n
    BY <2>3 DEF Ciphered
  <2>5. Len(buf) \in Nat /\ Len(buf) % 16 = 0
    BY <1>1, <1>2, <2>1, TextLen DEF HeaderInv, Stages
  <2>6. 16 * (n + 1) <= Len(buf) /\ 16 \in Nat
    <3>1. 16 * (n + 1) <= Len(buf)
      BY <2>1, <2>4, <2>5, NextMultiple
    <3> QED
      BY <3>1
  <2>7. Pair(Slice(buf, Len(out), 16)) \in Block
    <3>1. Len(out) \in Nat /\ Len(out) + 16 <= Len(buf)
      BY <2>4, <2>6
    <3>2. Slice(buf, Len(out), 16) \in Text /\ Len(Slice(buf, Len(out), 16)) = 16
      BY <1>2, <2>6, <3>1, SliceIs
    <3> QED
      BY <3>2, JoinOfPair
  <2>8. out' = out \o Join(ArgusCipher[Pair(Slice(buf, Len(out), 16))])
    BY <2>1, <2>7 DEF ArgusCipher
  <2>9. Ciphered(ArgusCipher, buf, out', n + 1)
    BY <1>2, <2>3, <2>6, <2>8, CipheredMore
  <2>10. ArgusCipher' = ArgusCipher
    BY DEF ArgusCipher
  <2> QED
    BY <2>1, <2>2, <2>9, <2>10 DEF BlockStages
<1>5. CASE ArgusMask
  <2>1. /\ pc = "simon" /\ Len(out) >= Len(buf) /\ pc' = "wrap" /\ job' = job
        /\ buf' = Reverse(Masked(Prefix1 \o out))
    BY <1>5 DEF ArgusMask
  <2>2. job.kind = "argus" /\ buf = Pkcs7(job.bean)
    BY <1>2, <2>1 DEF BlockStages
  <2>3. PICK n : Ciphered(ArgusCipher, buf, out, n)
    BY <1>2, <2>1 DEF BlockStages
  <2>4. 16 * n = Len(buf)
    <3>1. n \in Nat /\ Len(out) = 16 * n /\ 16 * n <= Len(buf) /\ Len(buf) \in Nat
      BY <1>2, <2>3, TextLen DEF Ciphered
    <3> QED
      BY <2>1, <3>1
  <2>5. Masks(job, buf')
    BY <2>1, <2>2, <2>3, <2>4 DEF Masks
  <2> QED
    BY <2>1, <2>2, <2>5 DEF BlockStages, Masks, ArgusCipher
<1>6. CASE ArgusWrap
  <2>1. pc = "wrap" /\ pc' = "aes" /\ job' = job /\ buf' = Wrapped(buf)
    BY <1>6 DEF ArgusWrap, Wrapped
  <2>2. job.kind = "argus" /\ Masks(job, buf)
    BY <1>2, <2>1 DEF BlockStages
  <2> QED
    BY <1>2, <2>1, <2>2 DEF BlockStages, Masks, ArgusCipher
<1>7. CASE ArgusAes
  <2>1. pc = "aes" /\ pc' = "base64" /\ job' = job /\ text' = text /\ buf' = Magic \o Aes(buf)
    BY <1>7 DEF ArgusAes
  <2>2. job.kind = "argus" /\ text = <<>>
    BY <1>1, <1>2, <2>1 DEF BlockStages, HeaderInv, Stages
  <2>3. PICK s \in Text : Masks(job, s) /\ buf = Wrapped(s)
    BY <1>2, <2>1 DEF BlockStages
  <2>4. Carries(job, buf')
    BY <2>1, <2>2, <2>3 DEF Carries
  <2>5. Coded64(buf', text', 0)
    BY <1>2, <2>1, <2>2, NoneYet
  <2> QED
    BY <2>1, <2>2, <2>4, <2>5 DEF BlockStages, Carries, Masks, ArgusCipher, LadonCipher
<1>8. CASE LadonPad
  <2>1. out = <<>> /\ buf' = Pkcs7(job.data) /\ job.kind = "ladon" /\ pc' = "ladon" /\ job' = job /\ out' = out
    BY <1>1, <1>8 DEF LadonPad, HeaderInv, Stages
  <2>2. Ciphered(LadonCipher(job), buf', out', 0)
    BY <1>2, <2>1, NoneYet
  <2>3. 16 * 0 <= PaddingSize(Len(job.data))
    <3>1. job.data \in Text
      BY <1>2, <2>1, LadonJobIs
    <3>2. PaddingSize(Len(job.data)) \in Nat
      BY <3>1, TextLen, PadLenIs
    <3> QED
      BY <3>2
  <2> QED
    BY <2>1, <2>2, <2>3 DEF BlockStages, LadonCipher
<1>9. CASE LadonBlock
  <2>1. /\ pc = "ladon" /\ Len(out) < PaddingSize(Len(job.data)) /\ pc' = pc /\ job' = job /\ buf' = buf
        /\ out' = out \o Join(Rotor!Encrypt(LadonTable(job.random, job.aid), Pair(Slice(buf, Len(out), 16))))
    BY <1>9 DEF LadonBlock, NextBlock
  <2>2. job.kind = "ladon" /\ buf = Pkcs7(job.data) /\ job.data \in Text
    BY <1>2, <2>1, LadonJobIs DEF BlockStages
  <2>3. PICK n : Ciphered(LadonCipher(job), buf, out, n)
    BY <1>2, <2>1 DEF BlockStages
  <2>4. n \in Nat /\ Len(out) = 16 * n
    BY <2>3 DEF Ciphered
  <2>5. /\ Len(buf) \in Nat /\ PaddingSize(Len(job.data)) \in Nat /\ PaddingSize(Len(job.data)) % 16 = 0
        /\ PaddingSize(Len(job.data)) <= Len(buf)
    <3>1. PaddingSize(Len(job.data)) <= Len(Pkcs7(job.data))
      BY <2>2, PadsFit
    <3>2. PaddingSize(Len(job.data)) \in Nat /\ PaddingSize(Len(job.data)) % 16 = 0
      BY <2>2, TextLen, PadLenIs
    <3> QED
      BY <1>2, <2>2, <3>1, <3>2, TextLen
  <2>6. 16 * (n + 1) <= PaddingSize(Len(job.data)) /\ 16 * (n + 1) <= Len(buf) /\ 16 \in Nat
    <3>2. Len(out) \in Nat /\ Len(out) < PaddingSize(Len(job.data))
      BY <2>1, <2>4
    <3>1. 16 * (n + 1) <= PaddingSize(Len(job.data))
      BY <2>4, <2>5, <3>2, NextMultiple, ZenonT(40)
    <3> QED
      BY <2>4, <2>5, <3>1
  <2>7. Pair(Slice(buf, Len(out), 16)) \in Block
    <3>1. Len(out) \in Nat /\ Len(out) + 16 <= Len(buf)
      BY <2>4, <2>6
    <3>2. Slice(buf, Len(out), 16) \in Text /\ Len(Slice(buf, Len(out), 16)) = 16
      BY <1>2, <2>6, <3>1, SliceIs
    <3> QED
      BY <3>2, JoinOfPair
  <2>8. out' = out \o Join(LadonCipher(job)[Pair(Slice(buf, Len(out), 16))])
    BY <2>1, <2>7 DEF LadonCipher
  <2>9. Ciphered(LadonCipher(job), buf, out', n + 1)
    BY <1>2, <2>3, <2>6, <2>8, CipheredMore
  <2> QED
    BY <2>1, <2>2, <2>6, <2>9 DEF BlockStages, LadonCipher
<1>10. CASE LadonPrefix
  <2>1. /\ pc = "ladon" /\ Len(out) >= PaddingSize(Len(job.data)) /\ pc' = "base64" /\ job' = job
        /\ text' = text /\ buf' = job.random \o out
    BY <1>10 DEF LadonPrefix
  <2>2. job.kind = "ladon" /\ buf = Pkcs7(job.data) /\ job.data \in Text /\ text = <<>>
    BY <1>1, <1>2, <2>1, LadonJobIs DEF BlockStages, HeaderInv, Stages
  <2>3. PICK n : Ciphered(LadonCipher(job), buf, out, n) /\ 16 * n <= PaddingSize(Len(job.data))
    BY <1>2, <2>1 DEF BlockStages
  <2>4. 16 * n = PaddingSize(Len(job.data))
    <3>1. n \in Nat /\ Len(out) = 16 * n /\ PaddingSize(Len(job.data)) \in Nat
      BY <2>2, <2>3, TextLen, PadLenIs DEF Ciphered
    <3> QED
      BY <2>1, <2>3, <3>1
  <2>5. Carries(job, buf')
    BY <2>1, <2>2, <2>3, <2>4 DEF Carries
  <2>6. Coded64(buf', text', 0)
    BY <1>2, <2>1, <2>2, NoneYet
  <2> QED
    BY <2>1, <2>2, <2>5, <2>6 DEF BlockStages, Carries, Masks, ArgusCipher, LadonCipher
<1>11. CASE Base64Group
  <2> DEFINE group == SubSeq(buf, Done64 + 1, IF Done64 + 3 > Len(buf) THEN Len(buf) ELSE Done64 + 3)
  <2>1. /\ pc = "base64" /\ Done64 < Len(buf) /\ pc' = pc /\ job' = job /\ buf' = buf
        /\ text' = text \o [k \in 1 .. 4 |-> Digit(group, k)]
    BY <1>11 DEF Base64Group
  <2>2. Carries(job, buf)
    BY <1>2, <2>1 DEF BlockStages
  <2>3. PICK c : Coded64(buf, text, c)
    BY <1>2, <2>1 DEF BlockStages
  <2>4. c \in Nat /\ Len(text) = 4 * c /\ Len(buf) \in Nat
    BY <1>2, <2>3, TextLen DEF Coded64
  <2>5. Done64 = 3 * c
    <3>1. (4 * c) \div 4 = c
      BY <2>4
    <3> QED
      BY <2>4, <3>1 DEF Done64
  <2>7. group = Third(buf, c + 1)
    <3>1. group = SubSeq(buf, 3 * c + 1, IF 3 * c + 3 > Len(buf) THEN Len(buf) ELSE 3 * c + 3)
      BY <2>5
    <3> HIDE DEF group
    <3>2. c \in Nat /\ 3 * c < Len(buf)
      BY <2>1, <2>4, <2>5
    <3> HIDE DEF group
    <3> QED
      BY <1>2, <3>1, <3>2, ThirdNext
  <2> HIDE DEF group
  <2>8. Coded64(buf, text', c + 1)
    BY <1>2, <2>1, <2>3, <2>5, <2>7, CodedMore
  <2> QED
    BY <2>1, <2>2, <2>8 DEF BlockStages, Carries, Masks, ArgusCipher, LadonCipher
<1>12. CASE Base64End
  <2>1. pc = "base64" /\ Done64 >= Len(buf) /\ pc' = "done" /\ job' = job /\ text' = text
    BY <1>12 DEF Base64End
  <2>2. Carries(job, buf)
    BY <1>2, <2>1 DEF BlockStages
  <2>3. PICK c : Coded64(buf, text, c)
    BY <1>2, <2>1 DEF BlockStages
  <2>4. c \in Nat /\ Len(text) = 4 * c
    BY <2>3 DEF Coded64
  <2>5. Done64 = 3 * c
    <3>1. (4 * c) \div 4 = c
      BY <2>4
    <3> QED
      BY <2>4, <3>1 DEF Done64
  <2>6. Decoded64(text) = buf
    BY <1>2, <2>1, <2>3, <2>5, CodedOpens
  <2> QED
    BY <1>2, <2>1, <2>2, <2>6 DEF BlockStages, Carries, Masks, ArgusCipher, LadonCipher
<1>13. CASE GorgonFill \/ GorgonMix \/ GorgonMixed \/ GorgonHex
  <2>1. job' = job /\ job.kind = "gorgon" /\ pc' \in {"mix", "hex", "done"}
    BY <1>1, <1>13 DEF GorgonFill, GorgonMix, GorgonMixed, GorgonHex, HeaderInv, Stages
  <2> QED
    BY <2>1 DEF BlockStages
<1>14. CASE UNCHANGED vars
  BY <1>2, <1>14 DEF vars, BlockStages, Carries, Masks, ArgusCipher, LadonCipher
<1> QED
  BY <1>3, <1>4, <1>5, <1>6, <1>7, <1>8, <1>9, <1>10, <1>11, <1>12, <1>13, <1>14 DEF Next

LEMMA ArgusCipherUndone ==
  \A p \in Block : /\ ArgusCipher[p] \in Block
                   /\ Cipher!Decrypt(ArgusKeys, ArgusCipher[p]) = p
<1> TAKE p \in Block
<1> DEFINE ks == ArgusKeys
<1>1. \A i \in 1 .. 72 : ks[i] \in W64
  BY ArgusKeysAre
<1>2. ArgusCipher[p] = Cipher!Encrypt(ks, p)
  BY DEF ArgusCipher
<1> HIDE DEF ks
<1>3. Cipher!Encrypt(ks, p) \in Block /\ Cipher!Decrypt(ks, Cipher!Encrypt(ks, p)) = p
  BY <1>1, SimonUndone
<1> QED
  BY <1>2, <1>3 DEF ks

\* The layers of X-Argus, from the outside to the bean.
LEMMA BlockInvArgus ==
  ASSUME Externals, \A s \in Text : AesBack(Aes(s)) = s, BlockInv
  PROVE  ArgusOpens
<1> SUFFICES ASSUME pc = "done", job.kind = "argus" PROVE BeanIn(text) = job.bean
  BY DEF ArgusOpens
<1>1. job.bean \in Text
  BY JobAssumption DEF BlockInv, HeaderInv, TypeOK, Job
<1>2. PICK s \in Text : Masks(job, s) /\ Decoded64(text) = Magic \o Aes(Wrapped(s))
  <2>1. PICK m \in Text : Carries(job, m) /\ Decoded64(text) = m
    BY DEF BlockInv, BlockStages
  <2> QED
    BY <2>1 DEF Carries
<1> DEFINE padded == Pkcs7(job.bean)
<1>3. PICK o, n : Ciphered(ArgusCipher, padded, o, n) /\ 16 * n = Len(padded)
                  /\ s = Reverse(Masked(Prefix1 \o o))
  BY <1>2 DEF Masks
<1>4. padded \in Text /\ Unpadded(padded, 1 .. 16) = job.bean
  BY <1>1, PadsFit, Pkcs7Undone
<1> HIDE DEF padded
<1>5. o \in Text
  BY <1>3 DEF Ciphered
<1> DEFINE sealed == Wrapped(s)  aes == Aes(sealed)  bytes == Decoded64(text)
<1>6. sealed \in Text /\ SubSeq(sealed, 10, Len(sealed) - 2) = s
  BY EnvelopeOpens
<1> HIDE DEF sealed
<1>7. aes \in Text /\ AesBack(aes) = sealed
  BY <1>6 DEF Externals
<1> HIDE DEF aes
<1>8. SubSeq(bytes, 3, Len(bytes)) = aes
  <2>1. bytes = Magic \o aes
    BY <1>2 DEF sealed, aes
  <2>2. Magic \in Text /\ Len(Magic) = 2 /\ 2 + 1 = 3
    BY FixedBytes, FixedLens
  <2>3. SubSeq(Magic \o aes, 2 + 1, Len(Magic \o aes)) = aes
    BY <1>7, <2>2, Behind
  <2> QED
    BY <2>1, <2>2, <2>3
<1> HIDE DEF bytes
<1> DEFINE long == Prefix1 \o o  masked == Masked(long)
<1>9. long \in Text /\ Len(long) = 8 + Len(o) /\ SubSeq(long, 8 + 1, Len(long)) = o
  BY <1>5, FixedBytes, FixedLens, Behind
<1>10. Len(long) >= 8 /\ 8 + 1 = 9
  <2>1. Len(o) \in Nat
    BY <1>5, TextLen
  <2> HIDE DEF long
  <2> QED
    BY <1>9, <2>1
<1>11. s = Reverse(masked)
  BY <1>3
<1> HIDE DEF long
<1>12. masked \in Text /\ Len(masked) = Len(long) /\ Unmasked(masked) = long
  BY <1>9, <1>10, MaskUndone
<1> HIDE DEF masked
<1>13. Reverse(s) = masked
  BY <1>11, <1>12, ReverseTwice
<1>14. SubSeq(Unmasked(masked), 9, Len(masked)) = o
  BY <1>9, <1>10, <1>12
<1> DEFINE blocks == Blocks(o)
           q == [k \in DOMAIN blocks |-> Join(Cipher!Decrypt(ArgusKeys, blocks[k]))]
<1>15. BeanIn(text) = Unpadded(FlattenSeq(q), 1 .. 16)
  BY <1>6, <1>7, <1>8, <1>13, <1>14 DEF BeanIn, bytes
<1>16. FlattenSeq(q) = padded
  <2> DEFINE d == [p \in Block |-> Cipher!Decrypt(ArgusKeys, p)]
  <2>1. \A p \in Block : ArgusCipher[p] \in Block /\ d[ArgusCipher[p]] = p
    BY ArgusCipherUndone
  <2>2. \A k \in DOMAIN blocks : blocks[k] \in Block
    <3>1. n \in Nat /\ Len(o) = 16 * n
      BY <1>3 DEF Ciphered
    <3>2. Len(o) \div 16 = n
      BY <3>1
    <3>3. \A k \in 1 .. n : Slice(o, 16 * (k - 1), 16) \in Text /\ Len(Slice(o, 16 * (k - 1), 16)) = 16
      <4> TAKE k \in 1 .. n
      <4>1. k \in Nat /\ k # 0 /\ 16 * k <= Len(o)
        BY <3>1
      <4> QED
        BY <1>5, <4>1, PartIs DEF Part
    <3>4. \A k \in 1 .. n : Pair(Slice(o, 16 * (k - 1), 16)) \in Block
      BY <3>3, JoinOfPair
    <3> QED
      BY <3>2, <3>4 DEF Blocks
  <2>3. q = [k \in DOMAIN Blocks(o) |-> Join(d[Blocks(o)[k]])]
    BY <2>2
  <2> HIDE DEF d, q
  <2>4. FlattenSeq(q) = Slice(padded, 0, 16 * n)
    <3>1. PICK C, D, Q : C = ArgusCipher /\ D = d /\ Q = q
      OBVIOUS
    <3>2. \A p \in Block : C[p] \in Block /\ D[C[p]] = p
      BY <2>1, <3>1
    <3>3. Ciphered(C, padded, o, n)
      BY <1>3, <3>1
    <3>4. Q = [k \in DOMAIN Blocks(o) |-> Join(D[Blocks(o)[k]])]
      BY <2>3, <3>1
    <3>5. FlattenSeq(Q) = Slice(padded, 0, 16 * n)
      BY <1>4, <3>2, <3>3, <3>4, CipheredOpens
    <3> QED
      BY <3>1, <3>5
  <2>5. Slice(padded, 0, Len(padded)) = padded
    BY <1>4, SliceWhole
  <2> QED
    BY <1>3, <2>4, <2>5
<1> HIDE DEF q
<1> QED
  BY <1>4, <1>15, <1>16

\* Whatever the bean and the keys are: who holds the key of X-Argus reads the very
\* bean out of it that argus_get_sign serialized, if AES can be taken back.
THEOREM ArgusUndone ==
  ASSUME Externals, \A s \in Text : AesBack(Aes(s)) = s
  PROVE  Spec => []ArgusOpens
<1>1. BlockInv /\ [Next]_vars => BlockInv'
  BY StepBlock
<1>2. BlockInv => ArgusOpens
  BY BlockInvArgus
<1> QED
  BY <1>1, <1>2, InitBlock, PTL DEF Spec

--------------------------------------------------------------------------------
(* Addition and subtraction *)

\* The carry, bit by bit.
LEMMA CarryNext ==
  ASSUME NEW a \in SUBSET Nat, NEW b \in SUBSET Nat
  PROVE  /\ ~Carry(a, b, 0)
         /\ \A i \in Nat : Carry(a, b, i + 1) <=> (i \in a /\ i \in b) \/ ((i \in a \/ i \in b) /\ Carry(a, b, i))
<1>1. ~Carry(a, b, 0)
  <2>1. \A j \in a \cap b : ~(j < 0)
    OBVIOUS
  <2> QED
    BY <2>1 DEF Carry
<1>2. ASSUME NEW i \in Nat, Carry(a, b, i + 1)
      PROVE  (i \in a /\ i \in b) \/ ((i \in a \/ i \in b) /\ Carry(a, b, i))
  <2>1. PICK j \in a \cap b : j < i + 1 /\ \A k \in j + 1 .. i + 1 - 1 : k \in a \cup b
    BY <1>2 DEF Carry
  <2>2. CASE j = i
    BY <2>1, <2>2
  <2>3. CASE j # i
    <3>1. j \in Nat /\ j < i /\ i \in j + 1 .. i + 1 - 1 /\ \A k \in j + 1 .. i - 1 : k \in j + 1 .. i + 1 - 1
      BY <2>1, <2>3
    <3> QED
      BY <2>1, <3>1 DEF Carry
  <2> QED
    BY <2>2, <2>3
<1>3. ASSUME NEW i \in Nat, i \in a, i \in b PROVE Carry(a, b, i + 1)
  <2>1. i < i + 1 /\ \A k \in i + 1 .. i + 1 - 1 : k \in a \cup b
    OBVIOUS
  <2> QED
    BY <1>3, <2>1 DEF Carry
<1>4. ASSUME NEW i \in Nat, i \in a \/ i \in b, Carry(a, b, i) PROVE Carry(a, b, i + 1)
  <2>1. PICK j \in a \cap b : j < i /\ \A k \in j + 1 .. i - 1 : k \in a \cup b
    BY <1>4 DEF Carry
  <2>2. j < i + 1 /\ \A k \in j + 1 .. i + 1 - 1 : k = i \/ k \in j + 1 .. i - 1
    BY <2>1
  <2>3. \A k \in j + 1 .. i + 1 - 1 : k \in a \cup b
    BY <1>4, <2>1, <2>2
  <2> QED
    BY <2>2, <2>3 DEF Carry
<1> QED
  BY <1>1, <1>2, <1>3, <1>4

LEMMA AddBits ==
  ASSUME NEW a, NEW b, NEW i \in 0 .. 63
  PROVE  /\ Carry(a, b, i) => (i \in Add(64, a, b) <=> (i \in a <=> i \in b))
         /\ ~Carry(a, b, i) => (i \in Add(64, a, b) <=> ~(i \in a <=> i \in b))
<1>1. i \in Add(64, a, b) <=> (i \in Xor(a, b)) # Carry(a, b, i)
  BY DEF Add
<1>2. i \in Xor(a, b) <=> ~(i \in a <=> i \in b)
  BY DEF Xor
<1> DEFINE x == i \in Xor(a, b)  c == Carry(a, b, i)
<1>3. x \in BOOLEAN /\ c \in BOOLEAN
  BY DEF Carry
<1>4. \A p, q \in BOOLEAN : p # q <=> ~(p <=> q)
  OBVIOUS
<1>5. x # c <=> ~(x <=> c)
  BY <1>3, <1>4, Zenon
<1>6. i \in Add(64, a, b) <=> ~(x <=> c)
  BY <1>1, <1>5, Zenon
<1> QED
  BY <1>2, <1>6, Zenon

LEMMA AddIs == \A a, b : Add(64, a, b) \in W64
BY DEF Add, W64, Word

\* The bits of -a: those of a up to the lowest one bit, and from there on inverted.
LEMMA NegatedBits ==
  ASSUME NEW a \in W64, NEW i \in 0 .. 63
  PROVE  i \in Negated(64, a) <=> (i \in a <=> \A k \in 0 .. i - 1 : k \notin a)
<1> DEFINE n == Not(64, a)
           Low0(j) == \A k \in 0 .. j - 1 : k \notin a
           Right(j) == Carry(n, {0}, j) <=> j # 0 /\ Low0(j)
           Wrong == {j \in 0 .. 63 : ~Right(j)}
<1>1. n \in SUBSET Nat /\ {0} \in SUBSET Nat /\ \A j \in 0 .. 63 : j \in n <=> j \notin a
  BY DEF Not
<1>2. \A j \in Nat : Low0(j + 1) <=> Low0(j) /\ j \notin a
  <2>1. \A j \in Nat : \A k \in 0 .. j + 1 - 1 : k = j \/ k \in 0 .. j - 1
    OBVIOUS
  <2>2. \A j \in Nat : j \in 0 .. j + 1 - 1 /\ \A k \in 0 .. j - 1 : k \in 0 .. j + 1 - 1
    OBVIOUS
  <2> QED
    BY <2>1, <2>2
<1>3. Low0(0)
  OBVIOUS
<1> HIDE DEF n, Low0
<1>4. Right(0)
  BY <1>1, CarryNext
<1>5. ASSUME NEW j \in 0 .. 62, Right(j) PROVE Right(j + 1)
  <2>1. Carry(n, {0}, j + 1) <=> (j \in n /\ j = 0) \/ ((j \in n \/ j = 0) /\ Carry(n, {0}, j))
    BY <1>1, CarryNext
  <2>2. j + 1 # 0 /\ j \in 0 .. 63 /\ j \in Nat
    OBVIOUS
  <2>3. Low0(j + 1) <=> Low0(j) /\ j \notin a
    BY <1>2, <2>2
  <2>4. j \in n <=> j \notin a
    BY <1>1, <2>2
  <2> QED
    BY <1>3, <1>5, <2>1, <2>2, <2>3, <2>4
<1> HIDE DEF Right
<1>6. Right(i)
  <2> SUFFICES ASSUME ~Right(i) PROVE FALSE
    OBVIOUS
  <2>1. PICK m \in Wrong : \A j \in Wrong : m <= j
    <3>1. Wrong \in SUBSET Nat /\ Wrong # {}
      OBVIOUS
    <3> HIDE DEF Wrong
    <3> QED
      BY <3>1, Numbers!LeastNatural
  <2>2. m \in 0 .. 63 /\ m # 0 /\ ~Right(m)
    BY <1>4
  <2>3. m - 1 \in 0 .. 62 /\ m - 1 \in 0 .. 63 /\ m - 1 + 1 = m /\ ~(m <= m - 1)
    BY <2>2
  <2>4. Right(m - 1)
    BY <2>1, <2>3
  <2>5. Right(m - 1 + 1)
    BY <1>5, <2>3, <2>4
  <2> QED
    BY <2>2, <2>3, <2>5
<1>7. Negated(64, a) = Add(64, n, {0})
  BY DEF Negated, n
<1>8. i \in n <=> i \notin a
  BY <1>1
<1>9. /\ Carry(n, {0}, i) => (i \in Negated(64, a) <=> (i \in n <=> i = 0))
      /\ ~Carry(n, {0}, i) => (i \in Negated(64, a) <=> ~(i \in n <=> i = 0))
  BY <1>7, AddBits
<1> QED
  BY <1>3, <1>6, <1>8, <1>9 DEF Right, Low0

\* What was added can be taken off again, modulo 2^64.
LEMMA SubOfAdd ==
  ASSUME NEW a \in W64, NEW b \in W64
  PROVE  Sub(64, Add(64, a, b), a) = b
<1> DEFINE s == Add(64, a, b)  n == Negated(64, a)
           Low0(j) == \A k \in 0 .. j - 1 : k \notin a
           \* No carry and no one bit of a so far: then there is nothing to give back.
           Right(j) == /\ Carry(s, n, j) <=> ~Carry(a, b, j) /\ ~Low0(j)
                       /\ ~(Carry(a, b, j) /\ Low0(j))
           Wrong == {j \in 0 .. 63 : ~Right(j)}
<1>1. s \in W64 /\ n \in W64 /\ W64 \subseteq SUBSET Nat
  BY AddIs DEF Negated, W64, Word
<1>2. \A j \in Nat : Low0(j + 1) <=> Low0(j) /\ j \notin a
  <2>1. \A j \in Nat : \A k \in 0 .. j + 1 - 1 : k = j \/ k \in 0 .. j - 1
    OBVIOUS
  <2>2. \A j \in Nat : j \in 0 .. j + 1 - 1 /\ \A k \in 0 .. j - 1 : k \in 0 .. j + 1 - 1
    OBVIOUS
  <2> QED
    BY <2>1, <2>2
<1>3. Low0(0)
  OBVIOUS
<1>4. \A j \in 0 .. 63 : j \in n <=> (j \in a <=> Low0(j))
  BY NegatedBits
<1>5. \A j \in 0 .. 63 : /\ Carry(a, b, j) => (j \in s <=> (j \in a <=> j \in b))
                         /\ ~Carry(a, b, j) => (j \in s <=> ~(j \in a <=> j \in b))
  BY AddBits
<1> HIDE DEF s, n, Low0
<1>6. Right(0)
  BY <1>1, <1>3, CarryNext
<1>7. ASSUME NEW j \in 0 .. 62, Right(j) PROVE Right(j + 1)
  <2>1. Carry(a, b, j + 1) <=> (j \in a /\ j \in b) \/ ((j \in a \/ j \in b) /\ Carry(a, b, j))
    BY <1>1, CarryNext
  <2>2. Carry(s, n, j + 1) <=> (j \in s /\ j \in n) \/ ((j \in s \/ j \in n) /\ Carry(s, n, j))
    BY <1>1, CarryNext
  <2>3. Low0(j + 1) <=> Low0(j) /\ j \notin a
    BY <1>2
  <2>4. j \in 0 .. 63
    OBVIOUS
  <2>5. j \in n <=> (j \in a <=> Low0(j))
    BY <1>4, <2>4
  <2>6. /\ Carry(a, b, j) => (j \in s <=> (j \in a <=> j \in b))
        /\ ~Carry(a, b, j) => (j \in s <=> ~(j \in a <=> j \in b))
    BY <1>5, <2>4
  <2> QED
    BY <1>7, <2>1, <2>2, <2>3, <2>5, <2>6
<1> HIDE DEF Right
<1>8. \A i \in 0 .. 63 : Right(i)
  <2> SUFFICES ASSUME NEW i \in 0 .. 63, ~Right(i) PROVE FALSE
    OBVIOUS
  <2>1. PICK m \in Wrong : \A j \in Wrong : m <= j
    <3>1. Wrong \in SUBSET Nat /\ Wrong # {}
      OBVIOUS
    <3> HIDE DEF Wrong
    <3> QED
      BY <3>1, Numbers!LeastNatural
  <2>2. m \in 0 .. 63 /\ m # 0 /\ ~Right(m)
    BY <1>6
  <2>3. m - 1 \in 0 .. 62 /\ m - 1 \in 0 .. 63 /\ m - 1 + 1 = m /\ ~(m <= m - 1)
    BY <2>2
  <2>4. Right(m - 1)
    BY <2>1, <2>3
  <2>5. Right(m - 1 + 1)
    BY <1>7, <2>3, <2>4
  <2> QED
    BY <2>2, <2>3, <2>5
<1>9. Sub(64, s, a) = Add(64, s, n)
  BY DEF Sub, n
<1>10. ASSUME NEW i \in 0 .. 63 PROVE i \in Add(64, s, n) <=> i \in b
  <2>1. /\ Carry(s, n, i) => (i \in Add(64, s, n) <=> (i \in s <=> i \in n))
        /\ ~Carry(s, n, i) => (i \in Add(64, s, n) <=> ~(i \in s <=> i \in n))
    BY AddBits
  <2>2. Right(i)
    BY <1>8
  <2> QED
    BY <1>4, <1>5, <2>1, <2>2 DEF Right
<1>11. Add(64, s, n) \in W64 /\ b \in W64
  BY AddIs
<1>12. Add(64, s, n) = b
  <2>1. Add(64, s, n) \subseteq 0 .. 63 /\ b \subseteq 0 .. 63
    BY <1>11 DEF W64, Word
  <2> QED
    BY <1>10, <2>1
<1> QED
  BY <1>9, <1>12 DEF s

LEMMA RolOfRor ==
  ASSUME NEW a \in W64, NEW n \in 0 .. 63
  PROVE  Rol(64, Ror(64, a, n), n) = a
<1>1. a \subseteq 0 .. 63
  BY DEF W64, Word
<1>2. \A i \in 0 .. 63 : (((i - n) % 64) + n) % 64 = i
  <2> TAKE i \in 0 .. 63
  <2>1. CASE i >= n
    BY <2>1
  <2>2. CASE ~(i >= n)
    <3>1. (i - n) % 64 = i - n + 64
      BY <2>2
    <3> QED
      BY <3>1
  <2> QED
    BY <2>1, <2>2
<1>3. \A i \in a : (((i - n) % 64) + n) % 64 = i
  BY <1>1, <1>2
<1>4. Rol(64, Ror(64, a, n), n) = {(((i - n) % 64) + n) % 64 : i \in a}
  BY DEF Rol, Ror
<1> QED
  BY <1>3, <1>4

--------------------------------------------------------------------------------
(* Ladon *)

LEMMA RotorWords ==
  /\ \A w, a, b : Rotor!Add(w, a, b) = Add(w, a, b)
  /\ \A w, a : Rotor!Not(w, a) = Not(w, a)
  /\ \A w, a, n : Rotor!Rol(w, a, n) = Rol(w, a, n) /\ Rotor!Ror(w, a, n) = Ror(w, a, n)
  /\ \A n : Rotor!Bits(n) = Bits(n)
  /\ \A s, off : Rotor!FromLittle(s, off) = FromLittle(s, off)
<1>1. \A a, b, i : Rotor!Carry(a, b, i) = Carry(a, b, i)
  BY DEF Rotor!Carry, Carry
<1>2. \A a, b : Rotor!Xor(a, b) = Xor(a, b)
  BY SameWords, Zenon
<1>3. \A w, a, b : Rotor!Add(w, a, b) = Add(w, a, b)
  BY <1>1, <1>2 DEF Rotor!Add, Add
<1>4. \A w, a : Rotor!Not(w, a) = Not(w, a)
  BY DEF Rotor!Not, Not
<1>5. \A w, a, n : Rotor!Rol(w, a, n) = Rol(w, a, n) /\ Rotor!Ror(w, a, n) = Ror(w, a, n)
  BY DEF Rotor!Rol, Rol, Rotor!Ror, Ror
<1>6. \A n : Rotor!Bits(n) = Bits(n)
  BY DEF Rotor!Bits, Bits
<1>7. \A s, off : Rotor!FromLittle(s, off) = FromLittle(s, off)
  BY DEF Rotor!FromLittle, FromLittle
<1> QED
  BY <1>3, <1>4, <1>5, <1>6, <1>7, Zenon

LEMMA RotorSub == \A w, a, b : Rotor!Sub(w, a, b) = Sub(w, a, b)
<1>1. \A w, a : Rotor!Negated(w, a) = Negated(w, a)
  BY RotorWords, Zenon DEF Rotor!Negated, Negated
<1> QED
  BY <1>1, RotorWords, Zenon DEF Rotor!Sub, Sub

LEMMA Words64Too ==
  /\ \A a \in W64, n \in Int : Rol(64, a, n) \in W64 /\ Ror(64, a, n) \in W64
  /\ \A a, b : Sub(64, a, b) \in W64
  /\ \A n : Bits(n) \in W64
<1>1. \A a \in W64, n \in Int : Rol(64, a, n) \in W64 /\ Ror(64, a, n) \in W64
  BY Words64, RotorWords, Zenon
<1>2. \A a, b : Sub(64, a, b) \in W64
  BY AddIs, Zenon DEF Sub
<1>3. \A n : Bits(n) \in W64
  BY DEF Bits, W64, Word
<1> QED
  BY <1>1, <1>2, <1>3, Zenon

LEMMA RotorRoundIs ==
  ASSUME NEW p \in Block, NEW k \in W64
  PROVE  Rotor!Round(p, k) \in Block /\ Rotor!RoundBack(p, k) \in Block
         /\ Rotor!RoundBack(Rotor!Round(p, k), k) = p
<1>0. \A a, b : Xor(a, Xor(a, b)) = b /\ Xor(Xor(b, a), b) = a /\ Xor(Xor(a, b), a) = b
  BY DEF Xor
<1>1. PICK a \in W64, b \in W64 : p = <<a, b>>
  BY DEF Block
<1>2. p[1] = a /\ p[2] = b
  BY <1>1
<1>3. 8 \in Int /\ 61 \in Int /\ 8 \in 0 .. 63 /\ 61 \in 0 .. 63
  OBVIOUS
<1> DEFINE rb == Ror(64, b, 8)  ra == Ror(64, a, 61)  sum == Add(64, a, rb)
           y == Xor(k, sum)  x == Xor(y, ra)
<1>4. rb \in W64 /\ ra \in W64 /\ sum \in W64
  BY <1>3, Words64Too, AddIs, Zenon
<1>5. Rol(64, rb, 8) = b /\ Rol(64, ra, 61) = a
  BY <1>3, RolOfRor
<1>6. Sub(64, sum, a) = rb
  BY <1>4, SubOfAdd
<1>7. Rotor!Round(p, k) = <<x, y>>
  BY <1>2, SameWords, RotorWords DEF Rotor!Round
<1> HIDE DEF rb, ra, sum
<1>8. x \in W64 /\ y \in W64
  <2>1. y \in W64
    BY <1>4, Words64, Zenon
  <2> HIDE DEF y
  <2> QED
    BY <1>4, <2>1, Words64, Zenon
<1>9. Xor(x, y) = ra /\ Xor(y, k) = sum
  BY <1>0, Zenon
<1> HIDE DEF x, y
<1>10. \A e, f \in W64 : Rotor!RoundBack(<<e, f>>, k)
         = <<Rol(64, Xor(e, f), 61), Rol(64, Sub(64, Xor(f, k), Rol(64, Xor(e, f), 61)), 8)>>
  <2> TAKE e, f \in W64
  <2> DEFINE q == <<e, f>>
  <2>1. q[1] = e /\ q[2] = f
    OBVIOUS
  <2> HIDE DEF q
  <2>2. Rotor!RoundBack(q, k)
         = <<Rol(64, Xor(q[1], q[2]), 61), Rol(64, Sub(64, Xor(q[2], k), Rol(64, Xor(q[1], q[2]), 61)), 8)>>
    BY SameWords, RotorWords, RotorSub DEF Rotor!RoundBack
  <2>3. Rotor!RoundBack(q, k)
         = <<Rol(64, Xor(e, f), 61), Rol(64, Sub(64, Xor(f, k), Rol(64, Xor(e, f), 61)), 8)>>
    BY <2>1, <2>2
  <2> QED
    BY <2>3 DEF q
<1>11. \A e, f \in W64 : Rotor!RoundBack(<<e, f>>, k) \in Block
  <2> TAKE e, f \in W64
  <2>1. Xor(e, f) \in W64
    BY Words64, Zenon
  <2>2. Rol(64, Xor(e, f), 61) \in W64
    BY <1>3, <2>1, Words64Too, Zenon
  <2>3. Rol(64, Sub(64, Xor(f, k), Rol(64, Xor(e, f), 61)), 8) \in W64
    BY <1>3, Words64Too, Zenon
  <2> QED
    BY <1>10, <2>2, <2>3 DEF Block
<1>12. Rotor!RoundBack(<<x, y>>, k) = <<a, b>>
  BY <1>5, <1>6, <1>8, <1>9, <1>10
<1> QED
  BY <1>1, <1>7, <1>8, <1>11, <1>12 DEF Block

\* What encrypt_ladon makes of a block in its 34 rounds is a block, and the rounds
\* taken back in the opposite order give the block that went in.
THEOREM LadonUndone ==
  ASSUME NEW ks, \A i \in 1 .. 34 : ks[i] \in W64, NEW p \in Block
  PROVE  Rotor!Encrypt(ks, p) \in Block /\ Rotor!Decrypt(ks, Rotor!Encrypt(ks, p)) = p
<1> DEFINE r == [i \in 1 .. 34 |-> [q \in Block |-> Rotor!Round(q, ks[i])]]
           l == [i \in 1 .. 34 |-> [q \in Block |-> Rotor!RoundBack(q, ks[i])]]
           IsFrom(f) == f = [x \in (0 .. 34) \X Block |->
                               IF x[1] = 34 THEN x[2] ELSE f[<<x[1] + 1, Rotor!Round(x[2], ks[x[1] + 1])>>]]
           IsBack(b) == b = [x \in (0 .. 34) \X Block |->
                               IF x[1] = 0 THEN x[2] ELSE b[<<x[1] - 1, Rotor!RoundBack(x[2], ks[x[1]])>>]]
           f == CHOOSE f : IsFrom(f)
           b == CHOOSE b : IsBack(b)
<1>1. /\ r \in [1 .. 34 -> [Block -> Block]] /\ l \in [1 .. 34 -> [Block -> Block]]
      /\ \A i \in 1 .. 34, q \in Block : l[i][r[i][q]] = q
  BY RotorRoundIs
<1>2. \A i \in 1 .. 34, q \in Block : r[i][q] = Rotor!Round(q, ks[i]) /\ l[i][q] = Rotor!RoundBack(q, ks[i])
  OBVIOUS
<1> HIDE DEF r, l
<1>3. ASSUME NEW x \in (0 .. 34) \X Block
      PROVE  /\ x[1] # 34 => r[x[1] + 1][x[2]] = Rotor!Round(x[2], ks[x[1] + 1])
             /\ x[1] # 0 => l[x[1]][x[2]] = Rotor!RoundBack(x[2], ks[x[1]])
  <2>1. x[1] \in 0 .. 34 /\ x[2] \in Block
    OBVIOUS
  <2>2. (x[1] # 34 => x[1] + 1 \in 1 .. 34) /\ (x[1] # 0 => x[1] \in 1 .. 34)
    BY <2>1
  <2> QED
    BY <1>2, <2>1, <2>2
<1>4. \A g : IsFrom(g) <=> Forth(34, Block, r, g)
  <2> TAKE g
  <2>1. [x \in (0 .. 34) \X Block |->
           IF x[1] = 34 THEN x[2] ELSE g[<<x[1] + 1, Rotor!Round(x[2], ks[x[1] + 1])>>]]
        = [x \in (0 .. 34) \X Block |-> IF x[1] = 34 THEN x[2] ELSE g[<<x[1] + 1, r[x[1] + 1][x[2]]>>]]
    BY <1>3
  <2> QED
    BY <2>1, Zenon DEF Forth
<1>5. \A g : IsBack(g) <=> Back(34, Block, l, g)
  <2> TAKE g
  <2>1. [x \in (0 .. 34) \X Block |->
           IF x[1] = 0 THEN x[2] ELSE g[<<x[1] - 1, Rotor!RoundBack(x[2], ks[x[1]])>>]]
        = [x \in (0 .. 34) \X Block |-> IF x[1] = 0 THEN x[2] ELSE g[<<x[1] - 1, l[x[1]][x[2]]>>]]
    BY <1>3
  <2> QED
    BY <2>1, Zenon DEF Back
<1>6. 34 \in Nat
  OBVIOUS
<1> HIDE DEF IsFrom, IsBack
<1>7. Forth(34, Block, r, f)
  <2>1. \E g : IsFrom(g)
    BY <1>1, <1>4, <1>6, ForthExists
  <2>2. IsFrom(f)
    BY <2>1
  <2> QED
    BY <1>4, <2>2
<1>8. Back(34, Block, l, b)
  <2>1. \E g : IsBack(g)
    BY <1>1, <1>5, <1>6, BackExists
  <2>2. IsBack(b)
    BY <2>1
  <2> QED
    BY <1>5, <2>2
<1>9. \A q : Rotor!Encrypt(ks, q) = f[<<0, q>>] /\ Rotor!Decrypt(ks, q) = b[<<34, q>>]
  BY SameWords DEF Rotor!Encrypt, Rotor!Decrypt, Rotor!Rounds, IsFrom, IsBack
<1> HIDE DEF f, b
<1>10. f[<<0, p>>] \in Block /\ b[<<34, f[<<0, p>>]>>] = p
  <2> DEFINE n == 34
  <2>1. n \in Nat /\ Opposite(n, Block, r, l) /\ Forth(n, Block, r, f) /\ Back(n, Block, l, b)
    BY <1>1, <1>6, <1>7, <1>8 DEF Opposite
  <2> HIDE DEF n
  <2>3. PICK N, S, R, L, G, B : N = n /\ S = Block /\ R = r /\ L = l /\ G = f /\ B = b
    BY <2>1
  <2>4. N \in Nat /\ Opposite(N, S, R, L) /\ Forth(N, S, R, G) /\ Back(N, S, L, B) /\ p \in S
    BY <2>1, <2>3
  <2>2. f[<<0, p>>] \in Block /\ b[<<n, f[<<0, p>>]>>] = p
    BY <2>3, <2>4, RoundsUndone
  <2> QED
    BY <2>2 DEF n
<1> QED
  BY <1>9, <1>10

\* The key schedule: one word to begin with, and one more in each of 34 rounds.
State == [b0 : W64, b8 : W64, queue : Block, table : Seq(W64)]

LEMMA ScheduledIs ==
  ASSUME NEW s \in State, NEW i
  PROVE  Rotor!Scheduled(s, i) \in State /\ Len(Rotor!Scheduled(s, i).table) = Len(s.table) + 1
<1>1. s.b0 \in W64 /\ s.b8 \in W64 /\ s.queue \in Block /\ s.table \in Seq(W64)
  BY DEF State
<1> DEFINE sum  == Xor(Add(64, Ror(64, s.b8, 8), s.b0), Bits(i))
           word == Xor(sum, Ror(64, s.b0, 61))
<1>2. s.queue[1] \in W64 /\ s.queue[2] \in W64
  BY <1>1 DEF Block
<1>3. sum \in W64
  BY AddIs, Words64, Words64Too, Zenon
<1>4. word \in W64
  <2>1. 61 \in Int
    OBVIOUS
  <2>2. Ror(64, s.b0, 61) \in W64
    BY <1>1, <2>1, Words64Too, Zenon
  <2> HIDE DEF sum
  <2> QED
    BY <1>3, <2>2, Words64, Zenon
<1>5. Rotor!Scheduled(s, i) = [b0 |-> word, b8 |-> s.queue[1], queue |-> <<s.queue[2], sum>>,
                               table |-> Append(s.table, word)]
  BY SameWords, RotorWords DEF Rotor!Scheduled
<1> HIDE DEF sum, word
<1>6. Append(s.table, word) \in Seq(W64) /\ Len(Append(s.table, word)) = Len(s.table) + 1
  BY <1>1, <1>4, AppendProperties
<1>7. <<s.queue[2], sum>> \in Block
  BY <1>2, <1>3 DEF Block
<1> QED
  BY <1>2, <1>4, <1>5, <1>6, <1>7 DEF State

LEMMA StartIs ==
  ASSUME NEW hex \in Text, Len(hex) = 32
  PROVE  Rotor!Start(hex) \in State /\ Len(Rotor!Start(hex).table) = 1
<1> DEFINE temp == [k \in 1 .. 4 |-> FromLittle(hex, 8 * (k - 1))]
<1>1. hex \in [1 .. 32 -> Octet]
  BY TextLen
<1>2. ASSUME NEW k \in 1 .. 4 PROVE FromLittle(hex, 8 * (k - 1)) \in W64
  <2> DEFINE t == [h \in 0 .. 7 |-> hex[8 * (k - 1) + h + 1]]
  <2>1. \A h \in 0 .. 7 : 8 * (k - 1) + h + 1 \in 1 .. 32
    OBVIOUS
  <2>2. t \in [0 .. 7 -> Octet] /\ \A h \in 0 .. 7 : hex[8 * (k - 1) + h + 1] = t[h]
    BY <1>1, <2>1
  <2> HIDE DEF t
  <2> QED
    BY <2>2, LittleOf
<1>3. \A k \in 1 .. 4 : temp[k] \in W64
  BY <1>2
<1>4. Rotor!Start(hex) = [b0 |-> temp[1], b8 |-> temp[2], queue |-> <<temp[3], temp[4]>>, table |-> <<temp[1]>>]
  BY RotorWords DEF Rotor!Start
<1> HIDE DEF temp
<1>5. temp[1] \in W64 /\ temp[2] \in W64 /\ <<temp[3], temp[4]>> \in Block
  BY <1>3 DEF Block
<1>6. <<temp[1]>> \in Seq(W64) /\ Len(<<temp[1]>>) = 1
  BY <1>5
<1> QED
  BY <1>4, <1>5, <1>6 DEF State

LEMMA KeyTableIs ==
  ASSUME NEW hex \in Text, Len(hex) = 32
  PROVE  \A i \in 1 .. 34 : Rotor!KeyTable(hex)[i] \in W64
<1> DEFINE IsFrom(f) == f = [x \in (0 .. 34) \X State |->
                               IF x[1] = 34 THEN x[2] ELSE f[<<x[1] + 1, Rotor!Scheduled(x[2], x[1])>>]]
           f == CHOOSE g : IsFrom(g)
           r == [i \in 1 .. 34 |-> [q \in State |-> Rotor!Scheduled(q, i - 1)]]
<1>1. r \in [1 .. 34 -> [State -> State]] /\ \A i \in 1 .. 34, q \in State : r[i][q] = Rotor!Scheduled(q, i - 1)
  BY ScheduledIs
<1> HIDE DEF r
<1>2. ASSUME NEW x \in (0 .. 34) \X State, x[1] # 34
      PROVE  r[x[1] + 1][x[2]] = Rotor!Scheduled(x[2], x[1])
  <2>1. x[1] \in 0 .. 34 /\ x[2] \in State
    OBVIOUS
  <2>2. PICK j \in 1 .. 34 : j = x[1] + 1 /\ j - 1 = x[1]
    <3>1. x[1] + 1 \in 1 .. 34 /\ x[1] + 1 - 1 = x[1]
      BY <1>2, <2>1
    <3> QED
      BY <3>1
  <2>3. r[j][x[2]] = Rotor!Scheduled(x[2], j - 1)
    BY <1>1, <2>1
  <2> QED
    BY <2>2, <2>3, Zenon
<1>3. \A g : IsFrom(g) <=> Forth(34, State, r, g)
  <2> TAKE g
  <2>1. [x \in (0 .. 34) \X State |-> IF x[1] = 34 THEN x[2] ELSE g[<<x[1] + 1, Rotor!Scheduled(x[2], x[1])>>]]
        = [x \in (0 .. 34) \X State |-> IF x[1] = 34 THEN x[2] ELSE g[<<x[1] + 1, r[x[1] + 1][x[2]]>>]]
    BY <1>2
  <2> QED
    BY <2>1, Zenon DEF Forth
<1>4. Rotor!KeyTable(hex) = f[<<0, Rotor!Start(hex)>>].table
  <2>1. Rotor!State = State
    BY SameWords DEF Rotor!State, State
  <2> QED
    BY <2>1 DEF Rotor!KeyTable, Rotor!Rounds
<1> HIDE DEF IsFrom
<1>5. Forth(34, State, r, f)
  <2>1. 34 \in Nat
    OBVIOUS
  <2>2. \E g : IsFrom(g)
    BY <1>1, <1>3, <2>1, ForthExists
  <2>3. IsFrom(f)
    BY <2>2
  <2> QED
    BY <1>3, <2>3
<1> HIDE DEF f
<1>6. \A i \in 0 .. 34, q \in State : f[<<i, q>>] = IF i = 34 THEN q ELSE f[<<i + 1, r[i + 1][q]>>]
  BY <1>5 DEF Forth
<1> DEFINE Good(i) == \A q \in State : Len(q.table) = i + 1 => f[<<i, q>>] \in State /\ Len(f[<<i, q>>].table) = 35
           Wrong == {i \in 0 .. 34 : ~Good(i)}
<1>7. Good(34)
  <2>1. 34 \in 0 .. 34 /\ 34 + 1 = 35
    OBVIOUS
  <2> QED
    BY <1>6, <2>1
<1>8. ASSUME NEW i \in 0 .. 33, Good(i + 1) PROVE Good(i)
  <2> SUFFICES ASSUME NEW q \in State, Len(q.table) = i + 1
               PROVE  f[<<i, q>>] \in State /\ Len(f[<<i, q>>].table) = 35
    OBVIOUS
  <2>1. i \in 0 .. 34 /\ i # 34 /\ i + 1 \in 1 .. 34
    OBVIOUS
  <2>5. PICK j \in 1 .. 34 : j = i + 1
    BY <2>1
  <2>6. r[j][q] = Rotor!Scheduled(q, j - 1)
    BY <1>1
  <2>2. r[i + 1][q] = Rotor!Scheduled(q, j - 1)
    BY <2>5, <2>6, Zenon
  <2>3. PICK t \in State : t = r[i + 1][q] /\ Len(t.table) = i + 1 + 1
    BY <2>2, ScheduledIs
  <2>4. f[<<i, q>>] = f[<<i + 1, t>>]
    BY <1>6, <2>1, <2>3
  <2> QED
    BY <1>8, <2>3, <2>4
<1> HIDE DEF Good
<1>9. Good(0)
  <2> SUFFICES ASSUME ~Good(0) PROVE FALSE
    OBVIOUS
  <2>1. PICK j \in Wrong : \A i \in Wrong : i <= j
    <3>1. Wrong \in SUBSET (0 .. 34) /\ 0 \in Wrong /\ 34 \in Nat
      OBVIOUS
    <3> HIDE DEF Wrong
    <3> QED
      BY <3>1, Numbers!GreatestNatural
  <2>2. j # 34 /\ j \in 0 .. 34 /\ ~Good(j)
    BY <1>7
  <2>3. j \in 0 .. 33 /\ j + 1 \in 0 .. 34 /\ ~(j + 1 <= j)
    BY <2>2
  <2>4. Good(j + 1)
    BY <2>1, <2>3
  <2> QED
    BY <1>8, <2>2, <2>3, <2>4
<1>10. PICK q \in State : q = Rotor!Start(hex) /\ Len(q.table) = 0 + 1
  BY StartIs
<1>11. f[<<0, q>>] \in State /\ Len(f[<<0, q>>].table) = 35
  BY <1>9, <1>10 DEF Good
<1>12. PICK table \in Seq(W64) : table = f[<<0, q>>].table /\ Len(table) = 35
  BY <1>11 DEF State
<1>13. table \in [1 .. 35 -> W64]
  BY <1>12, LenProperties
<1>14. Rotor!KeyTable(hex) = table
  BY <1>4, <1>10, <1>12
<1>15. \A i \in 1 .. 34 : i \in 1 .. 35
  OBVIOUS
<1> QED
  BY <1>13, <1>14, <1>15

LEMMA LadonTableIs ==
  ASSUME Externals, NEW random \in Text, NEW aid \in Text
  PROVE  \A i \in 1 .. 34 : LadonTable(random, aid)[i] \in W64
<1> DEFINE d == Md5(random \o aid)  hex == HexBytes(d)
<1>1. random \o aid \in Text
  BY ConcatIs
<1>2. d \in Text /\ Len(d) = 16
  BY <1>1 DEF Externals
<1>3. LadonTable(random, aid) = Rotor!KeyTable(hex)
  BY DEF LadonTable
<1> HIDE DEF d
<1>4. hex \in [1 .. 2 * Len(d) -> Octet]
  BY ByteIs DEF HexBytes
<1>5. 32 \in Nat /\ 2 * Len(d) = 32
  BY <1>2
<1> HIDE DEF hex
<1>6. hex \in [1 .. 32 -> Octet]
  BY <1>4, <1>5
<1>7. hex \in Text /\ Len(hex) = 32
  BY <1>5, <1>6, FcnIsSeq, ZenonT(40) DEF Text
<1> QED
  BY <1>3, <1>7, KeyTableIs

LEMMA LadonCipherUndone ==
  ASSUME Externals, NEW j \in Job, j.kind = "ladon"
  PROVE  \A p \in Block : /\ LadonCipher(j)[p] \in Block
                          /\ Rotor!Decrypt(LadonTable(j.random, j.aid), LadonCipher(j)[p]) = p
<1> TAKE p \in Block
<1> DEFINE ks == LadonTable(j.random, j.aid)
<1>1. \A i \in 1 .. 34 : ks[i] \in W64
  BY LadonJobIs, LadonTableIs
<1>2. LadonCipher(j)[p] = Rotor!Encrypt(ks, p)
  BY DEF LadonCipher
<1> HIDE DEF ks
<1>3. Rotor!Encrypt(ks, p) \in Block /\ Rotor!Decrypt(ks, Rotor!Encrypt(ks, p)) = p
  BY <1>1, LadonUndone
<1> QED
  BY <1>2, <1>3 DEF ks

\* A digit is no padding.
LEMMA DigitIsNone == \A digit \in 0 .. 9, n \in 1 .. 15 : Bits(48 + digit) # Bits(n)
<1>1. 2 ^ 5 = 32
  OBVIOUS
<1>2. \A n : 5 \in Bits(n) <=> (n \div 32) % 2 = 1
  <2>1. \A n : 5 \in Bits(n) <=> (n \div (2 ^ 5)) % 2 = 1
    BY DEF Bits
  <2> QED
    BY <1>1, <2>1
<1>3. \A digit \in 0 .. 9 : ((48 + digit) \div 32) % 2 = 1
  OBVIOUS
<1>4. \A n \in 1 .. 15 : (n \div 32) % 2 = 0
  OBVIOUS
<1> QED
  BY <1>2, <1>3, <1>4

\* A length that is no multiple of the block is padded, one that is stays.
LEMMA PadIsNone ==
  ASSUME NEW x \in Nat
  PROVE  /\ x % 16 > 0 => PadLen(x) \in 1 .. 15 /\ PaddingSize(x) = x + PadLen(x)
         /\ ~(x % 16 > 0) => PaddingSize(x) = x
         /\ PadLen(x) \in 1 .. 16 /\ PadLen(x) \in Nat
BY DEF PadLen, PaddingSize

\* The blocks that are encrypted: the padded text, or the text that fills its
\* blocks without the padding.
LEMMA PlainOpens ==
  ASSUME NEW s \in DataStr
  PROVE  Unpadded(Slice(Pkcs7(s), 0, PaddingSize(Len(s))), 1 .. 15) = s
<1> DEFINE l == Len(s)  n == PadLen(l)  tail == Repeated(Byte(n), n)  padded == s \o tail
<1>1. s \in Text /\ l \in Nat
  BY TextLen DEF DataStr
<1>2. Pkcs7(s) = padded
  BY DEF Pkcs7
<1> HIDE DEF padded, tail
<1>3. /\ l % 16 > 0 => n \in 1 .. 15 /\ PaddingSize(l) = l + n
      /\ ~(l % 16 > 0) => PaddingSize(l) = l
      /\ n \in 1 .. 16 /\ n \in Nat
  BY <1>1, PadIsNone, Zenon
<1> HIDE DEF n
<1>4. n \in 1 .. 16 /\ n \in Nat /\ Byte(n) \in Octet
  BY <1>3, ByteIs
<1>5. tail \in Text /\ Len(tail) = n
  BY <1>4, RepeatedIs DEF tail
<1> USE DEF padded
<1> HIDE DEF n, tail
<1>6. CASE l % 16 > 0
  <2>1. padded \in Text /\ Len(padded) = l + n
    BY <1>1, <1>5, ConcatIs
  <2>2. Slice(padded, 0, l + n) = padded
    <3> HIDE DEF padded
    <3>1. Slice(padded, 0, Len(padded)) = padded
      BY <2>1, SliceWhole
    <3> QED
      BY <2>1, <3>1
  <2>3. 1 .. 15 \in SUBSET (1 .. 16) /\ n \in 1 .. 15
    BY <1>3, <1>6
  <2>4. Unpadded(s \o Repeated(Byte(n), n), 1 .. 15) = s
    BY <1>1, <1>4, <2>3, UnpaddedIs, ZenonT(40)
  <2>5. Unpadded(padded, 1 .. 15) = s
    BY <2>4 DEF tail
  <2> HIDE DEF padded
  <2> QED
    BY <1>2, <1>3, <1>6, <2>2, <2>5
<1>7. CASE ~(l % 16 > 0)
  <2>1. 0 \in Nat /\ 0 + l <= Len(s)
    BY <1>1
  <2>2. Slice(padded, 0, l) = Slice(s, 0, l)
    BY <1>1, <1>5, <2>1, SliceLeft
  <2>3. Slice(s, 0, l) = s
    BY <1>1, SliceWhole
  <2>4. \A m \in 1 .. 15 : s[Len(s)] # Bits(m)
    <3>1. PICK digit \in 0 .. 9 : s[Len(s)] = Bits(48 + digit)
      BY DEF DataStr
    <3> QED
      BY <3>1, DigitIsNone
  <2>5. Unpadded(s, 1 .. 15) = s
    BY <2>4 DEF Unpadded
  <2> HIDE DEF padded, l
  <2>6. Slice(Pkcs7(s), 0, PaddingSize(l)) = s
    BY <1>2, <1>3, <1>7, <2>2, <2>3
  <2> QED
    BY <2>5, <2>6 DEF l
<1> QED
  BY <1>6, <1>7

LEMMA BlockInvLadon ==
  ASSUME Externals, BlockInv
  PROVE  LadonOpens
<1> SUFFICES ASSUME pc = "done", job.kind = "ladon" PROVE DataIn(text, job.aid) = job.data
  BY DEF LadonOpens
<1>1. /\ job \in Job /\ job.data \in DataStr /\ job.data \in Text
      /\ job.random \in Text /\ Len(job.random) = 4 /\ job.aid \in Text
  BY JobAssumption, LadonJobIs DEF BlockInv, HeaderInv, TypeOK
<1> DEFINE padded == Pkcs7(job.data)  bytes == Decoded64(text)
<1>2. PICK o, n : /\ Ciphered(LadonCipher(job), padded, o, n) /\ 16 * n = PaddingSize(Len(job.data))
                  /\ bytes = job.random \o o
  <2>1. PICK m \in Text : Carries(job, m) /\ Decoded64(text) = m
    BY DEF BlockInv, BlockStages
  <2> QED
    BY <2>1 DEF Carries
<1>3. padded \in Text
  BY <1>1, PadsFit
<1>4. Unpadded(Slice(padded, 0, 16 * n), 1 .. 15) = job.data
  BY <1>1, <1>2, PlainOpens
<1> HIDE DEF padded
<1>5. o \in Text
  BY <1>2 DEF Ciphered
<1> HIDE DEF bytes
<1>6. SubSeq(bytes, 5, Len(bytes)) = o
  <2>1. SubSeq(job.random \o o, 4 + 1, Len(job.random \o o)) = o
    BY <1>1, <1>5, Behind
  <2>2. 4 + 1 = 5
    OBVIOUS
  <2> QED
    BY <1>2, <2>1, <2>2
<1>7. SubSeq(bytes, 1, 4) = job.random
  <2>1. 0 \in Nat /\ 4 \in Nat /\ 0 + 4 <= Len(job.random) /\ 0 + 1 = 1 /\ 0 + 4 = 4
    BY <1>1
  <2>2. Slice(job.random \o o, 0, 4) = Slice(job.random, 0, 4)
    BY <1>1, <1>5, <2>1, SliceLeft
  <2>3. Slice(job.random, 0, 4) = job.random
    BY <1>1, SliceWhole
  <2> QED
    BY <1>2, <2>1, <2>2, <2>3 DEF Slice
<1> DEFINE blocks == Blocks(o)  table == LadonTable(job.random, job.aid)
           q == [k \in DOMAIN blocks |-> Join(Rotor!Decrypt(table, blocks[k]))]
<1>8. DataIn(text, job.aid) = Unpadded(FlattenSeq(q), 1 .. 15)
  BY <1>6, <1>7 DEF DataIn, bytes
<1>9. FlattenSeq(q) = Slice(padded, 0, 16 * n)
  <2> DEFINE d == [p \in Block |-> Rotor!Decrypt(table, p)]
  <2>1. \A p \in Block : LadonCipher(job)[p] \in Block /\ d[LadonCipher(job)[p]] = p
    BY <1>1, LadonCipherUndone
  <2>2. \A k \in DOMAIN blocks : blocks[k] \in Block
    <3>1. n \in Nat /\ Len(o) = 16 * n
      BY <1>2 DEF Ciphered
    <3>2. Len(o) \div 16 = n
      BY <3>1
    <3>3. \A k \in 1 .. n : Slice(o, 16 * (k - 1), 16) \in Text /\ Len(Slice(o, 16 * (k - 1), 16)) = 16
      <4> TAKE k \in 1 .. n
      <4>1. k \in Nat /\ k # 0 /\ 16 * k <= Len(o)
        BY <3>1
      <4> QED
        BY <1>5, <4>1, PartIs DEF Part
    <3>4. \A k \in 1 .. n : Pair(Slice(o, 16 * (k - 1), 16)) \in Block
      BY <3>3, JoinOfPair
    <3> QED
      BY <3>2, <3>4 DEF Blocks
  <2> HIDE DEF table
  <2>3. q = [k \in DOMAIN Blocks(o) |-> Join(d[Blocks(o)[k]])]
    BY <2>2
  <2> HIDE DEF d, q
  <2>4. PICK C, D, Q : C = LadonCipher(job) /\ D = d /\ Q = q
    OBVIOUS
  <2>5. \A p \in Block : C[p] \in Block /\ D[C[p]] = p
    BY <2>1, <2>4
  <2>6. Ciphered(C, padded, o, n)
    BY <1>2, <2>4
  <2>7. Q = [k \in DOMAIN Blocks(o) |-> Join(D[Blocks(o)[k]])]
    BY <2>3, <2>4
  <2>8. FlattenSeq(Q) = Slice(padded, 0, 16 * n)
    BY <1>3, <2>5, <2>6, <2>7, CipheredOpens
  <2> QED
    BY <2>4, <2>8
<1> HIDE DEF q
<1> QED
  BY <1>4, <1>8, <1>9

\* Whatever the numbers, the random bytes and MD5 are: X-Ladon gives back the text
\* that ladon_encrypt printed, also where its last block is left out.
THEOREM LadonReadBack ==
  ASSUME Externals
  PROVE  Spec => []LadonOpens
<1>1. BlockInv /\ [Next]_vars => BlockInv'
  BY StepBlock
<1>2. BlockInv => LadonOpens
  BY BlockInvLadon
<1> QED
  BY <1>1, <1>2, InitBlock, PTL DEF Spec

================================================================================
