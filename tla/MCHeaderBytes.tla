----------------------------- MODULE MCHeaderBytes -----------------------------
(* X-Argus of the beans of one request with longer and longer names, X-Ladon of *)
(* texts of every length modulo 16 that matters, X-Gorgon of each version.      *)
EXTENDS HeaderBytes, TestVectors

CONSTANT MaxName   \* bound on the bytes a name is longer than in the test vector

\* The same with n more bytes of a text in it; a bean always ends with field 25.
Bean(n) == SubSeq(VectorBean, 1, 40) \o Repeated(Bits(49), n) \o SubSeq(VectorBean, 41, Len(VectorBean))

MCArgus == Octets(<<252, 120, 224, 169, 101, 122, 12, 116, 140, 229, 21, 89, 144, 60, 207, 3,
                    81, 14, 81, 211, 207, 242, 50, 215, 19, 67, 232, 138, 50, 28, 83, 4>>)

\* Any permutation of padded texts will do for AES; this one shifts and reverses.
MCAes(s)     == Reverse(Pkcs7(s))
MCAesBack(s) == Unpadded(Reverse(s), 1 .. 16)

\* MD5, of the texts that occur.
Params  == Octets(<<97, 61, 49>>)
Payload == Octets(<<120>>)
Aid     == Octets(<<49, 50, 51, 51>>)
Random  == Octets(<<1, 2, 3, 4>>)
Random2 == Octets(<<0, 255, 128, 127>>)
MCMd5(s) ==
  Octets(CASE s = <<>> -> <<212, 29, 140, 217, 143, 0, 178, 4, 233, 128, 9, 152, 236, 248, 66, 126>>
           [] s = Params -> <<56, 114, 201, 174, 63, 66, 122, 240, 190, 14, 173, 9, 208, 122, 226, 207>>
           [] s = Payload -> <<157, 212, 228, 97, 38, 140, 128, 52, 245, 200, 86, 78, 21, 92, 103, 166>>
           [] s = Random \o Aid -> <<221, 250, 79, 197, 55, 145, 12, 90, 75, 115, 203, 39, 79, 123, 218, 151>>
           [] s = Random2 \o Octets(<<48>>) ->
                <<198, 122, 120, 231, 236, 60, 11, 186, 110, 28, 210, 172, 121, 248, 225, 106>>)

\* Texts "khronos-license-aid": from five bytes, all numbers of one digit, to 44.
Data(n) == [k \in 1 .. n |-> Bits(IF k = n - 1 \/ k = n - 3 THEN 45 ELSE 48 + (k % 10))]

MCJobs ==
  [kind : {"argus"}, bean : {Bean(n) : n \in 0 .. MaxName}]
  \cup [kind : {"ladon"}, data : {Data(n) : n \in {5, 15, 16, 17, 26, 31, 32, 33, 44}},
        random : {Random}, aid : {Aid}]
  \cup [kind : {"ladon"}, data : {Data(16), Data(20)}, random : {Random2}, aid : {Octets(<<48>>)}]
  \cup [kind : {"gorgon"}, version : 1 .. 3, params : {<<>>, Params}, payload : {<<>>, Payload},
        cookie : {<<>>, Params}, unix : {{}, Bits(1700000000), 0 .. 63, {32, 40}},
        b3 : {Bits(17)}, b7 : {Bits(39)}]

--------------------------------------------------------------------------------
\* X-Ladon and the inside of X-Argus in src/testdata/vector_001.json, and the
\* values of test_simon_enc in src/tests/test_all.c.
VectorLadon == Octets(<<
  1, 2, 3, 4, 53, 69, 124, 255, 84, 72, 167, 89, 152, 41, 164, 182, 252,
  42, 198, 198, 67, 132, 63, 33, 198, 247, 230, 162, 74, 231, 232, 239,
  128, 152, 171, 9>>)
VectorWrapped == Octets(<<
  166, 110, 173, 159, 119, 1, 208, 12, 24, 237, 210, 167, 5, 161, 168,
  170, 244, 181, 136, 74, 53, 228, 19, 57, 245, 12, 121, 136, 91, 136,
  199, 171, 91, 141, 219, 106, 39, 75, 8, 236, 198, 147, 196, 85, 246,
  54, 157, 15, 255, 105, 147, 121, 139, 179, 71, 177, 123, 228, 38, 179,
  197, 232, 18, 249, 75, 78, 211, 243, 126, 116, 168, 175, 113, 172,
  196, 159, 233, 98, 163, 50, 86, 44, 17, 99, 207, 202, 83, 205, 177,
  59, 236, 43, 49, 109, 239, 60, 186, 217, 244, 80, 109, 180, 131, 94,
  71, 198, 131, 93, 97, 248, 245, 75, 212, 234, 7, 188, 191, 92, 207,
  254, 65, 122, 202, 71, 236, 242, 64, 189, 16, 189, 35, 40, 250, 232,
  174, 183, 53, 176, 114, 238, 125, 108, 161, 77, 49, 148, 59, 48, 67,
  223, 246, 80, 98, 72, 202, 102, 250, 34, 176, 246, 228, 191, 60, 25,
  18, 134, 77, 126, 45, 113, 225, 212, 53, 139, 137, 165, 119, 164, 254,
  124, 216, 145, 157, 255, 69, 193, 250, 145, 90, 4, 31, 158, 173, 207,
  6, 81, 250, 124, 50, 235, 253, 205, 71, 198, 202, 167, 119, 62, 37,
  253, 92, 63, 97, 23, 28, 181, 83, 255, 252, 247, 242, 255, 252, 247,
  242, 97, 111>>)

ASSUME LadonVector ==
  LET data  == Octets(<<49, 55, 48, 48, 48, 48, 48, 48, 48, 48, 45, 49, 54, 49, 49, 57, 50, 49,
                        55, 54, 52, 45, 49, 50, 51, 51>>)
      block(k) == Join(Rotor!Encrypt(LadonTable(Random, Aid), Pair(Slice(Pkcs7(data), 16 * k, 16))))
  IN  VectorLadon = Random \o block(0) \o block(1)

ASSUME ArgusVector ==
  LET block(k) == Join(Cipher!Encrypt(ArgusKeys, Pair(Slice(Pkcs7(VectorBean), 16 * k, 16))))
      blocks   == FlattenSeq([k \in 1 .. 13 |-> block(k - 1)])
  IN  VectorWrapped = Prefix2 \o Reverse(Masked(Prefix1 \o blocks)) \o Suffix

ASSUME SimonVector ==
  LET key == [k \in 1 .. 4 |-> FromLittle([n \in 1 .. 8 |-> Bits(8 * k - n)], 0)]
      pt  == <<FromLittle(Octets(<<105, 115, 109, 101, 115, 115, 107, 98>>), 0),
               FromLittle(Octets(<<112, 111, 108, 117, 97, 99, 109, 101>>), 0)>>
  IN  Join(Cipher!Encrypt(Cipher!Schedule(key), pt)) =
        Octets(<<80, 13, 108, 88, 228, 28, 116, 146, 14, 132, 91, 213, 203, 108, 224, 45>>)

================================================================================
