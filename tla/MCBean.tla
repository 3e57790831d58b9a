--------------------------------- MODULE MCBean ---------------------------------
(* Queries of every length modulo 64 that matters to SM3, texts up to the size   *)
(* of bean_buf and one byte beyond, numbers of both signs and with the quirk.     *)
(* One call has its numbers drawn, up to three in a row.                          *)
EXTENDS ArgusDraw, TestVectors

Xs(n) == Repeated(Bits(120), n)

\* The call behind X-Argus of src/testdata/vector_001.json; its query is described
\* there by its hash.
Vector ==
  [query |-> Xs(3), device_id |-> Octets(<<55, 52, 52, 50>> \o [k \in 1 .. 14 |-> 48] \o <<49>>),
   version_name |-> Octets(<<52, 49, 46, 57, 46, 51>>),
   stub |-> [k \in 1 .. 32 |-> Bits(<<15, 0, 4, 11, 3, 5, 0, 12, 5, 8, 10, 2, 13, 3, 3, 12,
                                      13, 4, 3, 14, 6, 13, 6, 13, 7, 6, 0, 0, 14, 4, 8, 3>>[k])],
   timestamp |-> Bits(1700000000), aid |-> Octets(<<49, 50, 51, 51>>),
   license_id |-> Octets(<<49, 54, 49, 49, 57, 50, 49, 55, 54, 52>>), platform |-> {},
   sec_device_id |-> Octets(<<115, 101, 99, 100, 101, 118>> \o [k \in 1 .. 9 |-> 48 + k] \o <<65, 66, 67, 68, 69, 70>>),
   sdk_version |-> Octets(<<118, 48, 53, 46, 48, 48, 46, 48, 54, 45, 111, 118, 45, 97, 110, 100,
                            114, 111, 105, 100>>),
   sdk_version_int |-> Bits(167775296), rand_int |-> Bits(123456789)]

\* "device_id=...": parse_query_params takes the id from the query.
DeviceQuery(n) == Octets(<<100, 101, 118, 105, 99, 101, 95, 105, 100, 61>>) \o Xs(n)
Device(n) == [Vector EXCEPT !.query = DeviceQuery(n), !.device_id = Xs(n), !.version_name = <<>>]

\* Everything as large as it gets, and an id that fills the rest of the buffer.
FullId == BeanCap - Overhead - 600
Largest(n) ==
  [Device(n) EXCEPT !.query = @ \o Octets(<<38, 118, 101, 114, 115, 105, 111, 110, 95, 110, 97, 109, 101, 61>>) \o Xs(200),
                    !.version_name = Xs(200), !.sdk_version = Xs(200), !.sec_device_id = Xs(200),
                    !.timestamp = 0 .. 63, !.platform = 0 .. 63, !.sdk_version_int = 0 .. 63,
                    !.rand_int = 0 .. 31, !.aid = Xs(11), !.license_id = Xs(11)]

MCCalls ==
  {[Vector EXCEPT !.query = Xs(n), !.device_id = <<>>, !.version_name = <<>>] :
     n \in {0, 1, 54, 55, 56, 57, 62, 63, 64, 65, 119, 120}}
  \cup {[Vector EXCEPT !.query = Xs(70), !.stub = <<>>, !.platform = 0 .. 63, !.timestamp = 1 .. 63]}
  \cup {Device(n) : n \in {126, 127, 128, 129, 300}}
  \cup {[Device(5) EXCEPT !.rand_int = r, !.sdk_version_int = i, !.timestamp = t] :
          r \in {{}, {7}, {28}, {3, 28}}, i \in {{7}, {14}, {35}}, t \in {{6}, {13}, 0 .. 62}}
  \cup {Largest(n) : n \in {FullId - 1, FullId, FullId + 1}}
MCDrawing == {c \in MCCalls : c.query = <<>>}

--------------------------------------------------------------------------------
\* Lengths that no text here has, up to the largest that sm3_hash handles.
ASSUME LongLengths ==
  \A n \in {0, 31, 32, 2 ^ 13 - 1, 2 ^ 21, 2 ^ 29 + 2 ^ 21 + 2 ^ 13 + 33, 2 ^ 30 - 1, 2 ^ 30, MaxLen} :
    Int32(n) = n /\ BigEndian(8, BitLen(n)) = LengthOctets(n)

\* The values of test_sm3_vectors in src/tests/test_all.c.
ASSUME HashVectors ==
  /\ Hash(<<>>) =
       Octets(<<26, 178, 29, 131, 85, 207, 161, 127, 142, 97, 25, 72, 49, 232, 26, 143,
                34, 190, 200, 199, 40, 254, 251, 116, 126, 208, 53, 235, 80, 130, 170, 43>>)
  /\ Hash(Octets(<<97, 98, 99>>)) =
       Octets(<<102, 199, 240, 244, 98, 238, 237, 217, 209, 242, 212, 107, 220, 16, 228, 226,
                65, 103, 196, 135, 92, 242, 247, 162, 41, 125, 160, 43, 143, 75, 168, 224>>)
  /\ Hash(Zero16) =
       Octets(<<16, 110, 52, 162, 184, 199, 187, 19, 21, 108, 253, 208, 217, 19, 121, 220,
                196, 117, 67, 220, 249, 120, 124, 104, 174, 94, 181, 130, 98, 10, 230, 232>>)
  /\ Hash(Xs(57)) =
       Octets(<<110, 162, 57, 202, 227, 169, 102, 14, 247, 219, 106, 114, 52, 94, 4, 185,
                187, 87, 45, 2, 105, 188, 60, 101, 40, 250, 166, 175, 56, 33, 57, 126>>)
  /\ Hash(Repeated(Bits(121), 120)) =
       Octets(<<139, 123, 16, 64, 114, 43, 181, 183, 93, 36, 134, 186, 97, 13, 144, 94,
                132, 82, 120, 159, 34, 149, 135, 9, 87, 173, 119, 121, 193, 40, 38, 49>>)

\* The query itself is known here by six bytes of its hash.
ASSUME BeanVector ==
  VectorBean = Serialized(Fields(Vector, Slice(Hash(Unhexed(Vector.stub)), 0, 6),
                                 Octets(<<7, 77, 122, 214, 47, 50>>)), BeanCap)

================================================================================
