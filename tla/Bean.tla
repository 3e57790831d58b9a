---------------------------------- MODULE Bean ----------------------------------
(***************************************************************************)
(* argus_get_sign of src/src/argus.c up to the call of argus_encrypt: two  *)
(* SM3 hashes, twenty fields, two of them messages of their own, and the   *)
(* buffer they are serialized into.  The parsing of the query is           *)
(* ParamTables', the encryption HeaderBytes'.                              *)
(***************************************************************************)
EXTENDS Protobuf, Sm3

CONSTANTS
  Calls,      \* arguments of argus_get_sign, see Call
  BeanCap,    \* bytes of bean_buf (4096 in the code)
  InnerCap    \* bytes of inner15_buf and inner23_buf (64 in the code)

\* query and what parse_query_params found in it; a stub as the values of its
\* hexadecimal digits; numbers in decimal where they are used as texts.
Decimal == {t \in Text : Len(t) <= 11}
Call == [query : Text, device_id : Text, version_name : Text, stub : Seq(Word(4)),
         timestamp : Word(64), aid : Decimal, license_id : Decimal, platform : Word(64),
         sec_device_id : Text, sdk_version : Text, sdk_version_int : Word(64),
         rand_int : Word(32)]

ASSUME CallAssumption == Calls \subseteq Call

\* The length of a text in bean_buf takes two bytes at most; the longer of the two
\* messages in it takes 17.
ASSUME CapAssumption == BeanCap \in 0 .. 2 ^ 14 /\ InnerCap \in Nat /\ InnerCap >= 17

VARIABLES
  call,
  pc,       \* "body", "query", "fields", "bean", "done" or "undefined"
  bh, qh,   \* six bytes of the hashes of body and query
  fields,
  written,  \* fields serialized
  bean      \* what pb_serialize has written to bean_buf

vars == <<call, pc, bh, qh, fields, written, bean>>

TypeOK ==
  /\ call \in Calls
  /\ pc \in {"body", "query", "fields", "bean", "done", "undefined"}
  /\ bh \in Text /\ qh \in Text
  /\ fields \in Seq(Field)
  /\ written \in 0 .. Len(fields)
  /\ bean \in Seq(Octet \cup {Junk})

Init ==
  /\ call \in Calls /\ pc = "body"
  /\ bh = <<>> /\ qh = <<>> /\ fields = <<>> /\ written = 0 /\ bean = <<>>

--------------------------------------------------------------------------------
\* hex_decode_string; and what is hashed where there is nothing to hash.
Unhexed(s) == [k \in 1 .. Len(s) \div 2 |-> {b + 4 : b \in s[2 * k - 1]} \cup s[2 * k]]
Zero16     == Repeated({}, 16)

HashedBody(c)  == IF c.stub = <<>> THEN Zero16 ELSE Unhexed(c.stub)
HashedQuery(c) == IF c.query = <<>> THEN Zero16 ELSE c.query

BodyHash ==
  /\ pc = "body"
  /\ bh' = Slice(Hash(HashedBody(call)), 0, 6)
  /\ pc' = "query"
  /\ UNCHANGED <<call, qh, fields, written, bean>>

QueryHash ==
  /\ pc = "query"
  /\ qh' = Slice(Hash(HashedQuery(call)), 0, 6)
  /\ pc' = "fields"
  /\ UNCHANGED <<call, bh, fields, written, bean>>

\* 3348294860 and 2162219008.
Inner15 == <<VarintField(1, {0}), VarintField(2, {0}), VarintField(3, {0}),
             VarintField(7, W32(51090, 60620))>>
Inner23 == <<StringField(1, Octets(<<78, 88, 53, 53, 49, 74>>)), VarintField(2, Bits(8196)),
             VarintField(4, W32(32992, 55296))>>

Fields(c, bhash, qhash) == <<
  VarintField(1, Bits(1077940818)),
  VarintField(2, Bits(2)),
  VarintField(3, Cut(31, c.rand_int)),
  StringField(4, c.aid),
  StringField(5, c.device_id),
  StringField(6, c.license_id),
  StringField(7, c.version_name),
  StringField(8, c.sdk_version),
  VarintField(9, c.sdk_version_int),
  StringField(10, Repeated({}, 8)),
  VarintField(11, c.platform),
  VarintField(12, {b + 1 : b \in Cut(63, c.timestamp)}),
  StringField(13, bhash),
  StringField(14, qhash),
  StringField(15, Serialized(Inner15, InnerCap)),
  StringField(16, c.sec_device_id),
  StringField(20, Octets(<<110, 111, 110, 101>>)),
  VarintField(21, Bits(738)),
  StringField(23, Serialized(Inner23, InnerCap)),
  VarintField(25, Bits(2)) >>

BuildFields ==
  /\ pc = "fields"
  /\ fields' = Fields(call, bh, qh)
  /\ pc' = "bean"
  /\ UNCHANGED <<call, bh, qh, written, bean>>

\* Varints are written and bytes counted without a look at the capacity.  Past
\* the end of bean_buf, C says nothing of what follows.
SerializeField ==
  /\ pc = "bean" /\ written < Len(fields)
  /\ bean' = Put(bean, fields[written + 1], BeanCap)
  /\ written' = written + 1
  /\ pc' = IF Len(bean') > BeanCap THEN "undefined" ELSE "bean"
  /\ UNCHANGED <<call, bh, qh, fields>>

Return ==
  /\ pc = "bean" /\ written = Len(fields)
  /\ pc' = "done"
  /\ UNCHANGED <<call, bh, qh, fields, written, bean>>

Next == BodyHash \/ QueryHash \/ BuildFields \/ SerializeField \/ Return

Spec == Init /\ [][Next]_vars

--------------------------------------------------------------------------------
(* Properties *)

\* src/docs/COMPATIBILITY.md:66-69 keeps the quirk on purpose.  A text of 128 bytes
\* would be announced as empty.
TextsAnnounced == \A k \in DOMAIN fields : ~Quirk(Bits(Len(fields[k].data)))

DataOf(idx) == fields[CHOOSE k \in DOMAIN fields : fields[k].idx = idx].data

\* The server reads the fields that were built, in their order, and those of the
\* messages inside: each key is its own in spite of the quirk, a number keeps its
\* low 32 bits but for the one that the quirk takes, a text is whole.
BeanReads ==
  pc = "done" /\ TextsAnnounced =>
    /\ ReadsAs(bean, [k \in DOMAIN fields |-> [fields[k] EXCEPT !.varint = Received(@)]])
    /\ ReadsAs(DataOf(15), Inner15) /\ ReadsAs(DataOf(23), Inner23)

\* All that is not one of the four texts that the caller chooses: 145 bytes at most.
Overhead   == 145
TextsOf(c) == Len(c.device_id) + Len(c.version_name) + Len(c.sdk_version) + Len(c.sec_device_id)

\* Texts that leave Overhead in the buffer make a bean that stays inside it and is
\* complete to its last byte, although varints are written and texts are counted
\* whether they fit or not; a call that ends has left no text out of the bean or of
\* the two messages in it, and these have not outgrown their own, smaller buffers.
Complete ==
  /\ TypeOK
  /\ TextsOf(call) + Overhead <= BeanCap => pc # "undefined"
  /\ pc = "done" => /\ Len(bean) <= BeanCap /\ \A k \in DOMAIN bean : bean[k] # Junk
                    /\ Len(DataOf(15)) <= InnerCap /\ Len(DataOf(23)) <= InnerCap

\* Both texts are padded as SM3 demands, to whole blocks and no more of them than
\* it takes, with their length in bits at the end: at every length modulo 64, up to
\* the length that sm3_hash keeps in an int.
PadsWhole ==
  \A s \in {HashedBody(call), HashedQuery(call)} :
    Len(s) <= MaxLen => Len(Padded(s)) % 64 = 0 /\ Padded(s) = StandardPadding(s)

================================================================================
