------------------------------ MODULE SignTypes -------------------------------
(***************************************************************************)
(* What tt_sign() takes and returns (src/include/tiktoksignature/signer.h),*)
(* shared by SignApi, which says what a caller is promised, and Signer,    *)
(* which says what src/src/signer.c does.                                  *)
(*                                                                         *)
(* A string is modelled by what it was made from: an encoded parameter     *)
(* list by the sequence of its pairs (<<>> is the empty string), a raw     *)
(* body by a member of RawBodies, and a signature header by a record of    *)
(* the inputs that went into it.                                           *)
(***************************************************************************)
EXTENDS Integers, Sequences

CONSTANTS
  Calls,        \* identities of tt_sign calls, each used at most once
  Pairs,        \* parameters: a key with a value
  RawBodies,    \* non-empty raw_body strings
  Urls,         \* non-empty url strings
  UrlParams,    \* UrlParams[u]: what params_from_url reads out of u
  Requests,     \* the tt_sign_request_t values the callers pass
  Options,      \* the tt_sign_options_t values the callers pass
  Ids,          \* values of the id options and of sec_device_id
  DefaultIds,   \* the value each id option falls back to
  DeviceIds,    \* the device ids the static initializer may draw
  Word,         \* modulus of the 32-bit timestamp fields (2^32 in the code)
  MaxTime,      \* bound on the wall clock
  MayFail,      \* the failures an instance considers: "alloc", "digest"
  NULL, Unset, Fresh   \* no pointer; option left at 0; a random draw

Lists   == {"params", "payload", "cookie", "data"}
Headers == {"x_argus", "x_ladon", "x_gorgon", "x_khronos",
            "x_tt_request_ticket", "x_ss_stub"}
IdNames == {"aid", "license_id", "sdk_version", "sdk_version_int"}
Errors  == {"OK", "NULL_INPUT", "BAD_VERSION", "ALLOC"}

\* The version numbers tt_sign knows and the gorgon function each selects.
Variants == [v \in {8404, 8402, 4404, 0} |->
               IF v = 8404 THEN "v1" ELSE IF v = 8402 THEN "v2" ELSE "v3"]

\* A (pointer, count) pair of members; Readable says the entries are there.
ListField   == [ptr : Seq(Pairs) \cup {NULL}, count : Nat]
Readable(f) == f.count > 0 => f.ptr # NULL /\ f.count <= Len(f.ptr)

Request == [params : ListField, payload : ListField, cookie : ListField,
            data : ListField, url : Urls \cup {NULL},
            raw_body : RawBodies \cup {NULL}]

\* A count left over beside the NULL pointer of a body list.
StaleBody(q) == \E f \in {q.data, q.payload} : f.ptr = NULL /\ f.count > 0

Option == [timestamp : Int \cup {Unset},
           ids : [IdNames -> Ids \cup {Unset}],
           version : Int,
           sec_device_id : Ids \cup {Unset},
           gorgon_byte3 : Int \cup {Unset}, gorgon_byte7 : Int \cup {Unset},
           argus_rand : Int \cup {Unset}, ladon_random : Int \cup {Unset}]

Text   == Seq(Pairs) \cup RawBodies
Digest == [of : Text, sound : BOOLEAN]   \* sound: the digest was computed
Random == Int \cup {Fresh, Unset}

GorgonValue ==
  [kind : {"v1", "v2", "v3"}, params : Text, body : Text, cookie : Text,
   at : Int, byte3 : Random, byte7 : Random, sound : BOOLEAN]
ArgusValue ==
  [query : Text, stub : Digest, at : Int, ids : [IdNames -> Ids],
   device : Ids \cup DeviceIds, rand : Random, sound : BOOLEAN]
LadonValue ==
  [at : Int, aid : Ids, license_id : Ids, rand : Random, sound : BOOLEAN]
TimeValue  == [at : Int]
HeaderValue == GorgonValue \cup ArgusValue \cup LadonValue \cup TimeValue \cup Digest

Result == [error : Errors, strings : [Headers -> HeaderValue \cup {NULL}]]
NoStrings == [h \in Headers |-> NULL]
Failed(e) == [error |-> e, strings |-> NoStrings]

--------------------------------------------------------------------------------
\* The caller's side of the bargain: a list it points to has at least `count'
\* entries.  src/README.md:194 wants a count of 0 beside a NULL pointer as well;
\* nothing checks it, so any list may be NULL with a count left over.
ASSUME RequestAssumption ==
  /\ Requests \subseteq Request
  /\ \A q \in Requests : \A f \in {q.params, q.payload, q.cookie, q.data} :
       f.ptr # NULL => Readable(f)
ASSUME OptionAssumption  == Options \subseteq Option
ASSUME UrlAssumption     == UrlParams \in [Urls -> Seq(Pairs)]
ASSUME DefaultAssumption == DefaultIds \in [IdNames -> Ids]
ASSUME NumberAssumption  == Word \in Nat \ {0} /\ MaxTime \in Nat
ASSUME MarkAssumption ==
  /\ NULL \notin HeaderValue /\ NULL \notin Text /\ NULL \notin Urls
  /\ NULL \notin Ids \cup DeviceIds /\ NULL \notin Requests \cup Options
  /\ NULL \notin Calls
  /\ Unset \notin Ids /\ Unset \notin Int /\ Fresh \notin Int
  /\ DeviceIds # {} /\ Ids \cap DeviceIds = {}

================================================================================
