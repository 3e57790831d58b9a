----------------------------- MODULE SignerProofs ------------------------------
(* Theorems about Signer, for every value of its constants: the heap, what a *)
(* caller gets, and the refinement of SignApi.                               *)
EXTENDS SignerInvariant, SequenceTheorems, TLAPS

(***************************************************************************)
(* Control: which call runs and what it may assume of its arguments.       *)
(***************************************************************************)
\* No call runs at the start.
LEMMA InitControl == Init => ControlInv
BY DEF Init, ControlInv, Busy, Started, PCs

\* Each statement of tt_sign hands control to the next, and only the early return
\* for missing arguments runs without a request and options.
LEMMA NextControl == ControlInv /\ [Next]_vars => ControlInv'
<1> SUFFICES ASSUME ControlInv, [Next]_vars PROVE ControlInv'
  OBVIOUS
<1> USE DEF ControlInv, Busy, Started, PCs, req, opts
<1>1. CASE Tick
  BY <1>1 DEF Tick, history, locals
<1>2. ASSUME NEW c \in Calls, NEW q \in Requests \cup {NULL},
             NEW o \in Options \cup {NULL}, Call(c, q, o)
      PROVE  ControlInv'
  BY <1>2 DEF Call
<1>3. CASE NullInput
  BY <1>3 DEF NullInput, Return
<1>4. CASE ReadClock
  BY <1>4 DEF ReadClock, Goto, history
<1>5. CASE MergeBody
  BY <1>5 DEF MergeBody, Goto, history
<1>6. CASE TakeParams
  BY <1>6 DEF TakeParams, Goto, history
<1>7. CASE EncodeLists
  BY <1>7 DEF EncodeLists, Goto, history
<1>7n. CASE ReadNull
  BY <1>7n DEF ReadNull, Goto, history
<1>8. CASE TakeRawBody
  BY <1>8 DEF TakeRawBody, Goto, history
<1>9. CASE HashBody
  BY <1>9 DEF HashBody, Goto, history
<1>10. CASE Gorgon
  BY <1>10 DEF Gorgon, Goto, history
<1>11. CASE BadVersion
  BY <1>11 DEF BadVersion, Return
<1>12. CASE InitDeviceId
  BY <1>12 DEF InitDeviceId, Goto, history
<1>13. CASE Argus
  BY <1>13 DEF Argus, Goto, history
<1>14. CASE Ladon
  BY <1>14 DEF Ladon, Goto, history
<1>15. CASE Finish
  BY <1>15 DEF Finish, Return
<1>16. CASE OutOfMemory
  BY <1>16 DEF OutOfMemory, history
<1>17. ASSUME NEW c \in Calls, Free(c) PROVE ControlInv'
  BY <1>17 DEF Free
<1>18. CASE UNCHANGED vars
  BY <1>18 DEF vars, history
<1> QED
  BY <1>1, <1>2, <1>3, <1>4, <1>5, <1>6, <1>7, <1>7n, <1>8, <1>9, <1>10, <1>11, <1>12,
     <1>13, <1>14, <1>15, <1>16, <1>17, <1>18 DEF Next, Step

\* Every statement after the NULL check runs for an active call that has its
\* request and options.
THEOREM Control == Spec => []ControlInv
BY InitControl, NextControl, PTL DEF Spec

(***************************************************************************)
(* Data: every variable has its type.  What makes this inductive is that   *)
(* there is a device id when X-Argus is made.                              *)
(***************************************************************************)
\* Of the four lists tt_sign picks out of a request, params and cookie can be read
\* to their count, and the two bodies unless one of them was NULL with a count.
LEMMA ListChoice ==
  ASSUME NEW q \in Requests
  PROVE  /\ DataList(q) \in ListField /\ PayloadList(q) \in ListField
         /\ Readable(DataList(q)) /\ Readable(PayloadList(q)) <=> ~StaleBody(q)
         /\ ParamsList(q) \in ListField /\ Readable(ParamsList(q))
         /\ CookieList(q) \in ListField /\ Readable(CookieList(q))
         /\ UrlTable(q) \in Seq(Pairs) \cup {NULL}
<1>1. q \in Request
  BY RequestAssumption
<1>2. /\ q.params.ptr # NULL => Readable(q.params)
      /\ q.cookie.ptr # NULL => Readable(q.cookie)
      /\ q.data.ptr # NULL => Readable(q.data)
      /\ q.payload.ptr # NULL => Readable(q.payload)
  BY RequestAssumption
<1>3. UrlTable(q) \in Seq(Pairs) \cup {NULL}
  BY <1>1, UrlAssumption DEF UrlTable, UsesUrl, Request
<1>4. NoList \in ListField /\ Readable(NoList)
  BY DEF NoList, ListField, Readable
<1>5. TableList(UrlTable(q)) \in ListField /\ Readable(TableList(UrlTable(q)))
  BY <1>3, <1>4 DEF TableList, ListField, Readable
<1>6. /\ q.data \in ListField /\ q.payload \in ListField
      /\ q.data.count \in Nat /\ q.payload.count \in Nat
  BY <1>1 DEF Request, ListField
<1>7. Readable(q.data) /\ Readable(q.payload) <=> ~StaleBody(q)
  BY <1>2 DEF Readable, StaleBody
<1>8. q.data.count = 0 \/ q.payload.count = 0 =>
        /\ q.data.count = 0 => Readable(q.data)
        /\ q.payload.count = 0 => Readable(q.payload)
  BY DEF Readable
<1>9. Readable(DataList(q)) /\ Readable(PayloadList(q)) <=> ~StaleBody(q)
  BY <1>6, <1>7, <1>8 DEF DataList, PayloadList
<1>10. DataList(q) \in ListField /\ PayloadList(q) \in ListField
  BY <1>6 DEF DataList, PayloadList
<1> QED
  BY <1>1, <1>2, <1>3, <1>4, <1>5, <1>9, <1>10
  DEF ParamsList, CookieList, Request, ListField

\* to_url_params and url_encode_params make a text of a readable list.
LEMMA EncodedIsText ==
  ASSUME NEW f \in ListField, Readable(f)
  PROVE  Encoded(f) \in Seq(Pairs)
<1>1. CASE f.count = 0
  BY <1>1 DEF Encoded
<1>2. CASE f.count # 0
  <2>1. f.ptr \in Seq(Pairs) /\ f.count \in Nat /\ 1 <= f.count /\ f.count <= Len(f.ptr)
    BY <1>2 DEF ListField, Readable
  <2>2. \A i \in 1 .. f.count : f.ptr[i] \in Pairs
    BY <2>1
  <2> QED
    BY <1>2, <2>1, <2>2, SubSeqProperties DEF Encoded
<1> QED
  BY <1>1, <1>2

\* The random bytes of X-Gorgon, pinned or drawn.
LEMMA PinTypes ==
  ASSUME NEW pin \in Int \cup {Unset}
  PROVE  Draw(pin) \in Random /\ HighNibble(pin) \in Random
BY DEF Draw, HighNibble, Random

\* The gorgon functions make an X-Gorgon value.
LEMMA GorgonType ==
  ASSUME TypeInv, pc = "gorgon", opts.version \in DOMAIN Variants, NEW s \in BOOLEAN
  PROVE  GorgonHeader(Variants[opts.version], s) \in GorgonValue
<1>1. opts \in Option
  BY OptionAssumption DEF TypeInv, ControlInv, Started
<1>2. unix_ts % Word \in Int
  BY NumberAssumption DEF TypeInv, DataInv
<1>3. Variants[opts.version] \in {"v1", "v2", "v3"}
  BY DEF Variants
<1>4. /\ Draw(opts.gorgon_byte3) \in Random
      /\ HighNibble(opts.gorgon_byte7) \in Random /\ Unset \in Random
  BY <1>1, PinTypes DEF Option, Random
<1> QED
  BY <1>2, <1>3, <1>4 DEF GorgonHeader, GorgonValue, TypeInv, DataInv, Lists

\* A numeric or version option, given or defaulted, is an id.
LEMMA IdType ==
  ASSUME TypeInv, Started, NEW n \in IdNames
  PROVE  Id(n) \in Ids
BY OptionAssumption, DefaultAssumption DEF TypeInv, ControlInv, Option, Id

\* argus_get_sign makes an X-Argus value; it needs a device id, and has one.
LEMMA ArgusType ==
  ASSUME TypeInv, pc = "argus", NEW s \in BOOLEAN
  PROVE  ArgusHeader(s) \in ArgusValue
<1>1. opts \in Option
  BY OptionAssumption DEF TypeInv, ControlInv, Started
<1>2. (2 * unix_ts) % Word \in Int
  BY NumberAssumption DEF TypeInv, DataInv
<1>3. [n \in IdNames |-> Id(n)] \in [IdNames -> Ids]
  BY IdType DEF Started
<1>4. DeviceId \in Ids \cup DeviceIds
  BY <1>1 DEF DeviceId, TypeInv, DataInv, DeviceKnown, Option
<1>5. ArgusRand \in Random
  BY <1>1 DEF ArgusRand, Random, Option
<1> QED
  BY <1>2, <1>3, <1>4, <1>5 DEF ArgusHeader, ArgusValue, TypeInv, DataInv, Lists

\* ladon_encrypt makes an X-Ladon value.
LEMMA LadonType ==
  ASSUME TypeInv, pc = "ladon", NEW s \in BOOLEAN
  PROVE  LadonHeader(s) \in LadonValue
<1>1. opts \in Option
  BY OptionAssumption DEF TypeInv, ControlInv, Started
<1>2. Id("aid") \in Ids /\ Id("license_id") \in Ids
  BY IdType DEF Started, IdNames
<1>3. Draw(opts.ladon_random) \in Random
  BY <1>1, PinTypes DEF Option
<1> QED
  BY <1>2, <1>3 DEF LadonHeader, LadonValue, TypeInv, DataInv

\* What every return leaves behind, whatever it returns.
LEMMA ReturnTypes ==
  ASSUME TypeInv, cur \in Calls, NEW r \in Result, Return(r)
  PROVE  /\ began' \in [Calls -> 0..MaxTime]
         /\ result' \in [Calls -> Result]
         /\ unix_ts' \in Int
         /\ lists' \in [Lists -> ListField]
         /\ url_params' \in Seq(Pairs) \cup {NULL}
         /\ str' \in [Lists -> Text]
         /\ stub' \in Digest
         /\ sig' \in [Headers -> HeaderValue \cup {NULL}]
BY DEF Return, TypeInv, DataInv, NoList, ListField, Text, Digest, NoStrings

\* A result without strings is a result.
LEMMA FailedType == \A e \in Errors : Failed(e) \in Result
BY DEF Failed, Result, NoStrings

\* Blaming the running call keeps the set of faulty calls.
LEMMA BlameType ==
  ASSUME cur \in Calls, faulty \subseteq Calls, NEW b, Blame(b)
  PROVE  faulty' \subseteq Calls
<1>1. faulty' = faulty \/ faulty' = faulty \cup {cur}
  BY Zenon DEF Blame
<1> QED
  BY <1>1

\* The types hold at the start.
LEMMA InitData == Init => TypeInv
<1> SUFFICES ASSUME Init PROVE TypeInv
  OBVIOUS
<1>1. ControlInv
  BY InitControl
<1>2. DataInv
  BY FailedType, NumberAssumption
  DEF Init, DataInv, NoList, ListField, Text, Digest, NoStrings, Errors
<1>3. DeviceKnown
  BY DEF Init, DeviceKnown
<1> QED
  BY <1>1, <1>2, <1>3 DEF TypeInv

\* Every statement keeps the types.
LEMMA NextData == TypeInv /\ [Next]_vars => TypeInv'
<1> SUFFICES ASSUME TypeInv, [Next]_vars PROVE TypeInv'
  OBVIOUS
<1>0. ControlInv'
  BY NextControl DEF TypeInv
<1> SUFFICES DataInv' /\ DeviceKnown'
  BY <1>0 DEF TypeInv
<1> USE DEF TypeInv, DeviceKnown
<1>c. /\ Busy => cur \in Calls
      /\ Started => req \in Requests /\ opts \in Options
  BY DEF ControlInv
<1>1. CASE Tick
  BY <1>1, NumberAssumption DEF Tick, DataInv, history, heap, locals, opts
<1>2. ASSUME NEW c \in Calls, NEW q \in Requests \cup {NULL},
             NEW o \in Options \cup {NULL}, Call(c, q, o)
      PROVE  DataInv' /\ DeviceKnown'
  BY <1>2 DEF Call, DataInv, statics, heap, locals
<1>3. CASE NullInput
  <2>1. Failed("NULL_INPUT") \in Result
    BY FailedType DEF Errors
  <2> QED
    BY <1>3, <1>c, <2>1, ReturnTypes
    DEF NullInput, Return, DataInv, statics, heap, Busy
<1>4. CASE ReadClock
  <2>0. opts \in Options
    BY <1>4, <1>c DEF ReadClock, Goto, ControlInv, Busy, opts
  <2>1. opts.timestamp \in Int \cup {Unset}
    BY <2>0, OptionAssumption DEF Option
  <2>2. unix_ts' \in Int
    BY <1>4, <2>1 DEF ReadClock, DataInv
  <2> QED
    BY <1>4, <2>2 DEF ReadClock, Goto, DataInv, statics, history, heap
<1>5. CASE MergeBody
  <2>1. req \in Requests
    BY <1>5, <1>c DEF MergeBody, Goto, Started
  <2>2. lists' \in [Lists -> ListField]
    BY <1>5, <2>1, ListChoice DEF MergeBody, DataInv, Lists
  <2> QED
    BY <1>5, <2>2 DEF MergeBody, Goto, DataInv, statics, history, heap
<1>6. CASE TakeParams
  <2>1. req \in Requests
    BY <1>6, <1>c DEF TakeParams, Goto, Started
  <2>2. lists' \in [Lists -> ListField]
    BY <1>6, <2>1, ListChoice DEF TakeParams, Goto, DataInv, Lists
  <2> QED
    BY <1>6, <2>1, <2>2, ListChoice DEF TakeParams, Goto, DataInv, statics, history
<1>7. CASE EncodeLists
  <2>1. \A l \in Lists : Encoded(lists[l]) \in Seq(Pairs)
    BY <1>7, EncodedIsText DEF EncodeLists, Goto, DataInv
  <2>2. str' \in [Lists -> Text]
    BY <1>7, <2>1 DEF EncodeLists, Text
  <2> QED
    BY <1>7, <2>2 DEF EncodeLists, Goto, DataInv, statics, history
<1>7n. CASE ReadNull
  BY <1>7n DEF ReadNull, Goto, DataInv, statics, history, heap, locals
<1>8. CASE TakeRawBody
  <2>1. req.raw_body \in RawBodies \cup {NULL}
    BY <1>8, <1>c, RequestAssumption DEF TakeRawBody, Goto, Started, Request
  <2>2. str' \in [Lists -> Text]
    BY <1>8, <2>1 DEF TakeRawBody, DataInv, Text
  <2> QED
    BY <1>8, <2>2 DEF TakeRawBody, Goto, DataInv, statics, history, heap
<1>9. CASE HashBody
  <2>1. PICK s \in Succeeds({"digest"}) :
          stub' = [of |-> str["data"], sound |-> s] /\ Blame(~s)
    BY <1>9 DEF HashBody
  <2>2. stub' \in Digest
    BY <2>1 DEF Succeeds, DataInv, Digest, Lists
  <2>3. faulty' \subseteq Calls
    BY <1>9, <1>c, <2>1, BlameType DEF HashBody, Goto, DataInv, Busy
  <2> QED
    BY <1>9, <2>2, <2>3 DEF HashBody, Goto, DataInv, statics, history
<1>10. CASE Gorgon
  <2>1. PICK s \in Succeeds({"digest"}), lost \in Missing({"x_khronos", "x_tt_request_ticket"}) :
          /\ sig' = [sig EXCEPT
               !["x_gorgon"]  = GorgonHeader(Variants[opts.version], s),
               !["x_khronos"] = IF "x_khronos" \in lost THEN NULL ELSE [at |-> unix_ts],
               !["x_tt_request_ticket"] =
                 IF "x_tt_request_ticket" \in lost THEN NULL ELSE [at |-> 1000 * unix_ts]]
          /\ Blame(~s \/ lost # {})
    BY <1>10, ZenonT(40) DEF Gorgon
  <2>2. s \in BOOLEAN
    BY DEF Succeeds
  <2>3. GorgonHeader(Variants[opts.version], s) \in HeaderValue
    BY <1>10, <2>2, GorgonType DEF Gorgon, Goto, HeaderValue
  <2>4. [at |-> unix_ts] \in HeaderValue /\ [at |-> 1000 * unix_ts] \in HeaderValue
    BY DEF DataInv, HeaderValue, TimeValue
  <2>5. sig' \in [Headers -> HeaderValue \cup {NULL}]
    <3> DEFINE k == IF "x_khronos" \in lost THEN NULL ELSE [at |-> unix_ts]
               t == IF "x_tt_request_ticket" \in lost THEN NULL ELSE [at |-> 1000 * unix_ts]
               g == GorgonHeader(Variants[opts.version], s)
    <3>1. /\ k \in HeaderValue \cup {NULL} /\ t \in HeaderValue \cup {NULL}
          /\ g \in HeaderValue
      BY <2>3, <2>4
    <3>2. sig' = [sig EXCEPT !["x_gorgon"] = g, !["x_khronos"] = k,
                             !["x_tt_request_ticket"] = t]
      BY <2>1
    <3> HIDE DEF k, t, g
    <3> QED
      BY <3>1, <3>2 DEF DataInv
  <2>6. faulty' \subseteq Calls
    BY <1>10, <1>c, <2>1, BlameType DEF Gorgon, Goto, DataInv, Busy
  <2> QED
    BY <1>10, <2>5, <2>6 DEF Gorgon, Goto, DataInv, statics, history
<1>11. CASE BadVersion
  <2>1. Failed("BAD_VERSION") \in Result
    BY FailedType DEF Errors
  <2> QED
    BY <1>11, <1>c, <2>1, ReturnTypes
    DEF BadVersion, Return, DataInv, statics, Busy
<1>12. CASE InitDeviceId
  <2>1. /\ default_sec_dev' \in DeviceIds \cup {NULL}
        /\ opts.sec_device_id # Unset \/ default_sec_dev' # NULL
    BY <1>12, MarkAssumption DEF InitDeviceId, NeedsDevice, DataInv
  <2> QED
    BY <1>12, <2>1 DEF InitDeviceId, Goto, DataInv, history, heap, locals, opts
<1>13. CASE Argus
  <2>1. PICK s \in Succeeds({"digest", "alloc"}), lost \in Missing({"x_argus"}) :
          /\ sig' = [sig EXCEPT !["x_argus"] = IF lost # {} THEN NULL ELSE ArgusHeader(s)]
          /\ Blame(~s \/ lost # {})
    BY <1>13 DEF Argus
  <2>2. s \in BOOLEAN
    BY DEF Succeeds
  <2>3. ArgusHeader(s) \in HeaderValue
    BY <1>13, <2>2, ArgusType DEF Argus, Goto, HeaderValue
  <2>4. sig' \in [Headers -> HeaderValue \cup {NULL}]
    BY <2>1, <2>3 DEF DataInv
  <2>5. faulty' \subseteq Calls
    BY <1>13, <1>c, <2>1, BlameType DEF Argus, Goto, DataInv, Busy
  <2> QED
    BY <1>13, <2>4, <2>5 DEF Argus, Goto, DataInv, statics, history
<1>14. CASE Ladon
  <2>1. PICK s \in Succeeds({"digest"}) :
          sig' = [sig EXCEPT !["x_ladon"] = LadonHeader(s)] /\ Blame(~s)
    BY <1>14 DEF Ladon
  <2>2. s \in BOOLEAN
    BY DEF Succeeds
  <2>3. LadonHeader(s) \in HeaderValue
    BY <1>14, <2>2, LadonType DEF Ladon, Goto, HeaderValue
  <2>4. sig' \in [Headers -> HeaderValue \cup {NULL}]
    BY <2>1, <2>3 DEF DataInv
  <2>5. faulty' \subseteq Calls
    BY <1>14, <1>c, <2>1, BlameType DEF Ladon, Goto, DataInv, Busy
  <2> QED
    BY <1>14, <2>4, <2>5 DEF Ladon, Goto, DataInv, statics, history
<1>15. CASE Finish
  <2> DEFINE S(lost) == [sig EXCEPT !["x_ss_stub"] = IF lost # {} THEN NULL ELSE stub]
             R(lost) == [error |-> IF \E h \in Checked : S(lost)[h] = NULL THEN "ALLOC" ELSE "OK",
                         strings |-> S(lost)]
  <2>1. PICK lost \in Missing({"x_ss_stub"}) : Blame(lost # {}) /\ Return(R(lost))
    BY <1>15 DEF Finish
  <2>2. R(lost) \in Result
    BY DEF Result, Errors, DataInv, HeaderValue
  <2>3. faulty' \subseteq Calls
    BY <1>15, <1>c, <2>1, BlameType DEF Finish, DataInv, Busy
  <2> HIDE DEF R
  <2> QED
    BY <1>15, <1>c, <2>1, <2>2, <2>3, ReturnTypes
    DEF Finish, Return, DataInv, statics, Busy
<1>16. CASE OutOfMemory
  <2>1. cur \in Calls
    BY <1>16, <1>c DEF OutOfMemory, UncheckedAllocation, Busy
  <2> QED
    BY <1>16, <2>1 DEF OutOfMemory, Blame, DataInv, statics, history, locals
<1>17. ASSUME NEW c \in Calls, Free(c)
       PROVE  DataInv' /\ DeviceKnown'
  <2>1. Cleared(result[c]) \in Result
    BY FailedType DEF Cleared, Errors
  <2> QED
    BY <1>17, <2>1 DEF Free, DataInv, statics, locals
<1>18. CASE UNCHANGED vars
  BY <1>18 DEF vars, DataInv, statics, history, heap, locals, opts
<1> QED
  BY <1>1, <1>2, <1>3, <1>4, <1>5, <1>6, <1>7, <1>7n, <1>8, <1>9, <1>10, <1>11, <1>12,
     <1>13, <1>14, <1>15, <1>16, <1>17, <1>18 DEF Next, Step

(***************************************************************************)
(* The heap: at every statement, each live block has exactly one owner.    *)
(***************************************************************************)
\* At the start nothing is allocated and nobody points to anything.
LEMMA InitHeap == Init => HeldInv
<1> SUFFICES ASSUME Init PROVE LocalInv /\ HeapInv
  BY InitData DEF HeldInv
<1>1. LocalInv
  BY DEF Init, LocalInv, HasTable, HasStrings, Variant, MadeBefore, NoStrings, Failed
<1>2. HeapInv
  BY DEF Init, HeapInv, Owns, HasStrings, Variant, NoStrings, Failed, GaveUp
<1> QED
  BY <1>1, <1>2

\* Which blocks the running call can have made by which statement.
LEMMA NextLocal == HeldInv /\ [Next]_vars => LocalInv'
<1> SUFFICES ASSUME HeldInv, [Next]_vars PROVE LocalInv'
  OBVIOUS
<1> USE DEF HeldInv, LocalInv, HasTable, HasStrings, Variant, MadeBefore, Busy, req, opts
<1>0. TypeInv
  OBVIOUS
<1>c. /\ Busy => cur \in Calls /\ phase[cur] = "active"
      /\ phase \in [Calls -> {"new", "active", "returned", "freed"}]
      /\ request \in [Calls -> Requests \cup {NULL}]
      /\ option \in [Calls -> Options \cup {NULL}]
      /\ sig \in [Headers -> HeaderValue \cup {NULL}]
      /\ result \in [Calls -> Result]
  BY DEF TypeInv, ControlInv, DataInv
<1>1. CASE Tick
  BY <1>1 DEF Tick, history, heap, locals
<1>2. ASSUME NEW c \in Calls, NEW q \in Requests \cup {NULL},
             NEW o \in Options \cup {NULL}, Call(c, q, o)
      PROVE  LocalInv'
  BY <1>2, <1>c DEF Call, statics, heap, locals
<1>3. CASE NullInput
  BY <1>3, <1>c DEF NullInput, Return, NoStrings, Failed
<1>4. CASE ReadClock
  BY <1>4, <1>c DEF ReadClock, Goto, history
<1>5. CASE MergeBody
  BY <1>5, <1>c DEF MergeBody, Goto, history
<1>6. CASE TakeParams
  BY <1>6, <1>c DEF TakeParams, Goto, history
<1>7. CASE EncodeLists
  BY <1>7, <1>c DEF EncodeLists, Goto, history
<1>7n. CASE ReadNull
  BY <1>7n, <1>c DEF ReadNull, Goto, history, locals
<1>8. CASE TakeRawBody
  BY <1>8, <1>c DEF TakeRawBody, Goto, history
<1>9. CASE HashBody
  BY <1>9, <1>c DEF HashBody, Goto, history
<1>10. CASE Gorgon
  BY <1>10, <1>c DEF Gorgon, Goto, history, Headers
<1>11. CASE BadVersion
  BY <1>11, <1>c DEF BadVersion, Return, NoStrings, Failed
<1>12. CASE InitDeviceId
  BY <1>12, <1>c DEF InitDeviceId, Goto, history, locals
<1>13. CASE Argus
  BY <1>13, <1>c DEF Argus, Goto, history, Headers
<1>14. CASE Ladon
  BY <1>14, <1>c DEF Ladon, Goto, history, Headers
<1>15. CASE Finish
  BY <1>15, <1>c DEF Finish, Return, NoStrings
<1>16. CASE OutOfMemory
  BY <1>16, <1>c DEF OutOfMemory, history, locals
<1>17. ASSUME NEW c \in Calls, Free(c) PROVE LocalInv'
  BY <1>17, <1>c DEF Free, locals
<1>18. CASE UNCHANGED vars
  BY <1>18 DEF vars, history, locals
<1> QED
  BY <1>1, <1>2, <1>3, <1>4, <1>5, <1>6, <1>7, <1>7n, <1>8, <1>9, <1>10, <1>11, <1>12,
     <1>13, <1>14, <1>15, <1>16, <1>17, <1>18 DEF Next, Step

\* Membership in the named sets of blocks.
LEMMA Blocks ==
  ASSUME NEW d, NEW x, NEW c, NEW o
  PROVE  /\ <<c, o>> \in StringBlocks(d) <=> c = d /\ o \in Lists
         /\ \A s : <<c, o>> \in HeaderBlocks(d, s) <=> c = d /\ o \in Headers /\ s[o] # NULL
         /\ <<c, o>> \in UrlBlock(d, x) <=> c = d /\ o = "url_params" /\ x # NULL
BY DEF StringBlocks, HeaderBlocks, UrlBlock

\* Every named block has a call and an owner.
LEMMA BlocksOwned ==
  ASSUME NEW d \in Calls, NEW x
  PROVE  /\ StringBlocks(d) \subseteq Calls \X Owners
         /\ \A s : HeaderBlocks(d, s) \subseteq Calls \X Owners
         /\ UrlBlock(d, x) \subseteq Calls \X Owners
BY DEF StringBlocks, HeaderBlocks, UrlBlock, Owners

\* Every statement that allocates gives the block an owner, and every free takes
\* the block and its owner together; the table of a refused call goes to LostTables.
LEMMA NextHeap == HeldInv /\ [Next]_vars => HeapInv'
<1> SUFFICES ASSUME HeldInv, [Next]_vars PROVE HeapInv'
  OBVIOUS
<1>l. LocalInv' /\ TypeInv'
  BY NextLocal, NextData DEF HeldInv
<1>c. /\ Busy => cur \in Calls /\ phase[cur] = "active"
      /\ phase \in [Calls -> {"new", "active", "returned", "freed"}]
      /\ request \in [Calls -> Requests \cup {NULL}]
      /\ option \in [Calls -> Options \cup {NULL}]
      /\ sig \in [Headers -> HeaderValue \cup {NULL}]
      /\ result \in [Calls -> Result]
      /\ live \subseteq Calls \X Owners
  BY DEF HeldInv, TypeInv, ControlInv, DataInv, HeapInv
<1>d. Lists \cap Headers = {} /\ "url_params" \notin Lists \cup Headers
  BY DEF Lists, Headers
<1>v. HeaderValue \cap {NULL} = {}
  BY MarkAssumption
<1> USE DEF HasTable, HasStrings, Variant, MadeBefore, Busy, req, opts
<1>1. CASE Tick
  BY <1>1 DEF Tick, history, heap, locals, HeldInv, HeapInv, Owns, GaveUp
<1>2. ASSUME NEW c \in Calls, NEW q \in Requests \cup {NULL},
             NEW o \in Options \cup {NULL}, Call(c, q, o)
      PROVE  HeapInv'
  BY <1>2, <1>c DEF Call, statics, heap, locals, HeldInv, HeapInv, Owns, GaveUp, LocalInv
<1>3. CASE NullInput
  BY <1>3, <1>c DEF NullInput, Return, NoStrings, Failed, heap, HeldInv, HeapInv, Owns, GaveUp, LocalInv
<1>4. CASE ReadClock
  BY <1>4, <1>c DEF ReadClock, Goto, history, heap, HeldInv, HeapInv, Owns, GaveUp
<1>5. CASE MergeBody
  BY <1>5, <1>c DEF MergeBody, Goto, history, heap, HeldInv, HeapInv, Owns, GaveUp
<1>6. CASE TakeParams
  BY <1>6, <1>c, Blocks, BlocksOwned
  DEF TakeParams, Goto, history, HeldInv, HeapInv, Owns, GaveUp, LocalInv
<1>7. CASE EncodeLists
  <2>1. cur \in Calls /\ live' \subseteq Calls \X Owners
    BY <1>7, <1>c, BlocksOwned DEF EncodeLists, Goto
  <2>2. ASSUME NEW d \in Calls, NEW o \in Owners
        PROVE  <<d, o>> \in live' <=> Owns(d, o)'
    <3>1. <<d, o>> \in live <=> Owns(d, o)
      BY <1>7 DEF EncodeLists, Goto, HeldInv, HeapInv
    <3>2. <<d, o>> \in StringBlocks(cur) <=> d = cur /\ o \in Lists
      BY Blocks
    <3> QED
      BY <1>7, <3>1, <3>2 DEF EncodeLists, Goto, history, Owns, GaveUp
  <2> QED
    BY <2>1, <2>2 DEF HeapInv
<1>7n. CASE ReadNull
  BY <1>7n, <1>c DEF ReadNull, Goto, heap, HeldInv, HeapInv
<1>8. CASE TakeRawBody
  BY <1>8, <1>c DEF TakeRawBody, Goto, history, heap, HeldInv, HeapInv, Owns, GaveUp
<1>9. CASE HashBody
  BY <1>9, <1>c DEF HashBody, Goto, history, HeldInv, HeapInv, Owns, GaveUp
<1>10. CASE Gorgon
  <2>1. live' = live \cup HeaderBlocks(cur, sig')
    BY <1>10 DEF Gorgon
  <2>2. cur \in Calls /\ live' \subseteq Calls \X Owners
    <3>1. cur \in Calls
      BY <1>10, <1>c DEF Gorgon, Goto
    <3>2. HeaderBlocks(cur, sig') \subseteq Calls \X Owners
      BY <3>1, BlocksOwned
    <3> QED
      BY <1>c, <2>1, <3>1, <3>2
  <2>3. \A h \in Headers : sig[h] # NULL => sig'[h] # NULL
    BY <1>10, <1>c, <1>v DEF Gorgon, Goto, HeldInv, LocalInv, Headers
  <2>4. ASSUME NEW d \in Calls, NEW o \in Owners
        PROVE  <<d, o>> \in live' <=> Owns(d, o)'
    <3>1. <<d, o>> \in live <=> Owns(d, o)
      BY <1>10 DEF Gorgon, Goto, HeldInv, HeapInv
    <3>2. <<d, o>> \in HeaderBlocks(cur, sig') <=> d = cur /\ o \in Headers /\ sig'[o] # NULL
      BY Blocks
    <3> QED
      BY <1>10, <2>1, <2>3, <3>1, <3>2, ZenonT(40) DEF Gorgon, Goto, history, Owns, GaveUp
  <2> QED
    BY <2>2, <2>4 DEF HeapInv
<1>11. CASE BadVersion
  <2>k. PICK k \in Calls : k = cur
    BY <1>11, <1>c DEF BadVersion
  <2>1. cur \in Calls /\ live' \subseteq Calls \X Owners
    BY <1>11, <1>c DEF BadVersion
  <2>2. ASSUME NEW d \in Calls, NEW o \in Owners
        PROVE  <<d, o>> \in live' <=> Owns(d, o)'
    <3>1. <<d, o>> \in live <=> Owns(d, o)
      BY <1>11 DEF BadVersion, HeldInv, HeapInv
    <3>2. <<d, o>> \in StringBlocks(cur) <=> d = cur /\ o \in Lists
      BY Blocks
    <3>3. \A h \in Headers : sig[h] = NULL /\ sig'[h] = NULL
      BY <1>11 DEF BadVersion, Return, NoStrings, HeldInv, LocalInv
    <3>4. \A h \in Headers : result[cur].strings[h] = NULL /\ result'[cur].strings[h] = NULL
      BY <1>11, <1>c DEF BadVersion, Return, NoStrings, Failed, HeldInv, LocalInv
    <3>5. req # NULL /\ opts # NULL /\ url_params = UrlTable(req)
      BY <1>11, MarkAssumption DEF BadVersion, HeldInv, LocalInv, TypeInv, ControlInv, Started
    <3>6. GaveUp(k)' /\ ~GaveUp(k)
      BY <1>11, <1>c, <2>k, <3>5 DEF BadVersion, Return, GaveUp
    <3>7. d # cur => (GaveUp(d)' <=> GaveUp(d)) /\ result'[d] = result[d]
      BY <1>11, <1>c DEF BadVersion, Return, GaveUp
    <3>8. cur' # d /\ request' = request
      BY <1>11, MarkAssumption DEF BadVersion, Return
    <3>9. <<d, o>> \in live' <=> <<d, o>> \in live /\ ~(d = cur /\ o \in Lists)
      BY <1>11, <3>2 DEF BadVersion
    <3>10. pc = "gorgon" /\ pc' = "idle" /\ url_params' = NULL
      BY <1>11 DEF BadVersion, Return
    <3>11. CASE d = k
      BY <1>d, <2>k, <3>1, <3>3, <3>4, <3>5, <3>6, <3>8, <3>9, <3>10, <3>11 DEF Owns
    <3>12. CASE d # k
      BY <2>k, <3>1, <3>7, <3>8, <3>9, <3>12 DEF Owns
    <3> QED
      BY <3>11, <3>12
  <2> QED
    BY <2>1, <2>2 DEF HeapInv
<1>12. CASE InitDeviceId
  BY <1>12, <1>c DEF InitDeviceId, Goto, history, heap, locals, HeldInv, HeapInv, Owns, GaveUp
<1>13. CASE Argus
  <2>1. live' = live \cup HeaderBlocks(cur, sig')
    BY <1>13 DEF Argus
  <2>2. cur \in Calls /\ live' \subseteq Calls \X Owners
    BY <1>13, <1>c, <2>1, BlocksOwned DEF Argus, Goto
  <2>3. \A h \in Headers : sig[h] # NULL => sig'[h] # NULL
    BY <1>13, <1>c, <1>v DEF Argus, Goto, HeldInv, LocalInv, Headers
  <2>4. ASSUME NEW d \in Calls, NEW o \in Owners
        PROVE  <<d, o>> \in live' <=> Owns(d, o)'
    <3>1. <<d, o>> \in live <=> Owns(d, o)
      BY <1>13 DEF Argus, Goto, HeldInv, HeapInv
    <3>2. <<d, o>> \in HeaderBlocks(cur, sig') <=> d = cur /\ o \in Headers /\ sig'[o] # NULL
      BY Blocks
    <3> QED
      BY <1>13, <2>1, <2>3, <3>1, <3>2 DEF Argus, Goto, history, Owns, GaveUp
  <2> QED
    BY <2>2, <2>4 DEF HeapInv
<1>14. CASE Ladon
  <2>1. live' = live \cup HeaderBlocks(cur, sig')
    BY <1>14 DEF Ladon
  <2>2. cur \in Calls /\ live' \subseteq Calls \X Owners
    BY <1>14, <1>c, <2>1, BlocksOwned DEF Ladon, Goto
  <2>3. \A h \in Headers : sig[h] # NULL => sig'[h] # NULL
    BY <1>14, <1>c, <1>v DEF Ladon, Goto, HeldInv, LocalInv, Headers
  <2>4. ASSUME NEW d \in Calls, NEW o \in Owners
        PROVE  <<d, o>> \in live' <=> Owns(d, o)'
    <3>1. <<d, o>> \in live <=> Owns(d, o)
      BY <1>14 DEF Ladon, Goto, HeldInv, HeapInv
    <3>2. <<d, o>> \in HeaderBlocks(cur, sig') <=> d = cur /\ o \in Headers /\ sig'[o] # NULL
      BY Blocks
    <3> QED
      BY <1>14, <2>1, <2>3, <3>1, <3>2 DEF Ladon, Goto, history, Owns, GaveUp
  <2> QED
    BY <2>2, <2>4 DEF HeapInv
<1>15. CASE Finish
  <2> DEFINE S(lost) == [sig EXCEPT !["x_ss_stub"] = IF lost # {} THEN NULL ELSE stub]
             E(lost) == IF \E h \in Checked : S(lost)[h] = NULL THEN "ALLOC" ELSE "OK"
  <2>1. PICK lost \in Missing({"x_ss_stub"}) :
          /\ live' = (live \cup HeaderBlocks(cur, S(lost))) \ Freed(cur, url_params)
          /\ Return([error |-> E(lost), strings |-> S(lost)])
    BY <1>15 DEF Finish
  <2>k. PICK k \in Calls : k = cur
    BY <1>15, <1>c DEF Finish
  <2>2. cur \in Calls /\ live' \subseteq Calls \X Owners
    BY <1>15, <1>c, <2>1, BlocksOwned DEF Finish
  <2>3. \A h \in Headers : sig[h] # NULL => S(lost)[h] # NULL
    BY <1>15, <1>c DEF Finish, HeldInv, LocalInv
  <2>4. result'[cur].strings = S(lost)
    BY <1>c, <2>1, <2>2 DEF Return
  <2> HIDE DEF S, E
  <2>5. ASSUME NEW d \in Calls, NEW o \in Owners
        PROVE  <<d, o>> \in live' <=> Owns(d, o)'
    <3>1. <<d, o>> \in live <=> Owns(d, o)
      BY <1>15 DEF Finish, HeldInv, HeapInv
    <3>2. /\ <<d, o>> \in StringBlocks(cur) <=> d = cur /\ o \in Lists
          /\ <<d, o>> \in UrlBlock(cur, url_params)
               <=> d = cur /\ o = "url_params" /\ url_params # NULL
          /\ <<d, o>> \in HeaderBlocks(cur, S(lost))
               <=> d = cur /\ o \in Headers /\ S(lost)[o] # NULL
      BY Blocks
    <3>3. \A h \in Headers : sig'[h] = NULL
      BY <2>1 DEF Return, NoStrings
    <3>4. \A h \in Headers : result[cur].strings[h] = NULL
      BY <1>15, <1>c DEF Finish, NoStrings, HeldInv, LocalInv
    <3>5. opts.version \in DOMAIN Variants
      BY <1>15 DEF Finish, HeldInv, LocalInv
    <3>6. ~GaveUp(k)' /\ ~GaveUp(k)
      BY <1>15, <1>c, <2>k, <2>1, <3>5 DEF Finish, Return, GaveUp
    <3>7. d # cur => (GaveUp(d)' <=> GaveUp(d)) /\ result'[d] = result[d]
      BY <1>c, <2>1, <2>2 DEF Return, GaveUp
    <3>8. cur' # d /\ request' = request
      BY <2>1, MarkAssumption DEF Return
    <3>9. <<d, o>> \in live' <=>
            /\ <<d, o>> \in live \/ (d = cur /\ o \in Headers /\ S(lost)[o] # NULL)
            /\ ~(d = cur /\ o \in Lists)
            /\ ~(d = cur /\ o = "url_params" /\ url_params # NULL)
      BY <2>1, <3>2 DEF Freed
    <3>10. CASE d = k
      BY <1>d, <2>k, <2>3, <2>4, <3>1, <3>3, <3>4, <3>6, <3>8, <3>9, <3>10 DEF Owns
    <3>11. CASE d # k
      BY <2>k, <3>1, <3>7, <3>8, <3>9, <3>11 DEF Owns
    <3> QED
      BY <3>10, <3>11
  <2> QED
    BY <2>2, <2>5 DEF HeapInv
<1>16. CASE OutOfMemory
  BY <1>16, <1>c DEF OutOfMemory, HeldInv, HeapInv
<1>17. ASSUME NEW c \in Calls, Free(c) PROVE HeapInv'
  <2>1. live' \subseteq Calls \X Owners
    BY <1>17, <1>c DEF Free
  <2>2. ASSUME NEW d \in Calls, NEW o \in Owners
        PROVE  <<d, o>> \in live' <=> Owns(d, o)'
    <3>1. <<d, o>> \in live <=> Owns(d, o)
      BY <1>17 DEF Free, HeldInv, HeapInv
    <3>2. <<d, o>> \in HeaderBlocks(c, result[c].strings)
            <=> d = c /\ o \in Headers /\ result[c].strings[o] # NULL
      BY Blocks
    <3>3. \A h \in Headers : sig[h] = NULL /\ sig' = sig /\ result'[c].strings[h] = NULL
      BY <1>17, <1>c DEF Free, Cleared, Failed, NoStrings, locals, HeldInv, LocalInv
    <3>4. GaveUp(d)' <=> GaveUp(d)
      BY <1>17, <1>c DEF Free, GaveUp
    <3>5. /\ d # c => result'[d] = result[d]
          /\ request' = request /\ url_params' = url_params /\ cur' = cur /\ pc' = pc
      BY <1>17, <1>c DEF Free, locals
    <3>6. <<d, o>> \in live' <=>
            <<d, o>> \in live /\ ~(d = c /\ o \in Headers /\ result[c].strings[o] # NULL)
      BY <1>17, <3>2 DEF Free
    <3> QED
      BY <1>d, <3>1, <3>3, <3>4, <3>5, <3>6 DEF Owns
  <2> QED
    BY <2>1, <2>2 DEF HeapInv
<1>18. CASE UNCHANGED vars
  BY <1>18 DEF vars, history, heap, locals, HeldInv, HeapInv, Owns, GaveUp
<1> QED
  BY <1>1, <1>2, <1>3, <1>4, <1>5, <1>6, <1>7, <1>7n, <1>8, <1>9, <1>10, <1>11, <1>12,
     <1>13, <1>14, <1>15, <1>16, <1>17, <1>18 DEF Next, Step

--------------------------------------------------------------------------------
\* HeldInv is inductive, and so it holds throughout every behaviour.
THEOREM HeldThroughout == Spec => []HeldInv
<1>1. Init => HeldInv
  BY InitHeap
<1>2. HeldInv /\ [Next]_vars => HeldInv'
  BY NextData, NextLocal, NextHeap DEF HeldInv
<1> QED
  BY <1>1, <1>2, PTL DEF Spec

\* Every variable of tt_sign's model keeps its type, whatever the arguments, the
\* number of calls, and the allocations and digests that fail.
THEOREM TypeCorrect == Spec => []TypeOK
<1>1. HeldInv => TypeOK
  BY DEF HeldInv, TypeInv, ControlInv, DataInv, HeapInv, TypeOK
<1> QED
  BY <1>1, HeldThroughout, PTL

\* Between calls the heap is what the callers hold, plus the url tables of the
\* calls that gave up on their version: on no path is anything else leaked.
THEOREM HeapAccounted == Spec => []Ownership
<1>1. HeldInv => Ownership
  <2> SUFFICES ASSUME HeldInv, pc = "idle" PROVE live = HeldBlocks \cup LostTables
    BY DEF Ownership
  <2>1. live \subseteq Calls \X Owners
    BY DEF HeldInv, HeapInv
  <2>2. HeldBlocks \subseteq Calls \X Owners /\ LostTables \subseteq Calls \X Owners
    <3>1. \A c \in Calls : Held(c) \subseteq Calls \X Owners
      BY BlocksOwned DEF Held
    <3>2. \A c \in Calls : UrlBlock(c, UrlTable(request[c])) \subseteq Calls \X Owners
      BY BlocksOwned
    <3> QED
      BY <3>1, <3>2 DEF HeldBlocks, LostTables
  <2>3. url_params = NULL /\ \A h \in Headers : sig[h] = NULL
    BY DEF HeldInv, LocalInv, HasTable, HasStrings, Variant, MadeBefore
  <2>4. ASSUME NEW c \in Calls, NEW o \in Owners
        PROVE  <<c, o>> \in live <=> <<c, o>> \in HeldBlocks \cup LostTables
    <3>1. <<c, o>> \in live <=>
            \/ o \in Headers /\ result[c].strings[o] # NULL
            \/ o = "url_params" /\ GaveUp(c) /\ UrlTable(request[c]) # NULL
      BY <2>3 DEF HeldInv, HeapInv, Owns, HasStrings, Variant
    <3>2. <<c, o>> \in HeldBlocks <=> o \in Headers /\ result[c].strings[o] # NULL
      <4>1. \A d \in Calls : <<c, o>> \in Held(d) <=>
                              c = d /\ o \in Headers /\ result[d].strings[o] # NULL
        <5> TAKE d \in Calls
        <5>1. \A s : <<c, o>> \in HeaderBlocks(d, s) <=> c = d /\ o \in Headers /\ s[o] # NULL
          BY Blocks
        <5> QED
          BY <5>1, Zenon DEF Held
      <4> HIDE DEF Held
      <4>2. <<c, o>> \in HeldBlocks <=> \E d \in Calls : <<c, o>> \in Held(d)
        BY Zenon DEF HeldBlocks
      <4> QED
        BY <4>1, <4>2, Zenon
    <3>3. <<c, o>> \in LostTables <=> o = "url_params" /\ GaveUp(c) /\ UrlTable(request[c]) # NULL
      BY Blocks DEF LostTables
    <3> QED
      BY <3>1, <3>2, <3>3
  <2>5. \A b \in Calls \X Owners : b \in live <=> b \in HeldBlocks \cup LostTables
    <3> TAKE b \in Calls \X Owners
    <3>1. PICK c \in Calls, o \in Owners : b = <<c, o>>
      OBVIOUS
    <3> QED
      BY <3>1, <2>4
  <2> QED
    BY <2>1, <2>2, <2>5
<1> QED
  BY <1>1, HeldThroughout, PTL

\* A caller's struct never points to a freed block: it may be freed at any time,
\* and more than once.
THEOREM StructsLive == Spec => []NoDangling
<1>1. Init => NoDangling
  <2> SUFFICES ASSUME Init, NEW c \in Calls, NEW h \in Headers PROVE result[c].strings[h] = NULL
    BY DEF NoDangling, Held, HeaderBlocks
  <2> QED
    BY DEF Init, Failed, NoStrings
<1>2. HeldInv /\ NoDangling /\ HeldInv' /\ [Next]_vars => NoDangling'
  <2> SUFFICES ASSUME HeldInv, NoDangling, HeldInv', [Next]_vars PROVE NoDangling'
    OBVIOUS
  <2>1. CASE pc' # "crashed"
    <3> SUFFICES ASSUME NEW c \in Calls, NEW h \in Headers, result'[c].strings[h] # NULL
                 PROVE  <<c, h>> \in live'
      BY DEF NoDangling, Held, HeaderBlocks
    <3> QED
      BY <2>1 DEF HeldInv, HeapInv, Owns, Owners
  <2>2. CASE pc' = "crashed"
    <3>1. live' = live /\ result' = result
      BY <2>2 DEF Next, Step, Tick, Call, NullInput, ReadClock, MergeBody, TakeParams,
         EncodeLists, ReadNull, TakeRawBody, HashBody, Gorgon, BadVersion, InitDeviceId, Argus,
         Ladon, Finish, OutOfMemory, Free, Goto, Return, vars, history, heap
    <3> QED
      BY <3>1 DEF NoDangling, Held, HeaderBlocks
  <2> QED
    BY <2>1, <2>2
<1> QED
  BY <1>1, <1>2, HeldThroughout, PTL DEF Spec

(***************************************************************************)
(* Values: what tt_sign returns.  IInv is an invariant of Signer, and      *)
(* Signer implements SignApi.                                              *)
(***************************************************************************)
\* SignApi and Signer mean the same by the names they both take from SignTypes.
LEMMA SharedNames ==
  /\ Api!Variants = Variants /\ Api!Headers = Headers /\ Api!IdNames = IdNames
  /\ Api!NoStrings = NoStrings /\ \A e : Api!Failed(e) = Failed(e)
  /\ Api!Result = Result
  /\ \A q : Api!StaleBody(q) <=> StaleBody(q)
<1>1. Api!Variants = Variants /\ Api!Headers = Headers /\ Api!IdNames = IdNames
  BY DEF Api!Variants, Variants, Api!Headers, Headers, Api!IdNames, IdNames
<1>2. Api!NoStrings = NoStrings
  BY <1>1 DEF Api!NoStrings, NoStrings
<1>3. \A e : Api!Failed(e) = Failed(e)
  BY <1>2 DEF Api!Failed, Failed
<1>4. Api!Lists = Lists /\ Api!Errors = Errors
  BY DEF Api!Lists, Lists, Api!Errors, Errors
<1>5. Api!Text = Text /\ Api!Random = Random
  BY DEF Api!Text, Text, Api!Random, Random
<1>6. Api!Digest = Digest
  BY <1>5 DEF Api!Digest, Digest
<1>7. /\ Api!GorgonValue = GorgonValue /\ Api!ArgusValue = ArgusValue
      /\ Api!LadonValue = LadonValue /\ Api!TimeValue = TimeValue
  BY <1>1, <1>5, <1>6 DEF Api!GorgonValue, GorgonValue, Api!ArgusValue, ArgusValue,
     Api!LadonValue, LadonValue, Api!TimeValue, TimeValue
<1>8. Api!Result = Result
  BY <1>1, <1>4, <1>6, <1>7 DEF Api!Result, Result, Api!HeaderValue, HeaderValue
<1>9. \A q : Api!StaleBody(q) <=> StaleBody(q)
  BY DEF Api!StaleBody, StaleBody
<1> QED
  BY <1>1, <1>2, <1>3, <1>8, <1>9

(***************************************************************************)
(* The values tt_sign computes are those that SignApi promises.            *)
(***************************************************************************)
\* The texts made of the lists that tt_sign picks are the ones a request asks for.
LEMMA PromisedTexts ==
  ASSUME NEW q \in Requests
  PROVE  /\ Encoded(ParamsList(q)) = Api!QueryText(q)
         /\ Encoded(CookieList(q)) = Api!CookieText(q)
         /\ Encoded(PayloadList(q)) = Api!PayloadText(q)
         /\ q.raw_body = NULL => Encoded(DataList(q)) = Api!FormText(q)
<1>1. q \in Request
  BY RequestAssumption
<1>2. Encoded(ParamsList(q)) = Api!QueryText(q)
  <2>1. CASE q.params.ptr # NULL
    BY <2>1 DEF Encoded, ParamsList, Api!QueryText, Api!Entries
  <2>2. CASE q.params.ptr = NULL /\ q.url # NULL
    <3>1. UrlParams[q.url] \in Seq(Pairs)
      BY <1>1, <2>2, UrlAssumption DEF Request
    <3>2. NULL \notin Seq(Pairs)
      BY MarkAssumption DEF Text
    <3>3. CASE UrlParams[q.url] = <<>>
      BY <2>2, <3>3 DEF Encoded, ParamsList, UrlTable, UsesUrl, TableList, NoList, Api!QueryText
    <3>4. CASE UrlParams[q.url] # <<>>
      <4> DEFINE p == UrlParams[q.url]
      <4>1. ParamsList(q) = [ptr |-> p, count |-> Len(p)]
        BY <2>2, <3>1, <3>2, <3>4 DEF ParamsList, UrlTable, UsesUrl, TableList
      <4>2. Api!QueryText(q) = p
        BY <2>2 DEF Api!QueryText
      <4> HIDE DEF p
      <4>3. Len(p) # 0 /\ SubSeq(p, 1, Len(p)) = p
        BY <3>1, <3>4 DEF p
      <4> QED
        BY <4>1, <4>2, <4>3 DEF Encoded
    <3> QED
      BY <3>3, <3>4
  <2>3. CASE q.params.ptr = NULL /\ q.url = NULL
    BY <2>3 DEF Encoded, ParamsList, UrlTable, UsesUrl, TableList, NoList, Api!QueryText
  <2> QED
    BY <2>1, <2>2, <2>3
<1>3. Encoded(CookieList(q)) = Api!CookieText(q)
  BY DEF Encoded, CookieList, NoList, Api!CookieText, Api!Entries
<1>4. q.data.count \in Nat /\ q.payload.count \in Nat
  BY <1>1 DEF Request, ListField
<1>5. Encoded(PayloadList(q)) = Api!PayloadText(q)
  BY <1>4 DEF Encoded, PayloadList, Api!PayloadText, Api!Either, Api!Entries
<1>6. q.raw_body = NULL => Encoded(DataList(q)) = Api!FormText(q)
  BY <1>4 DEF Encoded, DataList, Api!FormText, Api!Either, Api!Entries
<1> QED
  BY <1>2, <1>3, <1>5, <1>6

\* gorgon_v1, v2 and v3 make the X-Gorgon that was promised for this second.
LEMMA PromisedGorgon ==
  ASSUME TypeInv, TextsMade, pc = "gorgon", opts.version \in DOMAIN Variants,
         NEW s \in BOOLEAN
  PROVE  GorgonHeader(Variants[opts.version], s) \in Api!Gorgons(req, opts, unix_ts)
<1>1. opts \in Option
  BY OptionAssumption DEF TypeInv, ControlInv, Started
<1>2. Variants[opts.version] = "v1" <=> opts.version = 8404
  BY DEF Variants
<1>3. ASSUME NEW pin \in Int PROVE 16 * (pin \div 16) = pin - (pin % 16)
  OBVIOUS
<1>4. /\ str["params"] = Api!QueryText(req) /\ str["payload"] = Api!PayloadText(req)
      /\ str["cookie"] = Api!CookieText(req)
  BY DEF TextsMade, HasStrings
<1>5. /\ opts.gorgon_byte3 \in Int \cup {Unset} /\ opts.gorgon_byte7 \in Int \cup {Unset}
  BY <1>1 DEF Option
<1>6. HighNibble(opts.gorgon_byte7) = IF opts.gorgon_byte7 = Unset THEN Fresh
                                      ELSE opts.gorgon_byte7 - (opts.gorgon_byte7 % 16)
  BY <1>3, <1>5 DEF HighNibble
<1>7. Draw(opts.gorgon_byte3) = Api!Drawn(opts.gorgon_byte3)
  BY DEF Draw, Api!Drawn
<1> QED
  BY <1>2, <1>4, <1>6, <1>7, SharedNames DEF GorgonHeader, Api!Gorgons

\* An id that is not given falls back to its default.
LEMMA PromisedId == ASSUME NEW n PROVE Id(n) = Api!IdOf(opts, n)
BY DEF Id, Api!IdOf

\* argus_get_sign makes the promised X-Argus, around the digest it is given.
LEMMA PromisedArgus ==
  ASSUME TypeInv, TextsMade, BodyHashed, pc = "argus", NEW s \in BOOLEAN
  PROVE  ArgusHeader(s) \in Api!Arguses(req, opts, unix_ts, default_sec_dev)
<1>1. opts \in Option
  BY OptionAssumption DEF TypeInv, ControlInv, Started
<1>2. str["params"] = Api!QueryText(req) /\ stub \in Api!Stubs(req)
  BY DEF TextsMade, HasStrings, BodyHashed, Variant
<1>3. [n \in IdNames |-> Id(n)] = [n \in IdNames |-> Api!IdOf(opts, n)]
  BY PromisedId
<1>4. Api!IdNames = IdNames
  BY SharedNames
<1>5. DeviceId = IF opts.sec_device_id = Unset THEN default_sec_dev ELSE opts.sec_device_id
  BY DEF DeviceId
<1>6. ArgusRand = IF opts.argus_rand = Unset \/ opts.argus_rand < 0 THEN Fresh
                  ELSE opts.argus_rand
  BY <1>1 DEF ArgusRand, Option
<1> QED
  BY <1>2, <1>3, <1>4, <1>5, <1>6 DEF ArgusHeader, Api!Arguses

\* ladon_encrypt makes the promised X-Ladon.
LEMMA PromisedLadon ==
  ASSUME NEW s \in BOOLEAN
  PROVE  LadonHeader(s) \in Api!Ladons(opts, unix_ts)
BY PromisedId DEF LadonHeader, Draw, Api!Ladons, Api!Drawn

(***************************************************************************)
(* IInv is inductive.                                                      *)
(***************************************************************************)
\* The promise depends on the device id of the process only for an X-Argus
\* without one of its own.
LEMMA PromiseStays ==
  ASSUME NEW h \in Headers, NEW q, NEW o, NEW t, NEW dev, NEW dev2,
         h # "x_argus" \/ o.sec_device_id # Unset \/ dev = dev2
  PROVE  Api!Promised(h, q, o, t, dev) = Api!Promised(h, q, o, t, dev2)
<1>1. o.sec_device_id # Unset => Api!Arguses(q, o, t, dev) = Api!Arguses(q, o, t, dev2)
  BY DEF Api!Arguses
<1> QED
  BY <1>1 DEF Api!Promised

\* An answer stays acceptable while time passes, other calls run, and one of them
\* chooses the device id.
LEMMA AnswerStays ==
  ASSUME NEW c \in Calls, Answered(c),
         request'[c] = request[c], option'[c] = option[c],
         began'[c] = began[c], result'[c] = result[c],
         began[c] \in Int, clock \in Int, clock' \in Int, clock <= clock',
         faulty \subseteq faulty',
         default_sec_dev' = default_sec_dev \/ default_sec_dev = NULL
  PROVE  Answered(c)'
<1> DEFINE q == request[c]
           o == option[c]
           r == result[c]
<1>1. /\ DeviceChosen(c) => DeviceChosen(c)'
      /\ Api!Answerable(c)'
  BY DEF DeviceChosen, Answered, Api!Answerable
<1>2. CASE q = NULL \/ o = NULL
  BY <1>1, <1>2 DEF Answered, Api!Acceptable
<1>3. CASE q # NULL /\ o # NULL /\ o.version \notin DOMAIN Api!Variants
  BY <1>1, <1>3 DEF Answered, Api!Acceptable
<1>4. CASE q # NULL /\ o # NULL /\ o.version \in DOMAIN Api!Variants
  <2>1. /\ NULL \notin {r.strings["x_gorgon"], r.strings["x_ladon"]}
        /\ r.error = IF \A h \in Headers : r.strings[h] # NULL THEN "OK" ELSE "ALLOC"
        /\ Api!Flawless(r.strings) \/ c \in faulty'
        /\ NULL \notin {r.strings["x_argus"], r.strings["x_ss_stub"]} =>
             r.strings["x_argus"].stub = r.strings["x_ss_stub"]
    BY <1>4, SharedNames DEF Answered, Api!Acceptable
  <2>2. PICK t \in Api!Instants(c) : \A h \in Headers :
          r.strings[h] \in Api!Promised(h, q, o, t, default_sec_dev) \cup {NULL}
    BY <1>4, SharedNames DEF Answered, Api!Acceptable
  <2>3. t \in Api!Instants(c)'
    BY DEF Api!Instants
  <2>4. ASSUME NEW h \in Headers
        PROVE  r.strings[h] \in Api!Promised(h, q, o, t, default_sec_dev') \cup {NULL}
    <3>1. CASE h = "x_argus" /\ r.strings[h] = NULL
      BY <3>1
    <3>2. CASE h # "x_argus" \/ r.strings[h] # NULL
      <4>1. r.strings["x_argus"] # NULL => o.sec_device_id # Unset \/ default_sec_dev # NULL
        BY DEF Answered, DeviceChosen
      <4>2. h # "x_argus" \/ o.sec_device_id # Unset \/ default_sec_dev = default_sec_dev'
        BY <3>2, <4>1
      <4> HIDE DEF q, o, r
      <4>3. Api!Promised(h, q, o, t, default_sec_dev) = Api!Promised(h, q, o, t, default_sec_dev')
        BY <4>2, PromiseStays
      <4> QED
        BY <2>2, <4>3
    <3> QED
      BY <3>1, <3>2
  <2>5. Api!Acceptable(c, result[c], c \in faulty)'
    BY <1>4, <2>1, <2>3, <2>4, SharedNames DEF Api!Acceptable
  <2> QED
    BY <1>1, <2>5 DEF Answered
<1> QED
  BY <1>2, <1>3, <1>4

\* Time does not go back, a failure is not forgotten, and a device id is kept.
LEMMA NothingTakenBack ==
  ASSUME TypeInv, [Next]_vars
  PROVE  /\ clock \in Int /\ clock' \in Int /\ clock <= clock'
         /\ faulty \subseteq faulty'
         /\ default_sec_dev' = default_sec_dev \/ default_sec_dev = NULL
<1>1. clock \in Int
  BY NumberAssumption DEF TypeInv, DataInv
<1>2. clock' \in Int /\ clock <= clock'
  <2>1. clock' = clock \/ clock' = clock + 1
    BY DEF Next, Step, Tick, Call, NullInput, ReadClock, MergeBody, TakeParams, EncodeLists,
       ReadNull, TakeRawBody, HashBody, Gorgon, BadVersion, InitDeviceId, Argus, Ladon, Finish,
       OutOfMemory, Free, vars, statics
  <2> QED
    BY <1>1, <2>1
<1>3. faulty \subseteq faulty'
  <2>1. ASSUME NEW b, Blame(b) PROVE faulty \subseteq faulty'
    <3>1. faulty' = faulty \/ faulty' = faulty \cup {cur}
      BY <2>1, Zenon DEF Blame
    <3> QED
      BY <3>1
  <2> QED
    BY <2>1, ZenonT(40) DEF Next, Step, Tick, Call, NullInput, ReadClock, MergeBody, TakeParams, EncodeLists,
       ReadNull, TakeRawBody, HashBody, Gorgon, BadVersion, InitDeviceId, Argus, Ladon, Finish,
       OutOfMemory, Free, vars, heap
<1>4. default_sec_dev' = default_sec_dev \/ default_sec_dev = NULL
  BY DEF Next, Step, Tick, Call, NullInput, ReadClock, MergeBody, TakeParams, EncodeLists,
     ReadNull, TakeRawBody, HashBody, Gorgon, BadVersion, InitDeviceId, NeedsDevice, Argus, Ladon, Finish,
     OutOfMemory, Free, vars, statics
<1> QED
  BY <1>1, <1>2, <1>3, <1>4

\* The answer of a call that a step does not touch stays acceptable.
LEMMA AnswerKept ==
  ASSUME IInv, [Next]_vars, NEW c \in Calls, phase[c] = "returned",
         request'[c] = request[c], option'[c] = option[c],
         began'[c] = began[c], result'[c] = result[c]
  PROVE  Answered(c)'
<1>1. Answered(c) /\ TypeInv
  BY DEF IInv, HeldInv, ValueInv
<1>2. began[c] \in Int
  BY <1>1, NumberAssumption DEF TypeInv, DataInv
<1> QED
  BY <1>1, <1>2, NothingTakenBack, AnswerStays

\* Nothing is promised yet at the start.
LEMMA InitValues == Init => ValueInv
<1> SUFFICES ASSUME Init PROVE ValueInv
  OBVIOUS
<1>1. OneActive
  BY DEF Init, OneActive
<1>2. InstantTaken /\ ListsTaken /\ TextsMade /\ CrashCaused /\ BodyHashed
  BY DEF Init, InstantTaken, Started, ListsTaken, TextsMade, CrashCaused, HasStrings,
     BodyHashed, Variant
<1>3. HeadersMade
  BY DEF Init, HeadersMade, MadeBefore, Variant
<1>4. \A c \in Calls : phase[c] # "returned"
  BY DEF Init
<1> QED
  BY <1>1, <1>2, <1>3, <1>4 DEF ValueInv

\* A call that ends with an error of its arguments has an acceptable answer.
LEMMA RefusalAcceptable ==
  ASSUME IInv, NullInput \/ BadVersion, NEW c \in Calls, c = cur
  PROVE  /\ Api!Acceptable(c, result'[c], c \in faulty')
         /\ Api!Answerable(c)
         /\ result'[c].strings["x_argus"] = NULL
<1>1. result \in [Calls -> Result]
  BY DEF IInv, HeldInv, TypeInv, DataInv
<1>2. Failed("NULL_INPUT").strings["x_argus"] = NULL /\ Failed("BAD_VERSION").strings["x_argus"] = NULL
  BY DEF Failed, NoStrings, Headers
<1>3. CASE NullInput
  <2>1. result'[c] = Failed("NULL_INPUT") /\ (request[c] = NULL \/ option[c] = NULL)
    BY <1>1, <1>3 DEF NullInput, Return, req, opts
  <2> QED
    BY <1>2, <2>1, SharedNames DEF Api!Acceptable, Api!Answerable
<1>4. CASE BadVersion
  <2>1. result'[c] = Failed("BAD_VERSION") /\ option[c].version \notin DOMAIN Variants
    BY <1>1, <1>4 DEF BadVersion, Return, opts
  <2>2. request[c] # NULL /\ option[c] # NULL
    BY <1>4, MarkAssumption
    DEF BadVersion, IInv, HeldInv, TypeInv, ControlInv, Started, req, opts
  <2>3. Api!Answerable(c)
    BY <1>4, SharedNames
    DEF BadVersion, IInv, ValueInv, CrashCaused, HasStrings, req, Api!Answerable
  <2> QED
    BY <1>2, <2>1, <2>2, <2>3, SharedNames DEF Api!Acceptable
<1> QED
  BY <1>3, <1>4

\* So has a call that runs to its end, whichever of its strings it could not make:
\* they were all made for one instant and one digest, and a failure was noted for
\* each that is missing or unsound.
LEMMA FinishAcceptable ==
  ASSUME IInv, Finish, NEW c \in Calls, c = cur
  PROVE  /\ Api!Acceptable(c, result'[c], c \in faulty')
         /\ Api!Answerable(c)
         /\ result'[c].strings["x_argus"] # NULL => DeviceChosen(c)
<1> DEFINE S(lost) == [sig EXCEPT !["x_ss_stub"] = IF lost # {} THEN NULL ELSE stub]
           E(lost) == IF \E h \in Checked : S(lost)[h] = NULL THEN "ALLOC" ELSE "OK"
<1>1. PICK lost \in Missing({"x_ss_stub"}) :
        Blame(lost # {}) /\ Return([error |-> E(lost), strings |-> S(lost)])
  BY DEF Finish
<1>2. /\ TypeInv /\ InstantTaken /\ BodyHashed /\ HeadersMade /\ pc = "finish"
      /\ opts.version \in DOMAIN Variants
  BY DEF IInv, HeldInv, LocalInv, Variant, ValueInv, Finish
<1>3. result'[c] = [error |-> E(lost), strings |-> S(lost)]
  BY <1>1, <1>2 DEF Return, TypeInv, DataInv
<1>4. sig \in [Headers -> HeaderValue \cup {NULL}] /\ "x_ss_stub" \in Headers
  BY <1>2 DEF TypeInv, DataInv, Headers
<1>5. /\ \A h \in Headers : h # "x_ss_stub" => S(lost)[h] = sig[h]
      /\ S(lost)["x_ss_stub"] = IF lost # {} THEN NULL ELSE stub
  BY <1>4
<1>6. /\ "x_argus" \in Headers /\ "x_argus" # "x_ss_stub"
      /\ NULL \notin {S(lost)["x_gorgon"], S(lost)["x_ladon"]}
  BY <1>2, <1>5 DEF Headers, HeadersMade, Variant
<1> HIDE DEF S
<1>7. request[c] # NULL /\ option[c] # NULL
  BY <1>2, MarkAssumption DEF TypeInv, ControlInv, Started, req, opts
<1>8. E(lost) = IF \A h \in Headers : S(lost)[h] # NULL THEN "OK" ELSE "ALLOC"
  BY DEF Checked
<1>9. /\ faulty' = faulty \/ faulty' = faulty \cup {cur}
      /\ lost # {} => faulty' = faulty \cup {cur}
  BY <1>1, Zenon DEF Blame
<1>10. ASSUME NEW h \in Headers
       PROVE  /\ S(lost)[h] \in Api!Promised(h, req, opts, unix_ts, default_sec_dev) \cup {NULL}
              /\ Good(S(lost)[h]) \/ c \in faulty'
  <2>1. CASE h = "x_ss_stub"
    <3>1. stub \in Api!Promised(h, req, opts, unix_ts, default_sec_dev)
      BY <1>2, <2>1 DEF BodyHashed, Variant, Api!Promised
    <3>2. Good(stub) \/ c \in faulty
      BY <1>2 DEF BodyHashed, Variant
    <3> QED
      BY <1>5, <1>9, <2>1, <3>1, <3>2
  <2>2. CASE h # "x_ss_stub"
    <3>1. "finish" \in MadeBefore(h)
      BY <2>2 DEF MadeBefore, Variant
    <3> QED
      BY <1>2, <1>5, <1>9, <2>2, <3>1 DEF HeadersMade
  <2> QED
    BY <2>1, <2>2
<1>11. Api!Flawless(S(lost)) \/ c \in faulty'
  BY <1>10, SharedNames DEF Api!Flawless, Good
<1>12. unix_ts \in Api!Instants(c)
  BY <1>2 DEF InstantTaken, Started
<1>13. NULL \notin {S(lost)["x_argus"], S(lost)["x_ss_stub"]} =>
         S(lost)["x_argus"].stub = S(lost)["x_ss_stub"]
  BY <1>2, <1>5, <1>6 DEF HeadersMade
<1>14. Api!Acceptable(c, result'[c], c \in faulty')
  BY <1>2, <1>3, <1>6, <1>7, <1>8, <1>10, <1>11, <1>12, <1>13, SharedNames
  DEF Api!Acceptable, req, opts
<1>15. DeviceChosen(c)
  BY <1>2 DEF HeadersMade
<1>16. Api!Answerable(c)
  BY <1>2, SharedNames
  DEF IInv, ValueInv, CrashCaused, HasStrings, Variant, req, Api!Answerable
<1> QED
  BY <1>14, <1>15, <1>16

\* An acceptable answer is what the caller then holds.
LEMMA ReturnAnswered ==
  ASSUME NEW c \in Calls,
         UNCHANGED <<statics, request, option, began>>,
         Api!Acceptable(c, result'[c], c \in faulty'), Api!Answerable(c),
         result'[c].strings["x_argus"] # NULL => DeviceChosen(c)
  PROVE  Answered(c)'
BY DEF Answered, Api!Acceptable, Api!Answerable, Api!Instants, DeviceChosen, statics

\* Blaming the running call, or not, forgets no failure.
LEMMA BlameKept ==
  ASSUME NEW b, Blame(b)
  PROVE  /\ faulty' \in {faulty, faulty \cup {cur}}
         /\ b => cur \in faulty'
<1>1. (b => faulty' = faulty \cup {cur}) /\ (~b => faulty' = faulty)
  BY Zenon DEF Blame
<1>2. b \/ ~b
  OBVIOUS
<1> QED
  BY <1>1, <1>2

\* Every statement keeps the values: what it reads was put there for the running
\* call, and what it makes is what SignApi promises.
LEMMA NextValues == IInv /\ [Next]_vars => ValueInv'
<1> SUFFICES ASSUME IInv, [Next]_vars PROVE ValueInv'
  OBVIOUS
<1>i. /\ TypeInv /\ LocalInv
      /\ OneActive /\ InstantTaken /\ ListsTaken /\ TextsMade /\ BodyHashed /\ HeadersMade
      /\ CrashCaused
  BY DEF IInv, HeldInv, ValueInv
<1>c. /\ Busy => cur \in Calls /\ phase[cur] = "active"
      /\ Started => req \in Requests /\ opts \in Options
      /\ phase \in [Calls -> {"new", "active", "returned", "freed"}]
      /\ request \in [Calls -> Requests \cup {NULL}]
      /\ option \in [Calls -> Options \cup {NULL}]
      /\ began \in [Calls -> 0..MaxTime] /\ clock \in 0..MaxTime
      /\ result \in [Calls -> Result]
      /\ lists \in [Lists -> ListField] /\ str \in [Lists -> Text]
      /\ sig \in [Headers -> HeaderValue \cup {NULL}]
  BY <1>i DEF TypeInv, ControlInv, DataInv
<1>n. NULL \notin Calls /\ MaxTime \in Nat
  BY MarkAssumption, NumberAssumption
<1>t. /\ clock <= clock' /\ faulty \subseteq faulty'
      /\ default_sec_dev' = default_sec_dev \/ default_sec_dev = NULL
  BY <1>i, NothingTakenBack
<1>k. ASSUME UNCHANGED history
      PROVE  \A c \in Calls : phase'[c] = "returned" => Answered(c)'
  BY <1>k, AnswerKept DEF history
<1> USE DEF Goto, req, opts, Busy, Started, HasStrings, Variant, MadeBefore
<1>1. CASE Tick
  <2>1. OneActive'
    BY <1>1, <1>i, <1>c, <1>t, <1>n DEF Tick, OneActive, history
  <2>2. InstantTaken'
    BY <1>1, <1>i, <1>c, <1>t, <1>n DEF Tick, InstantTaken, Api!Instants, history, locals
  <2>3. ListsTaken' /\ TextsMade' /\ CrashCaused' /\ BodyHashed' /\ HeadersMade'
    BY <1>1, <1>i
    DEF Tick, ListsTaken, TextsMade, CrashCaused, BodyHashed, HeadersMade, DeviceChosen, history, heap, locals
  <2> QED
    BY <1>1, <1>k, <2>1, <2>2, <2>3 DEF ValueInv, Tick, history
<1>2. ASSUME NEW c \in Calls, NEW q \in Requests \cup {NULL},
             NEW o \in Options \cup {NULL}, Call(c, q, o)
      PROVE  ValueInv'
  <2>1. OneActive'
    BY <1>2, <1>i, <1>c, <1>n DEF Call, OneActive, statics
  <2>2. InstantTaken' /\ ListsTaken' /\ TextsMade' /\ CrashCaused' /\ BodyHashed' /\ HeadersMade'
    BY <1>2 DEF Call, InstantTaken, ListsTaken, TextsMade, CrashCaused, BodyHashed, HeadersMade
  <2>3. ASSUME NEW d \in Calls, phase'[d] = "returned" PROVE Answered(d)'
    BY <1>2, <1>c, <2>3, AnswerKept DEF Call
  <2> QED
    BY <2>1, <2>2, <2>3 DEF ValueInv
<1>r. ASSUME NEW r, Return(r), UNCHANGED statics, cur \in Calls, phase[cur] = "active",
             Api!Acceptable(cur, result'[cur], cur \in faulty'), Api!Answerable(cur),
             result'[cur].strings["x_argus"] # NULL => DeviceChosen(cur)
      PROVE  ValueInv'
  <2>1. OneActive'
    BY <1>r, <1>i, <1>c, <1>n DEF Return, OneActive, statics
  <2>2. InstantTaken' /\ ListsTaken' /\ TextsMade' /\ CrashCaused' /\ BodyHashed' /\ HeadersMade'
    BY <1>r DEF Return, InstantTaken, ListsTaken, TextsMade, CrashCaused, BodyHashed, HeadersMade
  <2>3. ASSUME NEW d \in Calls, phase'[d] = "returned" PROVE Answered(d)'
    <3>1. CASE d = cur
      <4>1. /\ UNCHANGED <<statics, request, option, began>>
            /\ Api!Acceptable(d, result'[d], d \in faulty') /\ Api!Answerable(d)
            /\ result'[d].strings["x_argus"] # NULL => DeviceChosen(d)
        BY <1>r, <3>1 DEF Return
      <4> QED
        BY <4>1, ReturnAnswered
    <3>2. CASE d # cur
      BY <1>r, <1>c, <2>3, <3>2, AnswerKept DEF Return
    <3> QED
      BY <3>1, <3>2
  <2> QED
    BY <2>1, <2>2, <2>3 DEF ValueInv
<1>a. ASSUME Busy, UNCHANGED <<clock, history, cur>>, pc' # "idle"
      PROVE  OneActive'
  BY <1>a, <1>i DEF OneActive, history
<1>3. CASE NullInput
  <2>1. cur \in Calls /\ phase[cur] = "active"
    BY <1>3, <1>c DEF NullInput
  <2>2. PICK c \in Calls : c = cur
    BY <2>1
  <2>3. /\ Api!Acceptable(cur, result'[cur], cur \in faulty') /\ Api!Answerable(cur)
        /\ result'[cur].strings["x_argus"] = NULL
    BY <1>3, <2>2, RefusalAcceptable
  <2> QED
    BY <1>3, <1>r, <2>1, <2>3 DEF NullInput
<1>4. CASE ReadClock
  <2>1. OneActive'
    BY <1>4, <1>a DEF ReadClock, statics
  <2>2. InstantTaken'
    BY <1>4, <1>i, <1>c, <1>n DEF ReadClock, InstantTaken, OneActive, Api!Instants, statics, history
  <2>3. ListsTaken' /\ TextsMade' /\ CrashCaused' /\ BodyHashed' /\ HeadersMade'
    BY <1>4 DEF ReadClock, ListsTaken, TextsMade, CrashCaused, BodyHashed, HeadersMade
  <2> QED
    BY <1>4, <1>k, <2>1, <2>2, <2>3 DEF ReadClock, ValueInv, history
<1>s. ASSUME Started, pc' \in PCs \ {"idle", "crashed", "clock"},
             UNCHANGED <<clock, history, cur, unix_ts>>
      PROVE  /\ OneActive' /\ InstantTaken' /\ req' = req /\ opts' = opts
             /\ HasStrings => CrashCaused'
  <2>1. OneActive'
    BY <1>s, <1>a
  <2>2. InstantTaken'
    BY <1>s, <1>i DEF InstantTaken, Api!Instants, history
  <2>3. HasStrings => CrashCaused'
    BY <1>s, <1>i DEF CrashCaused, history
  <2> QED
    BY <1>s, <2>1, <2>2, <2>3 DEF history
<1>5. CASE MergeBody
  <2>1. OneActive' /\ InstantTaken' /\ req' = req
    BY <1>5, <1>s DEF MergeBody, statics, PCs
  <2>2. ListsTaken'
    BY <1>5, <1>c, <2>1 DEF MergeBody, ListsTaken, Lists
  <2>3. TextsMade' /\ CrashCaused' /\ BodyHashed' /\ HeadersMade'
    BY <1>5 DEF MergeBody, TextsMade, CrashCaused, BodyHashed, HeadersMade
  <2> QED
    BY <1>5, <1>k, <2>1, <2>2, <2>3 DEF MergeBody, ValueInv, history
<1>6. CASE TakeParams
  <2>1. OneActive' /\ InstantTaken' /\ req' = req
    BY <1>6, <1>s DEF TakeParams, statics, PCs
  <2>2. ListsTaken'
    BY <1>6, <1>i, <1>c, <2>1 DEF TakeParams, ListsTaken, Lists
  <2>3. TextsMade' /\ CrashCaused' /\ BodyHashed' /\ HeadersMade'
    BY <1>6 DEF TakeParams, TextsMade, CrashCaused, BodyHashed, HeadersMade
  <2> QED
    BY <1>6, <1>k, <2>1, <2>2, <2>3 DEF TakeParams, ValueInv, history
<1>7. CASE EncodeLists
  <2>1. OneActive' /\ InstantTaken' /\ req' = req
    BY <1>7, <1>s DEF EncodeLists, statics, PCs
  <2>2. ListsTaken' /\ BodyHashed' /\ HeadersMade'
    BY <1>7 DEF EncodeLists, ListsTaken, BodyHashed, HeadersMade
  <2>3. req \in Requests
    BY <1>7, <1>c DEF EncodeLists
  <2>4. TextsMade'
    BY <1>7, <1>i, <2>1, <2>3, PromisedTexts DEF EncodeLists, ListsTaken, TextsMade, Lists
  <2>5. ~StaleBody(req)
    BY <1>7, <1>i, <2>3, ListChoice DEF EncodeLists, ListsTaken, Lists
  <2>6. CrashCaused'
    BY <1>7, <2>1, <2>5 DEF EncodeLists, CrashCaused
  <2> QED
    BY <1>7, <1>k, <2>1, <2>2, <2>4, <2>6 DEF EncodeLists, ValueInv, history
<1>7n. CASE ReadNull
  <2>1. Busy /\ UNCHANGED <<clock, history, cur>> /\ pc' = "crashed"
    BY <1>7n DEF ReadNull, statics
  <2>2. InstantTaken' /\ ListsTaken' /\ TextsMade' /\ BodyHashed' /\ HeadersMade'
    BY <2>1 DEF InstantTaken, ListsTaken, TextsMade, BodyHashed, HeadersMade
  <2>3. req \in Requests
    BY <1>7n, <1>c DEF ReadNull
  <2>4. StaleBody(req)
    BY <1>7n, <1>i, <2>3, ListChoice DEF ReadNull, ListsTaken, Lists
  <2>5. CrashCaused'
    BY <2>1, <2>4 DEF CrashCaused, history
  <2> QED
    BY <1>a, <1>k, <2>1, <2>2, <2>5 DEF ValueInv, history
<1>8. CASE TakeRawBody
  <2>1. OneActive' /\ InstantTaken' /\ req' = req /\ CrashCaused'
    BY <1>8, <1>s DEF TakeRawBody, statics, PCs
  <2>2. ListsTaken' /\ BodyHashed' /\ HeadersMade'
    BY <1>8 DEF TakeRawBody, ListsTaken, BodyHashed, HeadersMade
  <2>3. req \in Requests
    BY <1>8, <1>c DEF TakeRawBody
  <2>4. str'["data"] = Api!FormText(req)
    BY <1>8, <1>i, <1>c, <2>3, PromisedTexts DEF TakeRawBody, TextsMade, Lists, Api!FormText
  <2>5. TextsMade'
    BY <1>8, <1>i, <1>c, <2>1, <2>4 DEF TakeRawBody, TextsMade, Lists
  <2> QED
    BY <1>8, <1>k, <2>1, <2>2, <2>5 DEF TakeRawBody, ValueInv, history
<1>9. CASE HashBody
  <2>1. OneActive' /\ InstantTaken' /\ req' = req /\ CrashCaused'
    BY <1>9, <1>s DEF HashBody, statics, PCs
  <2>2. ListsTaken' /\ HeadersMade'
    BY <1>9 DEF HashBody, ListsTaken, HeadersMade
  <2>3. TextsMade'
    BY <1>9, <1>i, <2>1 DEF HashBody, TextsMade
  <2>4. PICK sound \in Succeeds({"digest"}) :
          stub' = [of |-> str["data"], sound |-> sound] /\ Blame(~sound)
    BY <1>9 DEF HashBody
  <2>5. sound \in BOOLEAN
    BY DEF Succeeds
  <2>6. stub' \in Api!Stubs(req)
    BY <1>9, <1>i, <2>4, <2>5 DEF HashBody, TextsMade, Api!Stubs
  <2>7. Good(stub') \/ cur \in faulty'
    <3>1. stub' # NULL
      BY <1>i, NextData, MarkAssumption DEF TypeInv, DataInv, HeaderValue
    <3>2. CASE sound
      BY <2>4, <3>1, <3>2 DEF Good, Api!Sound
    <3>3. CASE ~sound
      BY <2>4, <3>3, BlameKept
    <3> QED
      BY <3>2, <3>3
  <2>8. BodyHashed'
    BY <1>9, <2>1, <2>6, <2>7 DEF HashBody, BodyHashed
  <2> QED
    BY <1>9, <1>k, <2>1, <2>2, <2>3, <2>8 DEF HashBody, ValueInv, history
<1>10. CASE Gorgon
  <2>1. OneActive' /\ InstantTaken' /\ req' = req /\ opts' = opts /\ CrashCaused'
    BY <1>10, <1>s DEF Gorgon, statics, PCs
  <2>2. ListsTaken'
    BY <1>10 DEF Gorgon, ListsTaken
  <2>3. TextsMade' /\ BodyHashed'
    BY <1>10, <1>i, <1>t, <2>1 DEF Gorgon, TextsMade, BodyHashed, Good
  <2>4. PICK sound \in Succeeds({"digest"}), lost \in Missing({"x_khronos", "x_tt_request_ticket"}) :
          /\ sig' = [sig EXCEPT
               !["x_gorgon"]  = GorgonHeader(Variants[opts.version], sound),
               !["x_khronos"] = IF "x_khronos" \in lost THEN NULL ELSE [at |-> unix_ts],
               !["x_tt_request_ticket"] =
                 IF "x_tt_request_ticket" \in lost THEN NULL ELSE [at |-> 1000 * unix_ts]]
          /\ Blame(~sound \/ lost # {})
    BY <1>10, ZenonT(40) DEF Gorgon
  <2>5. sound \in BOOLEAN
    BY DEF Succeeds
  <2> DEFINE g == GorgonHeader(Variants[opts.version], sound)
  <2>6. g \in Api!Gorgons(req, opts, unix_ts) /\ g \in GorgonValue
    BY <1>10, <1>i, <2>5, PromisedGorgon, GorgonType DEF Gorgon
  <2>7. g # NULL /\ Api!Sound(g) = sound
    <3>1. g # NULL
      <4> HIDE DEF g
      <4> QED
        BY <2>6, MarkAssumption DEF HeaderValue
    <3>2. Api!Sound(g) = sound
      BY <2>5 DEF Api!Sound, GorgonHeader
    <3> QED
      BY <3>1, <3>2
  <2> HIDE DEF g
  <2>8. /\ sig'["x_gorgon"] = g
        /\ sig'["x_khronos"] = IF "x_khronos" \in lost THEN NULL ELSE [at |-> unix_ts]
        /\ sig'["x_tt_request_ticket"] =
              IF "x_tt_request_ticket" \in lost THEN NULL ELSE [at |-> 1000 * unix_ts]
    BY <1>c, <2>4 DEF Headers, g
  <2>9. \A t \in Int : Good([at |-> t])
    BY MarkAssumption DEF Good, Api!Sound, HeaderValue, TimeValue
  <2>10. unix_ts \in Int /\ 1000 * unix_ts \in Int
    BY <1>i DEF TypeInv, DataInv
  <2>11. ~sound \/ lost # {} => cur \in faulty'
    BY <2>4, BlameKept
  <2>12. ASSUME NEW h \in Headers, "device" \in MadeBefore(h)
         PROVE  /\ sig'[h] \in Api!Promised(h, req, opts, unix_ts, default_sec_dev) \cup {NULL}
                /\ Good(sig'[h]) \/ cur \in faulty'
    <3>1. CASE h = "x_gorgon"
      BY <2>5, <2>6, <2>7, <2>8, <2>11, <3>1 DEF Good, Api!Promised
    <3>2. CASE h = "x_khronos"
      BY <2>8, <2>9, <2>10, <2>11, <3>2 DEF Api!Promised
    <3>3. CASE h = "x_tt_request_ticket"
      BY <2>8, <2>9, <2>10, <2>11, <3>3 DEF Api!Promised
    <3> QED
      BY <2>12, <3>1, <3>2, <3>3 DEF Headers
  <2>13. sig'["x_gorgon"] # NULL
    BY <2>7, <2>8
  <2>14. HeadersMade'
    BY <1>10, <2>1, <2>12, <2>13, ZenonT(40) DEF Gorgon, HeadersMade, statics
  <2> QED
    BY <1>10, <1>k, <2>1, <2>2, <2>3, <2>14 DEF Gorgon, ValueInv, history
<1>11. CASE BadVersion
  <2>1. cur \in Calls /\ phase[cur] = "active"
    BY <1>11, <1>c DEF BadVersion
  <2>2. PICK c \in Calls : c = cur
    BY <2>1
  <2>3. /\ Api!Acceptable(cur, result'[cur], cur \in faulty') /\ Api!Answerable(cur)
        /\ result'[cur].strings["x_argus"] = NULL
    BY <1>11, <2>2, RefusalAcceptable
  <2> QED
    BY <1>11, <1>r, <2>1, <2>3 DEF BadVersion
<1>12. CASE InitDeviceId
  <2>1. OneActive' /\ InstantTaken' /\ req' = req /\ opts' = opts /\ CrashCaused'
    BY <1>12, <1>s DEF InitDeviceId, locals, PCs
  <2>2. ListsTaken' /\ TextsMade' /\ BodyHashed'
    BY <1>12, <1>i, <2>1
    DEF InitDeviceId, ListsTaken, TextsMade, BodyHashed, heap, locals
  <2>3. DeviceChosen(cur)'
    BY <1>12, <1>i, <2>1, MarkAssumption
    DEF InitDeviceId, NeedsDevice, DeviceChosen, TypeInv, DataInv
  <2>4. ASSUME NEW h \in Headers, "argus" \in MadeBefore(h)
        PROVE  /\ sig[h] \in Api!Promised(h, req, opts, unix_ts, default_sec_dev') \cup {NULL}
               /\ Good(sig[h]) \/ cur \in faulty
    <3>1. h # "x_argus" /\ "device" \in MadeBefore(h)
      BY <2>4
    <3>2. Api!Promised(h, req, opts, unix_ts, default_sec_dev)
            = Api!Promised(h, req, opts, unix_ts, default_sec_dev')
      BY <3>1, PromiseStays
    <3> QED
      BY <1>12, <1>i, <3>1, <3>2 DEF InitDeviceId, HeadersMade
  <2>5. sig["x_gorgon"] # NULL
    BY <1>12, <1>i DEF InitDeviceId, HeadersMade
  <2>6. HeadersMade'
    BY <1>12, <2>1, <2>3, <2>4, <2>5 DEF InitDeviceId, HeadersMade, heap, locals
  <2> QED
    BY <1>12, <1>k, <2>1, <2>2, <2>6 DEF InitDeviceId, ValueInv, history
<1>13. CASE Argus
  <2>1. OneActive' /\ InstantTaken' /\ req' = req /\ opts' = opts /\ CrashCaused'
    BY <1>13, <1>s DEF Argus, statics, PCs
  <2>2. ListsTaken'
    BY <1>13 DEF Argus, ListsTaken
  <2>3. TextsMade' /\ BodyHashed'
    BY <1>13, <1>i, <1>t, <2>1 DEF Argus, TextsMade, BodyHashed, Good
  <2>4. PICK sound \in Succeeds({"digest", "alloc"}), lost \in Missing({"x_argus"}) :
          /\ sig' = [sig EXCEPT !["x_argus"] = IF lost # {} THEN NULL ELSE ArgusHeader(sound)]
          /\ Blame(~sound \/ lost # {})
    BY <1>13 DEF Argus
  <2>5. sound \in BOOLEAN
    BY DEF Succeeds
  <2> DEFINE a == ArgusHeader(sound)
  <2>6. a \in Api!Arguses(req, opts, unix_ts, default_sec_dev) /\ a \in ArgusValue
    BY <1>13, <1>i, <2>5, PromisedArgus, ArgusType DEF Argus
  <2>7. Api!Sound(a) = sound /\ a.stub = stub
    BY <2>5 DEF Api!Sound, ArgusHeader
  <2> HIDE DEF a
  <2>8. a # NULL
    BY <2>6, MarkAssumption DEF HeaderValue
  <2>9. /\ sig'["x_argus"] = IF lost # {} THEN NULL ELSE a
        /\ \A h \in Headers : h # "x_argus" => sig'[h] = sig[h]
    BY <1>c, <2>4 DEF Headers, a
  <2>10. ~sound \/ lost # {} => cur \in faulty'
    BY <2>4, BlameKept
  <2>11. ASSUME NEW h \in Headers, "ladon" \in MadeBefore(h)
         PROVE  /\ sig'[h] \in Api!Promised(h, req, opts, unix_ts, default_sec_dev) \cup {NULL}
                /\ Good(sig'[h]) \/ cur \in faulty'
    <3>1. CASE h = "x_argus"
      BY <2>5, <2>6, <2>7, <2>8, <2>9, <2>10, <3>1 DEF Good, Api!Promised
    <3>2. CASE h # "x_argus"
      <4>1. "argus" \in MadeBefore(h)
        BY <2>11, <3>2
      <4> QED
        BY <1>13, <1>i, <1>t, <2>9, <3>2, <4>1 DEF Argus, HeadersMade
    <3> QED
      BY <3>1, <3>2
  <2>12. /\ DeviceChosen(cur)' /\ (sig'["x_argus"] # NULL => sig'["x_argus"].stub = stub)
         /\ sig'["x_gorgon"] # NULL
    BY <1>13, <1>i, <2>1, <2>7, <2>9 DEF Headers, Argus, HeadersMade, DeviceChosen, statics
  <2>13. HeadersMade'
    BY <1>13, <2>1, <2>11, <2>12 DEF Argus, HeadersMade, statics
  <2> QED
    BY <1>13, <1>k, <2>1, <2>2, <2>3, <2>13 DEF Argus, ValueInv, history
<1>14. CASE Ladon
  <2>1. OneActive' /\ InstantTaken' /\ req' = req /\ opts' = opts /\ CrashCaused'
    BY <1>14, <1>s DEF Ladon, statics, PCs
  <2>2. ListsTaken'
    BY <1>14 DEF Ladon, ListsTaken
  <2>3. TextsMade' /\ BodyHashed'
    BY <1>14, <1>i, <1>t, <2>1 DEF Ladon, TextsMade, BodyHashed, Good
  <2>4. PICK sound \in Succeeds({"digest"}) :
          sig' = [sig EXCEPT !["x_ladon"] = LadonHeader(sound)] /\ Blame(~sound)
    BY <1>14 DEF Ladon
  <2>5. sound \in BOOLEAN
    BY DEF Succeeds
  <2> DEFINE v == LadonHeader(sound)
  <2>6. v \in Api!Ladons(opts, unix_ts) /\ v \in LadonValue
    BY <1>14, <1>i, <2>5, PromisedLadon, LadonType DEF Ladon
  <2>7. Api!Sound(v) = sound
    BY <2>5 DEF Api!Sound, LadonHeader
  <2> HIDE DEF v
  <2>8. v # NULL
    BY <2>6, MarkAssumption DEF HeaderValue
  <2>9. /\ sig'["x_ladon"] = v
        /\ \A h \in Headers : h # "x_ladon" => sig'[h] = sig[h]
        /\ "x_argus" \in Headers
    BY <1>c, <2>4 DEF Headers, v
  <2>10. ~sound => cur \in faulty'
    BY <2>4, BlameKept
  <2>11. ASSUME NEW h \in Headers, "finish" \in MadeBefore(h)
         PROVE  /\ sig'[h] \in Api!Promised(h, req, opts, unix_ts, default_sec_dev) \cup {NULL}
                /\ Good(sig'[h]) \/ cur \in faulty'
    <3>1. CASE h = "x_ladon"
      BY <2>5, <2>6, <2>7, <2>8, <2>9, <2>10, <3>1 DEF Good, Api!Promised
    <3>2. CASE h # "x_ladon"
      <4>1. "ladon" \in MadeBefore(h)
        BY <2>11, <3>2
      <4> QED
        BY <1>14, <1>i, <1>t, <2>9, <3>2, <4>1 DEF Ladon, HeadersMade
    <3> QED
      BY <3>1, <3>2
  <2>12. /\ DeviceChosen(cur)' /\ (sig'["x_argus"] # NULL => sig'["x_argus"].stub = stub)
         /\ sig'["x_gorgon"] # NULL /\ sig'["x_ladon"] # NULL
    BY <1>14, <1>i, <2>1, <2>8, <2>9 DEF Headers, Ladon, HeadersMade, DeviceChosen, statics
  <2>13. HeadersMade'
    BY <1>14, <2>1, <2>11, <2>12 DEF Ladon, HeadersMade, statics
  <2> QED
    BY <1>14, <1>k, <2>1, <2>2, <2>3, <2>13 DEF Ladon, ValueInv, history
<1>15. CASE Finish
  <2>1. cur \in Calls /\ phase[cur] = "active"
    BY <1>15, <1>c DEF Finish
  <2>2. PICK c \in Calls : c = cur
    BY <2>1
  <2>3. /\ Api!Acceptable(cur, result'[cur], cur \in faulty') /\ Api!Answerable(cur)
        /\ result'[cur].strings["x_argus"] # NULL => DeviceChosen(cur)
    BY <1>15, <2>2, FinishAcceptable
  <2> QED
    BY <1>15, <1>r, <2>1, <2>3 DEF Finish
<1>16. CASE OutOfMemory
  <2>1. Busy /\ UNCHANGED <<clock, history, cur>> /\ pc' = "crashed"
    BY <1>16 DEF OutOfMemory, UncheckedAllocation, statics
  <2>2. cur' \in faulty'
    BY <1>16, <2>1 DEF OutOfMemory, Blame
  <2>3. InstantTaken' /\ ListsTaken' /\ TextsMade' /\ CrashCaused' /\ BodyHashed' /\ HeadersMade'
    BY <2>1, <2>2 DEF InstantTaken, ListsTaken, TextsMade, CrashCaused, BodyHashed, HeadersMade
  <2> QED
    BY <1>a, <1>k, <2>1, <2>3 DEF ValueInv, history
<1>17. ASSUME NEW c \in Calls, Free(c) PROVE ValueInv'
  <2>1. OneActive'
    BY <1>17, <1>i, <1>c DEF Free, OneActive, statics
  <2>2. InstantTaken' /\ ListsTaken' /\ TextsMade' /\ CrashCaused' /\ BodyHashed' /\ HeadersMade'
    BY <1>17, <1>i DEF Free, InstantTaken, ListsTaken, TextsMade, CrashCaused, BodyHashed, HeadersMade
  <2>3. ASSUME NEW d \in Calls, phase'[d] = "returned" PROVE Answered(d)'
    BY <1>17, <1>c, <2>3, AnswerKept DEF Free
  <2> QED
    BY <2>1, <2>2, <2>3 DEF ValueInv
<1>18. CASE UNCHANGED vars
  <2>1. OneActive' /\ InstantTaken' /\ ListsTaken'
    BY <1>18, <1>i
    DEF vars, statics, history, heap, locals, OneActive, InstantTaken, Api!Instants, ListsTaken
  <2>2. TextsMade' /\ CrashCaused' /\ BodyHashed' /\ HeadersMade'
    BY <1>18, <1>i
    DEF vars, statics, history, heap, locals, TextsMade, CrashCaused, BodyHashed, HeadersMade, DeviceChosen
  <2> QED
    BY <1>18, <1>k, <2>1, <2>2 DEF ValueInv, vars, history
<1> QED
  BY <1>1, <1>2, <1>3, <1>4, <1>5, <1>6, <1>7, <1>7n, <1>8, <1>9, <1>10, <1>11, <1>12,
     <1>13, <1>14, <1>15, <1>16, <1>17, <1>18 DEF Next, Step

--------------------------------------------------------------------------------
\* IInv is inductive: at every statement the heap is accounted for and every value
\* is one that SignApi promises, whatever fails and however calls follow each other.
THEOREM Inductive == Spec => []IInv
<1>1. Init => IInv
  BY InitHeap, InitValues DEF IInv
<1>2. IInv /\ [Next]_vars => IInv'
  BY NextData, NextLocal, NextHeap, NextValues DEF IInv, HeldInv
<1> QED
  BY <1>1, <1>2, PTL DEF Spec

\* A call crashes for its arguments only with a count left over beside a NULL body
\* list, and with one it is never answered; other left-over counts are harmless.
THEOREM CountsBelieved == Spec => []StaleCounts
<1>1. IInv => StaleCounts
  <2> SUFFICES ASSUME IInv PROVE StaleCounts
    OBVIOUS
  <2>1. ASSUME pc = "encode" PROVE Readable(lists["params"]) /\ Readable(lists["cookie"])
    <3>1. req \in Requests
      BY <2>1 DEF IInv, HeldInv, TypeInv, ControlInv, Started
    <3> QED
      BY <2>1, <3>1, ListChoice DEF IInv, ValueInv, ListsTaken
  <2>2. pc = "crashed" /\ cur \notin faulty => StaleBody(req)
    BY DEF IInv, ValueInv, CrashCaused
  <2>3. \A c \in Calls : phase[c] = "returned" => Api!Answerable(c)
    BY DEF IInv, ValueInv, Answered
  <2> QED
    BY <2>1, <2>2, <2>3, SharedNames DEF StaleCounts, Api!Answerable
<1> QED
  BY <1>1, Inductive, PTL

\* What the struct of a call with all its strings holds, at one instant.
LEMMA CompleteStrings ==
  ASSUME IInv, NEW c \in Calls, Complete(c)
  PROVE  /\ request[c] # NULL /\ option[c] # NULL
         /\ \A h \in Headers : Of(c, h) # NULL
         /\ Api!Flawless(result[c].strings) \/ c \in faulty
         /\ Of(c, "x_argus").stub = Of(c, "x_ss_stub")
         /\ \E t \in Api!Instants(c) :
              /\ Of(c, "x_gorgon") \in Api!Gorgons(request[c], option[c], t)
              /\ Of(c, "x_argus") \in Api!Arguses(request[c], option[c], t, default_sec_dev)
              /\ Of(c, "x_ladon") \in Api!Ladons(option[c], t)
              /\ Of(c, "x_ss_stub") \in Api!Stubs(request[c])
              /\ Of(c, "x_khronos") = [at |-> t]
              /\ Of(c, "x_tt_request_ticket") = [at |-> 1000 * t]
<1>1. Api!Acceptable(c, result[c], c \in faulty) /\ result[c].error = "OK"
  BY DEF IInv, ValueInv, Complete, Answered
<1>2. request[c] # NULL /\ option[c] # NULL /\ option[c].version \in DOMAIN Variants
  BY <1>1, SharedNames DEF Api!Acceptable, Failed
<1>3. /\ \A h \in Headers : Of(c, h) # NULL
      /\ Api!Flawless(result[c].strings) \/ c \in faulty
      /\ NULL \notin {Of(c, "x_argus"), Of(c, "x_ss_stub")} =>
           Of(c, "x_argus").stub = Of(c, "x_ss_stub")
  BY <1>1, <1>2, SharedNames DEF Api!Acceptable, Of
<1>4. PICK t \in Api!Instants(c) : \A h \in Headers :
        Of(c, h) \in Api!Promised(h, request[c], option[c], t, default_sec_dev) \cup {NULL}
  BY <1>1, <1>2, SharedNames DEF Api!Acceptable, Of
<1>5. \A h \in Headers : Of(c, h) \in Api!Promised(h, request[c], option[c], t, default_sec_dev)
  BY <1>3, <1>4
<1> QED
  BY <1>2, <1>3, <1>5 DEF Headers, Api!Promised

\* The error code of a returned struct tells its caller that all strings are there,
\* or none, or, after a failed allocation, X-Gorgon and X-Ladon and not all others.
THEOREM ErrorHonest == Spec => []ErrorTellsStrings
<1>1. IInv => ErrorTellsStrings
  <2> SUFFICES ASSUME IInv, NEW c \in Calls, phase[c] = "returned"
               PROVE  LET r == result[c] IN
                      /\ r.error = "OK" <=> \A h \in Headers : r.strings[h] # NULL
                      /\ r.error = "ALLOC" =>
                           /\ c \in faulty
                           /\ \A h \in NeverMissing : r.strings[h] # NULL
                           /\ \E h \in Headers \ NeverMissing : r.strings[h] = NULL
                      /\ r.error \in {"NULL_INPUT", "BAD_VERSION"} => r.strings = NoStrings
    BY DEF ErrorTellsStrings
  <2>1. Api!Acceptable(c, result[c], c \in faulty)
    BY DEF IInv, ValueInv, Answered
  <2>2. CASE result[c] \in {Failed("NULL_INPUT"), Failed("BAD_VERSION")}
    BY <2>2 DEF Failed, NoStrings, Headers
  <2>3. CASE /\ result[c].error = IF \A h \in Headers : result[c].strings[h] # NULL
                                  THEN "OK" ELSE "ALLOC"
             /\ Api!Flawless(result[c].strings) \/ c \in faulty
             /\ NULL \notin {result[c].strings["x_gorgon"], result[c].strings["x_ladon"]}
    BY <2>3, SharedNames DEF Api!Flawless, NeverMissing
  <2> QED
    BY <2>1, <2>2, <2>3, SharedNames DEF Api!Acceptable
<1> QED
  BY <1>1, Inductive, PTL

\* All headers of one result carry one instant, though the clock may move between
\* any two statements.
THEOREM OneInstant == Spec => []SameInstant
<1>1. IInv => SameInstant
  <2> SUFFICES ASSUME IInv, NEW c \in Calls, Complete(c)
               PROVE  LET t == Of(c, "x_khronos").at IN
                      /\ Of(c, "x_tt_request_ticket").at = 1000 * t
                      /\ Of(c, "x_ladon").at = t
                      /\ Of(c, "x_gorgon").at = t % Word
                      /\ Of(c, "x_argus").at = (2 * t) % Word
    BY DEF SameInstant
  <2> QED
    BY CompleteStrings DEF Api!Gorgons, Api!Arguses, Api!Ladons
<1> QED
  BY <1>1, Inductive, PTL

\* X-Argus and X-Ladon of one result speak of one app, one licence and one SDK
\* version, given or defaulted, and of the device given or that of the process.
THEOREM OneApp == Spec => []SameApp
<1>1. IInv => SameApp
  <2> SUFFICES ASSUME IInv, NEW c \in Calls, Complete(c)
               PROVE  LET o == option[c]
                          a == Of(c, "x_argus")
                      IN  /\ Of(c, "x_ladon").aid = a.ids["aid"]
                          /\ Of(c, "x_ladon").license_id = a.ids["license_id"]
                          /\ \A n \in IdNames : a.ids[n] =
                               IF o.ids[n] = Unset THEN DefaultIds[n] ELSE o.ids[n]
                          /\ a.device = IF o.sec_device_id = Unset THEN default_sec_dev
                                        ELSE o.sec_device_id
    BY DEF SameApp
  <2>1. "aid" \in IdNames /\ "license_id" \in IdNames
    BY DEF IdNames
  <2>2. PICK t \in Api!Instants(c) :
          /\ Of(c, "x_argus") \in Api!Arguses(request[c], option[c], t, default_sec_dev)
          /\ Of(c, "x_ladon") \in Api!Ladons(option[c], t)
    BY CompleteStrings
  <2>3. /\ Of(c, "x_argus").ids = [n \in IdNames |-> Api!IdOf(option[c], n)]
        /\ Of(c, "x_argus").device = IF option[c].sec_device_id = Unset THEN default_sec_dev
                                     ELSE option[c].sec_device_id
    BY <2>2, SharedNames DEF Api!Arguses
  <2>4. /\ Of(c, "x_ladon").aid = Api!IdOf(option[c], "aid")
        /\ Of(c, "x_ladon").license_id = Api!IdOf(option[c], "license_id")
    BY <2>2 DEF Api!Ladons
  <2> QED
    BY <2>1, <2>3, <2>4 DEF Api!IdOf
<1> QED
  BY <1>1, Inductive, PTL

\* X-Argus carries the X-SS-Stub and the query that X-Gorgon signs; which body each
\* of X-Gorgon and X-SS-Stub signs is settled for every request, two lists and raw
\* bodies included, and is the same for a caller that gave one list.
THEOREM OneBody == Spec => []SameBody
<1>1. IInv => SameBody
  <2> SUFFICES ASSUME IInv, NEW c \in Calls, Complete(c)
               PROVE  LET q == request[c] IN
                      /\ Of(c, "x_argus").stub = Of(c, "x_ss_stub")
                      /\ Of(c, "x_argus").query = Of(c, "x_gorgon").params
                      /\ Of(c, "x_gorgon").body = Api!PayloadText(q)
                      /\ Of(c, "x_ss_stub").of = Api!FormText(q)
                      /\ (q.raw_body = NULL /\ (q.data.count = 0 \/ q.payload.count = 0)) =>
                            Of(c, "x_gorgon").body = Of(c, "x_ss_stub").of
    BY DEF SameBody
  <2>1. Of(c, "x_argus").query = Of(c, "x_gorgon").params
    BY CompleteStrings DEF Api!Gorgons, Api!Arguses
  <2>2. /\ Of(c, "x_gorgon").body = Api!PayloadText(request[c])
        /\ Of(c, "x_ss_stub").of = Api!FormText(request[c])
    BY CompleteStrings DEF Api!Gorgons, Api!Stubs
  <2>3. request[c] \in Request
    BY CompleteStrings, RequestAssumption DEF IInv, HeldInv, TypeInv, ControlInv
  <2>4. request[c].data.count \in Nat /\ request[c].payload.count \in Nat
    BY <2>3 DEF Request, ListField
  <2>5. (/\ request[c].raw_body = NULL
         /\ request[c].data.count = 0 \/ request[c].payload.count = 0)
        => Api!PayloadText(request[c]) = Api!FormText(request[c])
    BY <2>4 DEF Api!PayloadText, Api!FormText, Api!Either, Api!Entries
  <2> QED
    BY <2>1, <2>2, <2>5, CompleteStrings
<1> QED
  BY <1>1, Inductive, PTL

\* Two sound values that one promise allows are the same value.
LEMMA SoundAreEqual ==
  ASSUME NEW q, NEW o, NEW t, NEW dev
  PROVE  /\ \A v, w \in Api!Gorgons(q, o, t) : Api!Sound(v) /\ Api!Sound(w) => v = w
         /\ \A v, w \in Api!Ladons(o, t) : Api!Sound(v) /\ Api!Sound(w) => v = w
         /\ \A v, w \in Api!Stubs(q) : Api!Sound(v) /\ Api!Sound(w) => v = w
         /\ \A v, w \in Api!Arguses(q, o, t, dev) :
              Api!Sound(v) /\ Api!Sound(w) /\ v.stub = w.stub => v = w
<1>1. \A v, w \in Api!Gorgons(q, o, t) : Api!Sound(v) /\ Api!Sound(w) => v = w
  BY DEF Api!Gorgons, Api!Sound
<1>2. \A v, w \in Api!Ladons(o, t) : Api!Sound(v) /\ Api!Sound(w) => v = w
  BY DEF Api!Ladons, Api!Sound
<1>3. \A v, w \in Api!Stubs(q) : Api!Sound(v) /\ Api!Sound(w) => v = w
  BY DEF Api!Stubs, Api!Sound
<1>4. \A v, w \in Api!Arguses(q, o, t, dev) :
        Api!Sound(v) /\ Api!Sound(w) /\ v.stub = w.stub => v = w
  BY DEF Api!Arguses, Api!Sound
<1> QED
  BY <1>1, <1>2, <1>3, <1>4

\* With every random input and the timestamp pinned, equal calls in which nothing
\* failed return equal structs, however many calls lie between them.
THEOREM Repeatable == Spec => []Reproducible
<1>1. IInv => Reproducible
  <2> SUFFICES ASSUME IInv, NEW c \in Calls, NEW d \in Calls,
                      Complete(c), Complete(d), {c, d} \cap faulty = {},
                      request[c] = request[d], option[c] = option[d], Pinned(option[c])
               PROVE  result[c] = result[d]
    BY DEF Reproducible
  <2> DEFINE q == request[c]
             o == option[c]
             t == o.timestamp
  <2>1. Api!Instants(c) = {t} /\ Api!Instants(d) = {t}
    BY DEF Api!Instants, Pinned
  <2>2. \A h \in Headers : Api!Sound(Of(c, h)) /\ Api!Sound(Of(d, h))
    BY CompleteStrings, SharedNames DEF Api!Flawless, Of
  <2>3. /\ Of(c, "x_gorgon") \in Api!Gorgons(q, o, t)
        /\ Of(c, "x_argus") \in Api!Arguses(q, o, t, default_sec_dev)
        /\ Of(c, "x_ladon") \in Api!Ladons(o, t)
        /\ Of(c, "x_ss_stub") \in Api!Stubs(q)
        /\ Of(c, "x_khronos") = [at |-> t]
        /\ Of(c, "x_tt_request_ticket") = [at |-> 1000 * t]
        /\ Of(c, "x_argus").stub = Of(c, "x_ss_stub")
    BY <2>1, CompleteStrings
  <2>4. /\ Of(d, "x_gorgon") \in Api!Gorgons(q, o, t)
        /\ Of(d, "x_argus") \in Api!Arguses(q, o, t, default_sec_dev)
        /\ Of(d, "x_ladon") \in Api!Ladons(o, t)
        /\ Of(d, "x_ss_stub") \in Api!Stubs(q)
        /\ Of(d, "x_khronos") = [at |-> t]
        /\ Of(d, "x_tt_request_ticket") = [at |-> 1000 * t]
        /\ Of(d, "x_argus").stub = Of(d, "x_ss_stub")
    BY <2>1, CompleteStrings
  <2> HIDE DEF q, o, t
  <2>5. Of(c, "x_ss_stub") = Of(d, "x_ss_stub")
    BY <2>2, <2>3, <2>4, SoundAreEqual DEF Headers
  <2>6. /\ Of(c, "x_gorgon") = Of(d, "x_gorgon")
        /\ Of(c, "x_ladon") = Of(d, "x_ladon")
        /\ Of(c, "x_argus") = Of(d, "x_argus")
    BY <2>2, <2>3, <2>4, <2>5, SoundAreEqual DEF Headers
  <2>7. \A h \in Headers : result[c].strings[h] = result[d].strings[h]
    BY <2>3, <2>4, <2>5, <2>6 DEF Headers, Of
  <2>8. result[c] \in Result /\ result[d] \in Result
    BY DEF IInv, HeldInv, TypeInv, DataInv
  <2>9. result[c].strings = result[d].strings
    BY <2>7, <2>8 DEF Result
  <2> QED
    BY <2>8, <2>9 DEF Result, Complete
<1> QED
  BY <1>1, Inductive, PTL

(***************************************************************************)
(* Signer implements SignApi.                                              *)
(***************************************************************************)
\* The caller sees nothing of a statement that neither returns nor crashes, but
\* that something may have failed in it.
LEMMA StatementUnseen ==
  ASSUME TypeInv, Busy, pc' \in PCs \ {"idle", "crashed"},
         UNCHANGED <<statics, history>>, faulty' \in {faulty, faulty \cup {cur}}
  PROVE  [Api!Next]_(Api!vars)
<1>1. cur \in Calls /\ phase[cur] = "active"
  BY DEF TypeInv, ControlInv
<1>2. pc # "crashed" /\ pc' # "crashed"
  BY DEF Busy
<1>3. CASE faulty' = faulty
  BY <1>2, <1>3 DEF Api!vars, statics, history
<1>4. CASE faulty' = faulty \cup {cur}
  <2>1. Api!Fail(cur)
    BY <1>1, <1>2, <1>4 DEF Api!Fail, statics, history
  <2> QED
    BY <1>1, <2>1 DEF Api!Next
<1> QED
  BY <1>3, <1>4

\* A return with an acceptable answer is the return of SignApi.
LEMMA ReturnSeen ==
  ASSUME IInv, [Next]_vars, NEW c \in Calls, c = cur, pc \notin {"idle", "crashed"},
         NEW r, Return(r), UNCHANGED statics, faulty' \in {faulty, faulty \cup {cur}},
         Api!Acceptable(c, result'[c], c \in faulty'), Api!Answerable(c)
  PROVE  Api!Next
<1>1. TypeInv /\ TypeInv'
  BY NextData DEF IInv, HeldInv
<1>2. phase[c] = "active" /\ result \in [Calls -> Result] /\ result' \in [Calls -> Result]
  BY <1>1 DEF TypeInv, ControlInv, DataInv, Busy
<1>3. result' \in [Calls -> Api!Result]
  BY <1>2, SharedNames
<1>4. \A d \in Calls \ {c} : result'[d] = result[d]
  BY <1>2 DEF Return
<1>5. Api!Return(c)
  BY <1>2, <1>3, <1>4 DEF Api!Return, Return, statics
<1> QED
  BY <1>5 DEF Api!Next

\* Every step of Signer is one of SignApi, or is not seen by the caller.
LEMMA NextImplements == IInv /\ [Next]_vars => [Api!Next]_(Api!vars)
<1> SUFFICES ASSUME IInv, [Next]_vars PROVE [Api!Next]_(Api!vars)
  OBVIOUS
<1>i. TypeInv /\ OneActive
  BY DEF IInv, HeldInv, ValueInv
<1>c. /\ Busy => cur \in Calls /\ phase[cur] = "active"
      /\ pc = "idle" => \A c \in Calls : phase[c] # "active"
  BY <1>i, MarkAssumption DEF TypeInv, ControlInv, OneActive
<1> USE DEF Goto, Busy, PCs, heap
<1>1. CASE Tick
  <2>1. clock \in Int /\ MaxTime \in Int
    BY <1>i, NumberAssumption DEF TypeInv, DataInv
  <2>2. Api!Tick
    BY <1>1, <2>1 DEF Tick, Api!Tick, history
  <2> QED
    BY <2>2 DEF Api!Next
<1>2. ASSUME NEW c \in Calls, NEW q \in Requests \cup {NULL},
             NEW o \in Options \cup {NULL}, Call(c, q, o)
      PROVE  [Api!Next]_(Api!vars)
  <2>1. Api!Begin(c)
    BY <1>2, <1>c DEF Call, Api!Begin, Api!Idle, statics
  <2> QED
    BY <2>1 DEF Api!Next
<1>3. CASE NullInput
  <2>1. PICK c \in Calls : c = cur
    BY <1>3, <1>c DEF NullInput
  <2> QED
    BY <1>3, <2>1, RefusalAcceptable, ReturnSeen DEF NullInput
<1>4. CASE ReadClock
  BY <1>4, <1>i, StatementUnseen DEF ReadClock
<1>5. CASE MergeBody
  BY <1>5, <1>i, StatementUnseen DEF MergeBody
<1>6. CASE TakeParams
  BY <1>6, <1>i, StatementUnseen DEF TakeParams
<1>7. CASE EncodeLists
  BY <1>7, <1>i, StatementUnseen DEF EncodeLists
<1>7n. CASE ReadNull
  <2>1. PICK c \in Calls : c = cur /\ phase[c] = "active"
    BY <1>7n, <1>c DEF ReadNull
  <2>2. req \in Requests
    BY <1>7n, <1>i DEF ReadNull, TypeInv, ControlInv, Started
  <2>3. ~(Readable(DataList(req)) /\ Readable(PayloadList(req)))
    BY <1>7n, <2>2, ListChoice DEF ReadNull, IInv, ValueInv, ListsTaken, Lists
  <2>4. StaleBody(req) /\ req # NULL
    BY <2>2, <2>3, ListChoice, MarkAssumption
  <2>5. Api!Overread(c)
    BY <1>7n, <2>1, <2>4, SharedNames DEF ReadNull, Api!Overread, req, statics, history
  <2> QED
    BY <2>5 DEF Api!Next
<1>8. CASE TakeRawBody
  BY <1>8, <1>i, StatementUnseen DEF TakeRawBody
<1>9. CASE HashBody
  BY <1>9, <1>i, BlameKept, StatementUnseen DEF HashBody
<1>10. CASE Gorgon
  BY <1>10, <1>i, BlameKept, StatementUnseen DEF Gorgon
<1>11. CASE BadVersion
  <2>1. PICK c \in Calls : c = cur
    BY <1>11, <1>c DEF BadVersion
  <2> QED
    BY <1>11, <2>1, RefusalAcceptable, ReturnSeen DEF BadVersion
<1>12. CASE InitDeviceId
  <2>1. CASE NeedsDevice(opts)
    <3>1. opts # NULL
      BY <1>12, <1>i, MarkAssumption DEF InitDeviceId, TypeInv, ControlInv, Started
    <3>2. PICK c \in Calls : c = cur /\ phase[c] = "active"
      BY <1>12, <1>c DEF InitDeviceId
    <3>3. Api!ChooseDevice(c)
      BY <1>12, <2>1, <3>1, <3>2
      DEF InitDeviceId, NeedsDevice, Api!ChooseDevice, opts, history
    <3> QED
      BY <3>3 DEF Api!Next
  <2>2. CASE ~NeedsDevice(opts)
    BY <1>12, <1>i, <2>2, StatementUnseen DEF InitDeviceId, statics
  <2> QED
    BY <2>1, <2>2
<1>13. CASE Argus
  BY <1>13, <1>i, BlameKept, StatementUnseen DEF Argus
<1>14. CASE Ladon
  BY <1>14, <1>i, BlameKept, StatementUnseen DEF Ladon
<1>15. CASE Finish
  <2>1. PICK c \in Calls : c = cur
    BY <1>15, <1>c DEF Finish
  <2> DEFINE S(lost) == [sig EXCEPT !["x_ss_stub"] = IF lost # {} THEN NULL ELSE stub]
             R(lost) == [error |-> IF \E h \in Checked : S(lost)[h] = NULL THEN "ALLOC" ELSE "OK",
                         strings |-> S(lost)]
  <2>2. PICK lost \in Missing({"x_ss_stub"}) : Blame(lost # {}) /\ Return(R(lost))
    BY <1>15 DEF Finish
  <2>3. faulty' \in {faulty, faulty \cup {cur}}
    BY <2>2, BlameKept
  <2>4. Api!Acceptable(c, result'[c], c \in faulty') /\ Api!Answerable(c)
    BY <1>15, <2>1, FinishAcceptable
  <2> HIDE DEF R
  <2> QED
    BY <1>15, <2>1, <2>2, <2>3, <2>4, ReturnSeen DEF Finish
<1>16. CASE OutOfMemory
  <2>1. PICK c \in Calls : c = cur /\ phase[c] = "active"
    BY <1>16, <1>c DEF OutOfMemory, UncheckedAllocation
  <2>2. faulty' = faulty \cup {cur}
    BY <1>16 DEF OutOfMemory, Blame
  <2>3. Api!Fail(c)
    BY <1>16, <2>1, <2>2
    DEF OutOfMemory, UncheckedAllocation, Api!Fail, statics, history
  <2> QED
    BY <2>3 DEF Api!Next
<1>17. ASSUME NEW c \in Calls, Free(c) PROVE [Api!Next]_(Api!vars)
  <2>1. Api!Free(c)
    BY <1>17, <1>c, SharedNames DEF Free, Cleared, Api!Free, Api!Idle, statics
  <2> QED
    BY <2>1 DEF Api!Next
<1>18. CASE UNCHANGED vars
  BY <1>18 DEF vars, statics, history, Api!vars
<1> QED
  BY <1>1, <1>2, <1>3, <1>4, <1>5, <1>6, <1>7, <1>7n, <1>8, <1>9, <1>10, <1>11, <1>12,
     <1>13, <1>14, <1>15, <1>16, <1>17, <1>18 DEF Next, Step

\* tt_sign and tt_signatures_free keep the promises of SignApi: a caller can tell
\* the pipeline from one acceptable answer per call only by a crash, which SignApi
\* lets happen in a call in which something failed and has happen to a call with a
\* count left over beside a NULL body list.
THEOREM Refinement == Spec => Implements
<1>1. Init => Api!Init
  BY SharedNames DEF Init, Api!Init
<1>2. IInv /\ [Next]_vars => [Api!Next]_(Api!vars)
  BY NextImplements
<1> QED
  BY <1>1, <1>2, Inductive, PTL DEF Spec, Implements, Api!Spec

================================================================================
