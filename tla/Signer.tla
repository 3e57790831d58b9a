-------------------------------- MODULE Signer --------------------------------
(***************************************************************************)
(* tt_sign() and tt_signatures_free() of src/src/signer.c, as one process  *)
(* that calls the library again and again and keeps what it gets back.     *)
(*                                                                         *)
(* The heap is the set `live' of blocks that outlive the statement that    *)
(* allocates them; a block is named by the call and the pointer that owns  *)
(* it.  Blocks allocated and freed within one statement (to_url_params     *)
(* arrays, digest buffers) are not named.                                  *)
(*                                                                         *)
(* A definition named X_Y, with X another definition, is X with a mistake: *)
(* it shows that a property notices (see the mutants in PROJECT.json).     *)
(***************************************************************************)
EXTENDS SignTypes

VARIABLES
  clock,            \* what time(NULL) returns
  default_sec_dev,  \* the static device id: NULL until it is initialized
  phase,            \* "new", "active", "returned" or "freed", for each call
  request, option,  \* the arguments of each call
  began,            \* the clock when each call started
  result,           \* the tt_signatures_t each caller holds
  live,             \* the allocated heap blocks
  faulty,           \* the calls in which an allocation or a digest failed
  pc,               \* the part of tt_sign that runs next
  cur,              \* the call that runs
  unix_ts, lists, url_params, str, stub, sig   \* its local variables

statics == <<clock, default_sec_dev>>
history == <<phase, request, option, began, result>>
heap    == <<live, faulty>>
locals  == <<unix_ts, lists, url_params, str, stub, sig>>
vars    == <<statics, history, heap, pc, cur, locals>>

PCs == {"idle", "clock", "merge", "params", "encode", "raw_body", "stub",
        "gorgon", "device", "argus", "ladon", "finish", "crashed"}

\* Heap blocks: the strings tt_sign owns, the table params_from_url builds,
\* and the six strings it hands over.
Owners == Lists \cup {"url_params"} \cup Headers
StringBlocks(c)    == {<<c, l>> : l \in Lists}
HeaderBlocks(c, s) == {<<c, h>> : h \in {g \in Headers : s[g] # NULL}}
UrlBlock(c, p)     == IF p = NULL THEN {} ELSE {<<c, "url_params">>}

req  == request[cur]
opts == option[cur]

TypeOK ==
  /\ clock \in 0..MaxTime
  /\ default_sec_dev \in DeviceIds \cup {NULL}
  /\ phase \in [Calls -> {"new", "active", "returned", "freed"}]
  /\ request \in [Calls -> Requests \cup {NULL}]
  /\ option \in [Calls -> Options \cup {NULL}]
  /\ began \in [Calls -> 0..MaxTime]
  /\ result \in [Calls -> Result]
  /\ live \subseteq Calls \X Owners
  /\ faulty \subseteq Calls
  /\ pc \in PCs
  /\ cur \in Calls \cup {NULL}
  /\ unix_ts \in Int
  /\ lists \in [Lists -> ListField]
  /\ url_params \in Seq(Pairs) \cup {NULL}
  /\ str \in [Lists -> Text]
  /\ stub \in Digest
  /\ sig \in [Headers -> HeaderValue \cup {NULL}]

NoList == [ptr |-> NULL, count |-> 0]

Init ==
  /\ clock = 0
  /\ default_sec_dev = NULL
  /\ phase = [c \in Calls |-> "new"]
  /\ request = [c \in Calls |-> NULL]
  /\ option = [c \in Calls |-> NULL]
  /\ began = [c \in Calls |-> 0]
  /\ result = [c \in Calls |-> Failed("OK")]
  /\ live = {} /\ faulty = {}
  /\ pc = "idle" /\ cur = NULL
  /\ unix_ts = 0
  /\ lists = [l \in Lists |-> NoList]
  /\ url_params = NULL
  /\ str = [l \in Lists |-> <<>>]
  /\ stub = [of |-> <<>>, sound |-> TRUE]
  /\ sig = NoStrings

--------------------------------------------------------------------------------
(* The environment: time passes; an instance says which failures it may see. *)

Tick ==
  /\ clock < MaxTime
  /\ clock' = clock + 1
  /\ UNCHANGED <<default_sec_dev, history, heap, pc, cur, locals>>

\* Whether a computation that relies on failure kinds fs succeeds.
Succeeds(fs)   == IF fs \cap MayFail = {} THEN {TRUE} ELSE BOOLEAN
\* Which of the blocks hs a checked allocation fails to get.
Missing(hs)    == IF "alloc" \in MayFail THEN SUBSET hs ELSE {{}}
Blame(blamed)  == faulty' = IF blamed THEN faulty \cup {cur} ELSE faulty

Goto(from, to) == pc = from /\ pc' = to

\* `return sig': the local variables of the call go out of scope.
Return(res) ==
  /\ pc' = "idle" /\ cur' = NULL
  /\ result' = [result EXCEPT ![cur] = res]
  /\ phase' = [phase EXCEPT ![cur] = "returned"]
  /\ unix_ts' = 0
  /\ lists' = [l \in Lists |-> NoList]
  /\ url_params' = NULL
  /\ str' = [l \in Lists |-> <<>>]
  /\ stub' = [of |-> <<>>, sound |-> TRUE]
  /\ sig' = NoStrings
  /\ UNCHANGED <<request, option, began>>

--------------------------------------------------------------------------------
(* tt_sign *)

Call(c, q, o) ==
  /\ pc = "idle" /\ phase[c] = "new"
  /\ pc' = "clock" /\ cur' = c
  /\ phase' = [phase EXCEPT ![c] = "active"]
  /\ request' = [request EXCEPT ![c] = q]
  /\ option' = [option EXCEPT ![c] = o]
  /\ began' = [began EXCEPT ![c] = clock]
  /\ UNCHANGED <<statics, result, heap, locals>>

NullInput ==
  /\ pc = "clock" /\ (req = NULL \/ opts = NULL)
  /\ Return(Failed("NULL_INPUT"))
  /\ UNCHANGED <<statics, heap>>

\* The one reading of the clock: every header takes its time from unix_ts.
ReadClock ==
  /\ Goto("clock", "merge")
  /\ req # NULL /\ opts # NULL
  /\ unix_ts' = IF opts.timestamp # Unset THEN opts.timestamp ELSE clock
  /\ UNCHANGED <<statics, history, heap, cur, lists, url_params, str, stub, sig>>

\* An empty list stands for the other one, whichever way round.
DataList(q)    == IF q.data.count = 0 /\ q.payload.count > 0 THEN q.payload ELSE q.data
PayloadList_notMerged(q) == q.payload
PayloadList(q) == IF q.payload.count = 0 /\ q.data.count > 0 THEN q.data ELSE q.payload

MergeBody ==
  /\ Goto("merge", "params")
  /\ lists' = [lists EXCEPT !["data"] = DataList(req), !["payload"] = PayloadList(req)]
  /\ UNCHANGED <<statics, history, heap, cur, unix_ts, url_params, str, stub, sig>>

UsesUrl(q)    == q.params.ptr = NULL /\ q.url # NULL
UrlTable(q)   == IF UsesUrl(q) /\ UrlParams[q.url] # <<>> THEN UrlParams[q.url] ELSE NULL
TableList(p)  == IF p = NULL THEN NoList ELSE [ptr |-> p, count |-> Len(p)]
ParamsList(q) == IF q.params.ptr # NULL THEN q.params ELSE TableList(UrlTable(q))
CookieList_staleCount(q) == q.cookie
CookieList(q) == IF q.cookie.ptr # NULL THEN q.cookie ELSE NoList

\* params may come from the url, and then their table belongs to tt_sign; with
\* neither, the static `empty' pair stands in, with a count of 0.
TakeParams ==
  /\ Goto("params", "encode")
  /\ url_params' = UrlTable(req)
  /\ lists' = [lists EXCEPT !["params"] = ParamsList(req), !["cookie"] = CookieList(req)]
  /\ live' = live \cup UrlBlock(cur, UrlTable(req))
  /\ UNCHANGED <<statics, history, faulty, cur, unix_ts, str, stub, sig>>

\* to_url_params then url_encode_params: the first `count' entries, in order.
Encoded(f) == IF f.count = 0 THEN <<>> ELSE SubSeq(f.ptr, 1, f.count)

EncodeLists ==
  /\ Goto("encode", "raw_body")
  /\ \A l \in Lists : Readable(lists[l])
  /\ str' = [l \in Lists |-> Encoded(lists[l])]
  /\ live' = live \cup StringBlocks(cur)
  /\ UNCHANGED <<statics, history, faulty, cur, unix_ts, lists, url_params, stub, sig>>

\* to_url_params takes the count at its word, and reads the entries of NULL.
ReadNull ==
  /\ Goto("encode", "crashed")
  /\ \E l \in Lists : ~Readable(lists[l])
  /\ UNCHANGED <<statics, history, heap, cur, locals>>

\* data_str is freed and replaced: its owner keeps one live block.
TakeRawBody ==
  /\ Goto("raw_body", "stub")
  /\ str' = IF req.raw_body # NULL THEN [str EXCEPT !["data"] = req.raw_body] ELSE str
  /\ UNCHANGED <<statics, history, heap, cur, unix_ts, lists, url_params, stub, sig>>

\* A digest that cannot be computed is all zeros, and nobody is told.
HashBody ==
  /\ Goto("stub", "gorgon")
  /\ \E sound \in Succeeds({"digest"}) :
       /\ stub' = [of |-> str["data"], sound |-> sound]
       /\ Blame(~sound)
  /\ UNCHANGED <<statics, history, live, cur, unix_ts, lists, url_params, str, sig>>

Draw(pin)       == IF pin # Unset THEN pin ELSE Fresh
HighNibble(pin) == IF pin = Unset THEN Fresh ELSE 16 * (pin \div 16)

\* gorgon_v1 alone has random bytes; it keeps the high nibble of the second.
GorgonHeader(kind, sound) ==
  [kind |-> kind, params |-> str["params"], body |-> str["payload"],
   cookie |-> str["cookie"], at |-> unix_ts % Word,
   byte3 |-> IF kind = "v1" THEN Draw(opts.gorgon_byte3) ELSE Unset,
   byte7 |-> IF kind = "v1" THEN HighNibble(opts.gorgon_byte7) ELSE Unset,
   sound |-> sound]

\* The gorgon functions also make X-Khronos and X-TT-Request-Ticket; these two
\* are strdup'ed and may come back NULL.
Gorgon ==
  /\ Goto("gorgon", "device")
  /\ opts.version \in DOMAIN Variants
  /\ \E sound \in Succeeds({"digest"}),
        lost \in Missing({"x_khronos", "x_tt_request_ticket"}) :
       /\ sig' = [sig EXCEPT
            !["x_gorgon"]  = GorgonHeader(Variants[opts.version], sound),
            !["x_khronos"] = IF "x_khronos" \in lost THEN NULL ELSE [at |-> unix_ts],
            !["x_tt_request_ticket"] =
              IF "x_tt_request_ticket" \in lost THEN NULL ELSE [at |-> 1000 * unix_ts]]
       /\ live' = live \cup HeaderBlocks(cur, sig')
       /\ Blame(~sound \/ lost # {})
  /\ UNCHANGED <<statics, history, cur, unix_ts, lists, url_params, str, stub>>

\* The early return frees the four strings, and not the url's table.
BadVersion ==
  /\ pc = "gorgon" /\ opts.version \notin DOMAIN Variants
  /\ live' = live \ StringBlocks(cur)
  /\ Return(Failed("BAD_VERSION"))
  /\ UNCHANGED <<statics, faulty>>

\* The first call without a sec_device_id draws one for the life of the process.
NeedsDevice_never(o)  == FALSE
NeedsDevice_always(o) == o.sec_device_id = Unset
NeedsDevice(o) == o.sec_device_id = Unset /\ default_sec_dev = NULL

InitDeviceId ==
  /\ Goto("device", "argus")
  /\ IF NeedsDevice(opts)
     THEN default_sec_dev' \in DeviceIds
     ELSE UNCHANGED default_sec_dev
  /\ UNCHANGED <<clock, history, heap, cur, locals>>

DeviceId == IF opts.sec_device_id # Unset THEN opts.sec_device_id ELSE default_sec_dev
Id(name) == IF opts.ids[name] # Unset THEN opts.ids[name] ELSE DefaultIds[name]

\* argus_rand is -1 when it is not pinned, and argus draws when it is negative.
ArgusRand == LET pin == IF opts.argus_rand # Unset THEN opts.argus_rand ELSE -1
             IN  IF pin >= 0 THEN pin ELSE Fresh

ArgusHeader(sound) ==
  [query |-> str["params"], stub |-> stub, at |-> (2 * unix_ts) % Word,
   ids |-> [name \in IdNames |-> Id(name)], device |-> DeviceId,
   rand |-> ArgusRand, sound |-> sound]

\* Argus checks two of its allocations and then returns NULL; a hash whose
\* buffer it does not get is left uninitialized and used.
Argus ==
  /\ Goto("argus", "ladon")
  /\ \E sound \in Succeeds({"digest", "alloc"}), lost \in Missing({"x_argus"}) :
       /\ sig' = [sig EXCEPT !["x_argus"] = IF lost # {} THEN NULL ELSE ArgusHeader(sound)]
       /\ live' = live \cup HeaderBlocks(cur, sig')
       /\ Blame(~sound \/ lost # {})
  /\ UNCHANGED <<statics, history, cur, unix_ts, lists, url_params, str, stub>>

LadonHeader_rereadsClock(sound) ==
  [at |-> IF opts.timestamp = Unset THEN clock ELSE opts.timestamp,
   aid |-> Id("aid"), license_id |-> Id("license_id"),
   rand |-> Draw(opts.ladon_random), sound |-> sound]
LadonHeader_swapsIds(sound) ==
  [at |-> unix_ts, aid |-> Id("license_id"), license_id |-> Id("aid"),
   rand |-> Draw(opts.ladon_random), sound |-> sound]
LadonHeader(sound) ==
  [at |-> unix_ts, aid |-> Id("aid"), license_id |-> Id("license_id"),
   rand |-> Draw(opts.ladon_random), sound |-> sound]

Ladon ==
  /\ Goto("ladon", "finish")
  /\ \E sound \in Succeeds({"digest"}) :
       /\ sig' = [sig EXCEPT !["x_ladon"] = LadonHeader(sound)]
       /\ live' = live \cup HeaderBlocks(cur, sig')
       /\ Blame(~sound)
  /\ UNCHANGED <<statics, history, cur, unix_ts, lists, url_params, str, stub>>

\* The strings whose absence makes the result an error, and what is freed.
Checked_notKhronos == Headers \ {"x_khronos"}
Checked == Headers
Freed_notUrlTable(c, p) == StringBlocks(c)
Freed(c, p) == StringBlocks(c) \cup UrlBlock(c, p)

\* X-SS-Stub is copied, the error code says whether all six strings are there,
\* and everything tt_sign owns is freed.
Finish ==
  /\ pc = "finish"
  /\ \E lost \in Missing({"x_ss_stub"}) :
       LET strings == [sig EXCEPT !["x_ss_stub"] = IF lost # {} THEN NULL ELSE stub]
           missing == \E h \in Checked : strings[h] = NULL
       IN  /\ live' = (live \cup HeaderBlocks(cur, strings))
                        \ Freed(cur, url_params)
           /\ Blame(lost # {})
           /\ Return([error |-> IF missing THEN "ALLOC" ELSE "OK", strings |-> strings])
  /\ UNCHANGED statics

\* Where tt_sign, or what it calls, uses memory without asking whether it got it.
\* (A url whose query is empty needs none at "params"; it is not told apart from
\* one whose query has no parameters, which does.)
UncheckedAllocation ==
  \/ pc = "params" /\ UsesUrl(req)
  \/ pc = "encode"
  \/ pc = "raw_body" /\ req.raw_body # NULL
  \/ pc = "gorgon" /\ opts.version \in DOMAIN Variants
  \/ pc \in {"argus", "ladon"}

OutOfMemory ==
  /\ "alloc" \in MayFail /\ UncheckedAllocation
  /\ pc' = "crashed"
  /\ Blame(TRUE)
  /\ UNCHANGED <<statics, history, live, cur, locals>>

--------------------------------------------------------------------------------
(* tt_signatures_free: it clears the struct, so it may be called again. *)

Cleared_keepsPointers(r) == r
Cleared(r) == Failed("OK")

Free(c) ==
  /\ pc = "idle" /\ phase[c] \in {"returned", "freed"}
  /\ live' = live \ HeaderBlocks(c, result[c].strings)
  /\ result' = [result EXCEPT ![c] = Cleared(result[c])]
  /\ phase' = [phase EXCEPT ![c] = "freed"]
  /\ UNCHANGED <<statics, request, option, began, faulty, pc, cur, locals>>

--------------------------------------------------------------------------------
\* The statements of the running call.
Step ==
  \/ NullInput \/ ReadClock \/ MergeBody \/ TakeParams
  \/ EncodeLists \/ ReadNull \/ TakeRawBody \/ HashBody
  \/ Gorgon \/ BadVersion \/ InitDeviceId \/ Argus \/ Ladon \/ Finish
  \/ OutOfMemory

Next ==
  \/ Tick
  \/ \E c \in Calls, q \in Requests \cup {NULL}, o \in Options \cup {NULL} : Call(c, q, o)
  \/ Step
  \/ \E c \in Calls : Free(c)

Spec == Init /\ [][Next]_vars

--------------------------------------------------------------------------------
(* Properties *)

\* tt_sign as its callers see it.
Api == INSTANCE SignApi WITH dead <- (pc = "crashed")

\* Of the counts left over beside NULL pointers, tt_sign overrides those of params
\* and cookie and believes those of data and payload, also where one stands in for
\* the other.  So no call crashes for its arguments but with such a body count, and
\* a call with one never gets as far as an answer, not even ERR_BAD_VERSION.
StaleCounts ==
  /\ pc = "encode" => Readable(lists["params"]) /\ Readable(lists["cookie"])
  /\ pc = "crashed" /\ cur \notin faulty => StaleBody(req)
  /\ \A c \in Calls :
       phase[c] = "returned" /\ request[c] # NULL /\ option[c] # NULL =>
         ~StaleBody(request[c])

Held(c)    == HeaderBlocks(c, result[c].strings)
HeldBlocks == UNION {Held(c) : c \in Calls}

\* Calls that returned ERR_BAD_VERSION, and the url tables they lost.
GaveUp(c) ==
  /\ phase[c] \in {"returned", "freed"}
  /\ request[c] # NULL /\ option[c] # NULL
  /\ option[c].version \notin DOMAIN Variants
LostTables == UNION {UrlBlock(c, UrlTable(request[c])) : c \in {d \in Calls : GaveUp(d)}}

\* Between calls the heap holds what the callers hold, and the url tables of the
\* calls that gave up on their version: whatever failed, nothing else is leaked
\* and nothing a caller can still read was freed.
Ownership == pc = "idle" => live = HeldBlocks \cup LostTables

\* No pointer in a caller's struct dangles, while any call runs: freeing any
\* struct, and freeing it again, is safe.
NoDangling == \A c \in Calls : Held(c) \subseteq live

\* A caller that looks at `error' knows that it has all six strings after OK and
\* none after an error of its arguments.  After ERR_ALLOC, which only a failure
\* brings, it has X-Gorgon and X-Ladon for certain, misses one at least of the
\* other four, and must test each of those: signer.h:9 says otherwise (see
\* ErrorMeansNone of SignerClaims).
NeverMissing == {"x_gorgon", "x_ladon"}
ErrorTellsStrings ==
  \A c \in Calls : phase[c] = "returned" =>
    LET r == result[c] IN
    /\ r.error = "OK" <=> \A h \in Headers : r.strings[h] # NULL
    /\ r.error = "ALLOC" =>
         /\ c \in faulty
         /\ \A h \in NeverMissing : r.strings[h] # NULL
         /\ \E h \in Headers \ NeverMissing : r.strings[h] = NULL
    /\ r.error \in {"NULL_INPUT", "BAD_VERSION"} => r.strings = NoStrings

Complete(c) == phase[c] = "returned" /\ result[c].error = "OK"
Of(c, h)    == result[c].strings[h]

\* The headers of one result carry one instant, each in its own width, even if
\* the clock moved while they were made.
SameInstant ==
  \A c \in Calls : Complete(c) =>
    LET t == Of(c, "x_khronos").at IN
    /\ Of(c, "x_tt_request_ticket").at = 1000 * t
    /\ Of(c, "x_ladon").at = t
    /\ Of(c, "x_gorgon").at = t % Word
    /\ Of(c, "x_argus").at = (2 * t) % Word

\* X-Argus and X-Ladon speak of one app, one licence and one SDK version, each as
\* the caller gave it or its default; and of the caller's device or, without one,
\* of the device of the process, which stays the same whatever is called later.
SameApp ==
  \A c \in Calls : Complete(c) =>
    LET o == option[c]
        a == Of(c, "x_argus")
    IN  /\ Of(c, "x_ladon").aid = a.ids["aid"]
        /\ Of(c, "x_ladon").license_id = a.ids["license_id"]
        /\ \A n \in IdNames : a.ids[n] = IF o.ids[n] = Unset THEN DefaultIds[n] ELSE o.ids[n]
        /\ a.device = IF o.sec_device_id = Unset THEN default_sec_dev ELSE o.sec_device_id

\* X-Argus carries the X-SS-Stub and signs the query that X-Gorgon signs.  X-Gorgon
\* signs the payload, or the data where there is none; X-SS-Stub the raw body, or
\* else the data, or the payload where there is none.  So they sign one body as
\* long as the caller gave one list and no raw body, which X-Gorgon never sees.
SameBody ==
  \A c \in Calls : Complete(c) =>
    LET q == request[c] IN
    /\ Of(c, "x_argus").stub = Of(c, "x_ss_stub")
    /\ Of(c, "x_argus").query = Of(c, "x_gorgon").params
    /\ Of(c, "x_gorgon").body = Api!PayloadText(q)
    /\ Of(c, "x_ss_stub").of = Api!FormText(q)
    /\ (q.raw_body = NULL /\ (q.data.count = 0 \/ q.payload.count = 0)) =>
          Of(c, "x_gorgon").body = Of(c, "x_ss_stub").of

\* With every random input pinned, the same call gives the same six strings for
\* as long as the process lives.
Pinned(o) ==
  /\ Unset \notin {o.timestamp, o.gorgon_byte3, o.gorgon_byte7, o.argus_rand, o.ladon_random}
  /\ o.argus_rand >= 0
Reproducible ==
  \A c, d \in Calls :
    (/\ Complete(c) /\ Complete(d) /\ {c, d} \cap faulty = {}
     /\ request[c] = request[d] /\ option[c] = option[d] /\ Pinned(option[c]))
    => result[c] = result[d]

\* tt_sign keeps the promises of SignApi: its statements, one after the other,
\* amount to one acceptable answer per call.
Implements == Api!Spec

================================================================================
