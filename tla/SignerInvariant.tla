---------------------------- MODULE SignerInvariant ----------------------------
(***************************************************************************)
(* The inductive invariant behind the theorems of SignerProofs, in four    *)
(* layers.  Each layer is what the steps of tt_sign rely on: a running     *)
(* call has its arguments, its lists are readable where they are read,     *)
(* each block it has made so far is in exactly one of its variables, and   *)
(* each variable holds what the arguments ask for.                         *)
(***************************************************************************)
EXTENDS Signer

(* Control: which call runs and what it may assume of its arguments. *)
Busy    == pc \notin {"idle", "crashed"}
Started == pc \notin {"idle", "crashed", "clock"}

ControlInv ==
  /\ pc \in PCs
  /\ phase \in [Calls -> {"new", "active", "returned", "freed"}]
  /\ request \in [Calls -> Requests \cup {NULL}]
  /\ option \in [Calls -> Options \cup {NULL}]
  /\ cur \in Calls \cup {NULL}
  /\ Busy => cur \in Calls /\ phase[cur] = "active"
  /\ Started => req \in Requests /\ opts \in Options

(* Data: every variable has its type.  What makes this inductive is that     *)
(* there is a device id when X-Argus is made.                                *)
DataInv ==
  /\ clock \in 0..MaxTime
  /\ default_sec_dev \in DeviceIds \cup {NULL}
  /\ began \in [Calls -> 0..MaxTime]
  /\ result \in [Calls -> Result]
  /\ faulty \subseteq Calls
  /\ unix_ts \in Int
  /\ lists \in [Lists -> ListField]
  /\ url_params \in Seq(Pairs) \cup {NULL}
  /\ str \in [Lists -> Text]
  /\ stub \in Digest
  /\ sig \in [Headers -> HeaderValue \cup {NULL}]
DeviceKnown ==
  pc = "argus" => opts.sec_device_id # Unset \/ default_sec_dev # NULL
TypeInv == ControlInv /\ DataInv /\ DeviceKnown

(* The heap: at every statement, each live block has exactly one owner. *)
Variant    == {"device", "argus", "ladon", "finish"}
HasStrings == pc \in {"raw_body", "stub", "gorgon"} \cup Variant
HasTable   == pc = "encode" \/ HasStrings

\* The statements that run after header h was made.
MadeBefore(h) == CASE h = "x_argus"   -> {"ladon", "finish"}
                   [] h = "x_ladon"   -> {"finish"}
                   [] h = "x_ss_stub" -> {}
                   [] OTHER           -> Variant

\* What the running call has made so far.
LocalInv ==
  /\ HasTable => url_params = UrlTable(req)
  /\ pc \notin {"crashed"} /\ ~HasTable => url_params = NULL
  /\ pc \in Variant => opts.version \in DOMAIN Variants
  /\ \A h \in Headers : sig[h] # NULL => pc = "crashed" \/ pc \in MadeBefore(h)
  /\ \A c \in Calls : phase[c] \in {"new", "active"} => result[c].strings = NoStrings

\* Call c has block o by what its variables, or its caller's struct, point to.
Owns(c, o) ==
  \/ o \in Headers /\ result[c].strings[o] # NULL
  \/ o = "url_params" /\ GaveUp(c) /\ UrlTable(request[c]) # NULL
  \/ c = cur /\ o \in Lists /\ HasStrings
  \/ c = cur /\ o = "url_params" /\ url_params # NULL
  \/ c = cur /\ o \in Headers /\ sig[o] # NULL

HeapInv ==
  /\ live \subseteq Calls \X Owners
  /\ pc # "crashed" => \A c \in Calls, o \in Owners : <<c, o>> \in live <=> Owns(c, o)

\* Nothing is leaked or freed too early, at any statement: the allocated blocks
\* are those that a variable of the running call, or a caller's struct, points to,
\* and the url tables of the calls that returned ERR_BAD_VERSION.
HeldInv == TypeInv /\ LocalInv /\ HeapInv

(* Values: every variable holds what SignApi promises for the arguments, at *)
(* one instant of the call.                                                 *)
\* One call runs, or crashed; every call began in the past.
OneActive ==
  /\ pc = "idle" => cur = NULL
  /\ \A c \in Calls : phase[c] = "active" => c = cur
  /\ \A c \in Calls : began[c] <= clock

InstantTaken == Started => unix_ts \in Api!Instants(cur)

ListsTaken ==
  /\ pc \in {"params", "encode"} =>
       lists["data"] = DataList(req) /\ lists["payload"] = PayloadList(req)
  /\ pc = "encode" =>
       lists["params"] = ParamsList(req) /\ lists["cookie"] = CookieList(req)

TextsMade ==
  HasStrings =>
    /\ str["params"] = Api!QueryText(req)
    /\ str["payload"] = Api!PayloadText(req)
    /\ str["cookie"] = Api!CookieText(req)
    /\ str["data"] = IF pc = "raw_body" THEN Encoded(DataList(req)) ELSE Api!FormText(req)

\* Only a call with a stale body count crashes for its arguments, and such a call
\* gets no further than its lists.
CrashCaused ==
  /\ HasStrings => ~StaleBody(req)
  /\ pc = "crashed" /\ cur \notin faulty => StaleBody(req)

\* A value that is missing or unsound has been a failure in the running call.
Good(v) == v # NULL /\ Api!Sound(v)

BodyHashed ==
  pc \in {"gorgon"} \cup Variant => stub \in Api!Stubs(req) /\ (Good(stub) \/ cur \in faulty)

DeviceChosen(c) == option[c].sec_device_id # Unset \/ default_sec_dev # NULL

HeadersMade ==
  /\ \A h \in Headers : pc \in MadeBefore(h) =>
       /\ sig[h] \in Api!Promised(h, req, opts, unix_ts, default_sec_dev) \cup {NULL}
       /\ Good(sig[h]) \/ cur \in faulty
  /\ pc \in Variant => sig["x_gorgon"] # NULL
  /\ pc = "finish" => sig["x_ladon"] # NULL
  /\ pc \in {"argus", "ladon", "finish"} => DeviceChosen(cur)
  /\ pc \in {"ladon", "finish"} /\ sig["x_argus"] # NULL => sig["x_argus"].stub = stub

\* What a caller holds stays acceptable, when later calls choose the device id.
Answered(c) ==
  /\ Api!Answerable(c)
  /\ Api!Acceptable(c, result[c], c \in faulty)
  /\ result[c].strings["x_argus"] # NULL => DeviceChosen(c)

ValueInv ==
  /\ OneActive /\ InstantTaken /\ ListsTaken /\ TextsMade /\ CrashCaused
  /\ BodyHashed /\ HeadersMade
  /\ \A c \in Calls : phase[c] = "returned" => Answered(c)

\* At every statement the heap is accounted for, and every value that tt_sign
\* holds, or has returned, is one that SignApi promises for its arguments.
IInv == HeldInv /\ ValueInv

================================================================================
