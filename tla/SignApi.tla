------------------------------- MODULE SignApi --------------------------------
(***************************************************************************)
(* What a caller of tt_sign() may rely on, without the pipeline that gets  *)
(* it: a call starts, some time later it returns, and what it returns      *)
(* depends on the arguments, on one instant between start and return, on   *)
(* the device id of the process and on random draws.  Strings may be       *)
(* missing, and digests unsound, only in a call in which something failed. *)
(***************************************************************************)
EXTENDS SignTypes

VARIABLES clock, default_sec_dev, phase, request, option, began, result, faulty,
          dead    \* the process crashed

vars == <<clock, default_sec_dev, phase, request, option, began, result, faulty, dead>>

Entries(f) == IF f.count = 0 THEN <<>> ELSE SubSeq(f.ptr, 1, f.count)
Either(f, g) == IF f.count > 0 THEN Entries(f) ELSE Entries(g)

\* The texts a request asks to have signed.
QueryText(q) == IF q.params.ptr # NULL THEN Entries(q.params)
                ELSE IF q.url # NULL THEN UrlParams[q.url] ELSE <<>>
CookieText(q) == IF q.cookie.ptr # NULL THEN Entries(q.cookie) ELSE <<>>
PayloadText(q) == Either(q.payload, q.data)
FormText(q) == IF q.raw_body # NULL THEN q.raw_body ELSE Either(q.data, q.payload)

Drawn(pin) == IF pin = Unset THEN Fresh ELSE pin
IdOf(o, n) == IF o.ids[n] = Unset THEN DefaultIds[n] ELSE o.ids[n]

\* The strings that request q and options o may be given at instant t, in a
\* process whose device id is dev.
Gorgons(q, o, t) ==
  {[kind |-> Variants[o.version], params |-> QueryText(q), body |-> PayloadText(q),
    cookie |-> CookieText(q), at |-> t % Word,
    byte3 |-> IF o.version = 8404 THEN Drawn(o.gorgon_byte3) ELSE Unset,
    byte7 |-> IF o.version # 8404 THEN Unset
              ELSE IF o.gorgon_byte7 = Unset THEN Fresh
              ELSE o.gorgon_byte7 - (o.gorgon_byte7 % 16),
    sound |-> s] : s \in BOOLEAN}
Stubs(q) == {[of |-> FormText(q), sound |-> s] : s \in BOOLEAN}
Arguses(q, o, t, dev) ==
  {[query |-> QueryText(q), stub |-> st, at |-> (2 * t) % Word,
    ids |-> [n \in IdNames |-> IdOf(o, n)],
    device |-> IF o.sec_device_id = Unset THEN dev ELSE o.sec_device_id,
    rand |-> IF o.argus_rand = Unset \/ o.argus_rand < 0 THEN Fresh ELSE o.argus_rand,
    sound |-> s] : s \in BOOLEAN, st \in Stubs(q)}
Ladons(o, t) ==
  {[at |-> t, aid |-> IdOf(o, "aid"), license_id |-> IdOf(o, "license_id"),
    rand |-> Drawn(o.ladon_random), sound |-> s] : s \in BOOLEAN}

Promised(h, q, o, t, dev) ==
  CASE h = "x_gorgon"  -> Gorgons(q, o, t)
    [] h = "x_argus"   -> Arguses(q, o, t, dev)
    [] h = "x_ladon"   -> Ladons(o, t)
    [] h = "x_ss_stub" -> Stubs(q)
    [] h = "x_khronos" -> {[at |-> t]}
    [] h = "x_tt_request_ticket" -> {[at |-> 1000 * t]}

Sound(v) == "sound" \in DOMAIN v => v.sound
Flawless(s) == \A h \in Headers : s[h] # NULL /\ Sound(s[h])

\* Instants a call may sign: the one it is given, or one while it runs.
Instants(c) == IF option[c].timestamp = Unset THEN began[c]..clock ELSE {option[c].timestamp}

\* The results call c may return, and whether something failed in it.  X-Argus
\* carries the digest that X-SS-Stub is; X-Gorgon and X-Ladon are never missing.
Acceptable(c, r, failed) ==
  IF request[c] = NULL \/ option[c] = NULL
  THEN r = Failed("NULL_INPUT")
  ELSE IF option[c].version \notin DOMAIN Variants
  THEN r = Failed("BAD_VERSION")
  ELSE /\ NULL \notin {r.strings["x_gorgon"], r.strings["x_ladon"]}
       /\ r.error = IF \A h \in Headers : r.strings[h] # NULL THEN "OK" ELSE "ALLOC"
       /\ Flawless(r.strings) \/ failed
       /\ \E t \in Instants(c) : \A h \in Headers :
            r.strings[h] \in Promised(h, request[c], option[c], t, default_sec_dev) \cup {NULL}
       /\ NULL \notin {r.strings["x_argus"], r.strings["x_ss_stub"]} =>
            r.strings["x_argus"].stub = r.strings["x_ss_stub"]

Init ==
  /\ clock = 0 /\ default_sec_dev = NULL
  /\ phase = [c \in Calls |-> "new"]
  /\ request = [c \in Calls |-> NULL] /\ option = [c \in Calls |-> NULL]
  /\ began = [c \in Calls |-> 0]
  /\ result = [c \in Calls |-> Failed("OK")]
  /\ faulty = {} /\ dead = FALSE

Tick ==
  /\ clock' \in clock + 1 .. MaxTime
  /\ UNCHANGED <<default_sec_dev, phase, request, option, began, result, faulty, dead>>

Idle == ~dead /\ \A c \in Calls : phase[c] # "active"

Begin(c) ==
  /\ Idle /\ phase[c] = "new"
  /\ phase' = [phase EXCEPT ![c] = "active"]
  /\ \E q \in Requests \cup {NULL} : request' = [request EXCEPT ![c] = q]
  /\ \E o \in Options \cup {NULL} : option' = [option EXCEPT ![c] = o]
  /\ began' = [began EXCEPT ![c] = clock]
  /\ UNCHANGED <<clock, default_sec_dev, result, faulty, dead>>

\* A failure inside the call: it may be noticed later, or be the end of it.
Fail(c) ==
  /\ phase[c] = "active" /\ ~dead
  /\ faulty' = faulty \cup {c}
  /\ dead' \in BOOLEAN
  /\ UNCHANGED <<clock, default_sec_dev, phase, request, option, began, result>>

\* A call with a count left over beside a NULL body list is not answered: it reads
\* through the pointer, and is the end of the process.
Overread(c) ==
  /\ phase[c] = "active" /\ ~dead
  /\ request[c] # NULL /\ StaleBody(request[c])
  /\ dead' = TRUE
  /\ UNCHANGED <<clock, default_sec_dev, phase, request, option, began, result, faulty>>
Answerable(c) == request[c] # NULL /\ option[c] # NULL => ~StaleBody(request[c])

\* The device id of the process is chosen once, when a call first needs it.
ChooseDevice(c) ==
  /\ phase[c] = "active" /\ ~dead
  /\ default_sec_dev = NULL
  /\ option[c] # NULL /\ option[c].sec_device_id = Unset
  /\ default_sec_dev' \in DeviceIds
  /\ UNCHANGED <<clock, phase, request, option, began, result, faulty, dead>>

Return(c) ==
  /\ phase[c] = "active" /\ ~dead
  /\ Answerable(c)
  /\ phase' = [phase EXCEPT ![c] = "returned"]
  /\ faulty' \in {faulty, faulty \cup {c}}
  /\ result' \in [Calls -> Result] /\ Acceptable(c, result'[c], c \in faulty')
  /\ \A d \in Calls \ {c} : result'[d] = result[d]
  /\ UNCHANGED <<clock, default_sec_dev, request, option, began, dead>>

Free(c) ==
  /\ Idle /\ phase[c] \in {"returned", "freed"}
  /\ phase' = [phase EXCEPT ![c] = "freed"]
  /\ result' = [result EXCEPT ![c] = Failed("OK")]
  /\ UNCHANGED <<clock, default_sec_dev, request, option, began, faulty, dead>>

Next == \/ Tick
        \/ \E c \in Calls : Begin(c) \/ Fail(c) \/ Overread(c) \/ ChooseDevice(c)
                             \/ Return(c) \/ Free(c)

Spec == Init /\ [][Next]_vars

================================================================================
