------------------------------- MODULE MCSigner -------------------------------
(* Small instances of Signer for TLC. *)
EXTENDS SignerClaims, SignerInvariant

CONSTANTS p1, p2,        \* two parameters
          id1, id2,      \* an explicit and a default value of the id options
          dev1, dev2,    \* what the static initializer may draw
          body, u1, u2   \* a raw body; a url with parameters, one without

MCPairs      == {p1, p2}
MCRawBodies  == {body}
MCUrls       == {u1, u2}
MCUrlParams  == [u \in MCUrls |-> IF u = u1 THEN <<p1, p2>> ELSE <<>>]
MCIds        == {id1, id2} \cup IdNames
MCDefaultIds == [n \in IdNames |-> n]
MCDeviceIds  == {dev1, dev2}

None    == [ptr |-> NULL, count |-> 0]
Stale   == [ptr |-> NULL, count |-> 1]     \* no list, a left-over count
One     == [ptr |-> <<p1>>, count |-> 1]
Two     == [ptr |-> <<p1, p2>>, count |-> 2]
FirstOf == [ptr |-> <<p2, p1>>, count |-> 1]  \* more entries than the count

Req(p, d, y, k, u, b) == [params |-> p, data |-> d, payload |-> y, cookie |-> k,
                          url |-> u, raw_body |-> b]

\* Every combination of present, absent and stale members.
AllRequests ==
  {Req(p, d, y, k, u, b) :
     p \in {None, Stale, Two}, d \in {None, Stale, One}, y \in {None, Stale, FirstOf},
     k \in {None, Stale, One}, u \in {NULL, u1, u2}, b \in {NULL, body}}

\* A few requests for runs of several calls; the last is read through NULL.
SomeRequests == {Req(None, None, Two, Stale, u1, NULL), Req(Two, One, None, None, NULL, body),
                 Req(None, Stale, Two, None, u1, NULL)}

NoIds   == [n \in IdNames |-> Unset]
OwnIds  == [n \in IdNames |-> IF n = "aid" THEN id1 ELSE Unset]
Opt(t, ids, v, d, pin) ==
  [timestamp |-> t, ids |-> ids, version |-> v, sec_device_id |-> d,
   gorgon_byte3 |-> pin, gorgon_byte7 |-> pin, argus_rand |-> pin, ladon_random |-> pin]

\* A version for each function (0 and 4404 select the same), and one for none.
AllOptions == {Opt(Unset, OwnIds, v, Unset, Unset) : v \in {8404, 8402, 7}}
              \cup {Opt(5, NoIds, 8404, id2, 63), Opt(-3, OwnIds, 0, Unset, 63)}

\* A call on the wall clock with an id and a device of its own and a negative pin, a
\* pinned one without, and one refused.
SomeOptions == {[Opt(Unset, OwnIds, 8404, id2, 63) EXCEPT !.argus_rand = -1], Opt(5, NoIds, 8404, Unset, 63),
                Opt(5, NoIds, 7, id2, Unset)}

\* For the claims: one pinned call, and one with an unknown version.
ClaimOptions  == {Opt(5, NoIds, 8404, Unset, 63), Opt(5, NoIds, 7, id2, 63)}
ClaimRequests == {Req(None, One, Two, None, u1, NULL)}
================================================================================
