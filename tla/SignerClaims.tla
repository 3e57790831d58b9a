----------------------------- MODULE SignerClaims ------------------------------
(***************************************************************************)
(* What the repository's own text says of tt_sign() and Signer refutes.    *)
(* Each of these is a violation run: see "findings" in PROJECT.json.       *)
(***************************************************************************)
EXTENDS Signer

\* include/tiktoksignature/signer.h:9: what an error leaves "must still be released with
\* tt_signatures_free()".  An unsupported version leaves the url's table, which
\* that call cannot release; no allocation has to fail for it.
FreeReleasesAll ==
  pc = "idle" /\ (\A c \in Calls : phase[c] \in {"new", "freed"}) => live = {}

\* include/tiktoksignature/signer.h:9: "On error the signature strings are
\* NULL/empty".  After ERR_ALLOC those that could be made are there.
ErrorMeansNone ==
  \A c \in Calls : phase[c] = "returned" /\ result[c].error # "OK" =>
    result[c].strings = NoStrings

\* README.md:215: TT_SIGN_OK means "Success - all six strings are valid".  A
\* digest that could not be computed is all zeros, and the error code stays OK.
OkMeansValid ==
  \A c \in Calls : Complete(c) =>
    /\ \A h \in {"x_argus", "x_ladon", "x_gorgon", "x_ss_stub"} : Of(c, h).sound
    /\ Of(c, "x_argus").stub.sound
================================================================================
