------------------------------ MODULE ClientClaims ------------------------------
(***************************************************************************)
(* What a message in Example.c says of the answers that main handles and   *)
(* Client refutes: a violation run, see "findings" in PROJECT.json.        *)
(***************************************************************************)
EXTENDS Client

\* src/examples/Example.c:477-478 is there to say of a body that is no JSON that it "is
\* not valid JSON; app status unknown".  json_parse never returns NULL: main says
\* of such a body "success" or "application error".
NotJsonIsUnknown ==
  res = "CURLE_OK" /\ answer.body # <<>> /\ answer.value = NotJson => said = <<>>

=================================================================================
