--------------------------------- MODULE Client ---------------------------------
(***************************************************************************)
(* main of src/examples/Example.c from the request it builds to what it    *)
(* says of the answer: it signs, posts, collects the answer in pieces,     *)
(* parses it with MiniJson and gives everything back.                      *)
(*                                                                         *)
(* libcurl and the server are external: they deliver an answer piece by    *)
(* piece and may give up at any moment, or never finish.  A list, the      *)
(* signatures or a handle of libcurl is one thing that is held; the        *)
(* allocations of main itself do not fail here.                            *)
(***************************************************************************)
EXTENDS MiniJson

CONSTANTS
  Answers,     \* what the server may send, see Answer
  NotJson,     \* the value of an answer that starts with no JSON value
  Pieces       \* lengths of the pieces write_callback may get, the last one aside

\* A body, and the value it starts with: a node whose kids are nodes.
ASSUME AnswerAssumption == \A a \in Answers : a.body \in Text /\ DOMAIN a = {"body", "value"}
ASSUME PieceAssumption == Pieces \subseteq Nat

VARIABLES
  pc,
  answer,   \* the answer of this run
  resp,     \* resp.data up to resp.size
  res,      \* what curl_easy_perform returned
  said,     \* the last lines of the output, see Lines
  held,     \* what main has not given back
  status    \* main's return value or exit's argument

clientVars == <<pc, answer, resp, res, said, held, status>>
vars == <<jsonVars, clientVars>>

Lines == {"network error", "no body", "success", "application error"}
Things == {"params", "data", "sig", "body", "curl", "headers", "resp"}

TypeOK ==
  /\ TypeJson
  /\ pc \in {"params", "email", "data", "sign", "encode", "curl", "perform", "result", "parse",
             "free", "cleanup", "returned", "exited", "undefined"}
  /\ answer \in Answers
  /\ resp \in Text
  /\ res \in {"none", "CURLE_OK", "failed"}
  /\ said \in Seq(Lines)
  /\ held \subseteq Things
  /\ status \in {-1, 0, 1}

Init ==
  /\ InitJson
  /\ answer \in Answers
  /\ pc = "params" /\ resp = <<>> /\ res = "none" /\ said = <<>> /\ held = {} /\ status = -1

--------------------------------------------------------------------------------
(* The request *)

Holds(next, things) ==
  /\ held' = held \cup things /\ pc' = next
  /\ UNCHANGED <<jsonVars, answer, resp, res, said, status>>
Returns(code, things) ==
  /\ held' = held \ things /\ pc' = "returned" /\ status' = code
  /\ UNCHANGED <<jsonVars, answer, resp, res, said>>

BuildParams == pc = "params" /\ Holds("email", {"params"})

\* fgets finds no line: main returns with the parameters still allocated.
ReadEmail ==
  /\ pc = "email"
  /\ \/ Holds("data", {})
     \/ Returns(1, {})

BuildData == pc = "data" /\ Holds("sign", {"data"})

\* With these options tt_sign can only fail to allocate; both lists stay allocated.
Sign ==
  /\ pc = "sign"
  /\ \/ Holds("encode", {"sig"})
     \/ Returns(1, {"sig"})

Encode == pc = "encode" /\ Holds("curl", {"body"})

CurlInit ==
  /\ pc = "curl"
  /\ \/ Holds("perform", {"curl", "headers"})
     \/ Returns(1, {"body", "sig", "params", "data"})

--------------------------------------------------------------------------------
(* The answer *)

Coming == Len(answer.body) - Len(resp)

WriteCallback ==
  /\ pc = "perform" /\ Coming > 0
  /\ \E n \in {k \in Pieces : k <= Coming} \cup {Coming} :
       resp' = resp \o SubSeq(answer.body, Len(resp) + 1, Len(resp) + n)
  /\ held' = held \cup {"resp"}
  /\ UNCHANGED <<jsonVars, pc, answer, res, said, status>>

Performed ==
  /\ pc = "perform"
  /\ \/ res' = "CURLE_OK" /\ Coming = 0
     \/ res' = "failed"
  /\ pc' = "result"
  /\ UNCHANGED <<jsonVars, answer, resp, said, held, status>>

\* What there is to say of an answer before it is parsed; "" if it is to be parsed.
Unparsed_sizeOnly(r, body) == IF body = <<>> THEN "no body" ELSE ""
Unparsed(r, body) ==
  IF r # "CURLE_OK" THEN "network error" ELSE IF body = <<>> THEN "no body" ELSE ""

Result ==
  /\ pc = "result"
  /\ LET line == Unparsed(res, resp)
     IN  IF line # ""
         THEN said' = Append(said, line) /\ pc' = "cleanup" /\ UNCHANGED jsonVars
         ELSE ParseStart(resp) /\ pc' = "parse" /\ UNCHANGED said
  /\ UNCHANGED <<answer, resp, res, held, status>>

ParseStep ==
  /\ pc = "parse" /\ Parse
  /\ pc' = CASE doing' = "exit" -> "exited" [] doing' = "undefined" -> "undefined" [] OTHER -> "parse"
  /\ status' = IF doing' = "exit" THEN 1 ELSE status
  /\ UNCHANGED <<answer, resp, res, said, held>>

MessageKey == <<109, 101, 115, 115, 97, 103, 101>>
Success    == <<115, 117, 99, 99, 101, 115, 115>>

\* json_parse never returns NULL, so that this is all that can follow it.
Verdict ==
  /\ pc = "parse" /\ doing = "done"
  /\ LET msg   == Get(1, MessageKey)
         msg_s == IF msg = 0 THEN <<>> ELSE IF nodes[msg].type = "string" THEN nodes[msg].text ELSE <<>>
     IN  said' = Append(said, IF msg_s = Success THEN "success" ELSE "application error")
  /\ FreeStart(1)
  /\ pc' = "free"
  /\ UNCHANGED <<answer, resp, res, held, status>>

FreeStep ==
  /\ pc = "free" /\ Free
  /\ pc' = IF doing' = "undefined" THEN "undefined" ELSE "free"
  /\ UNCHANGED <<answer, resp, res, said, held, status>>

FreeEnd ==
  /\ pc = "free" /\ doing = "free" /\ todo = <<>>
  /\ pc' = "cleanup"
  /\ UNCHANGED <<jsonVars, answer, resp, res, said, held, status>>

Cleanup == pc = "cleanup" /\ Returns(0, Things)

--------------------------------------------------------------------------------
\* What main does by itself, and what it waits for in curl_easy_perform.
Own_steps ==
  \/ BuildParams \/ ReadEmail \/ BuildData \/ Sign \/ Encode \/ CurlInit
  \/ Result \/ ParseStep \/ Verdict \/ FreeStep \/ FreeEnd \/ Cleanup
Waiting == WriteCallback \/ Performed

Next == Own_steps \/ Waiting

\* A running program goes on; nothing bounds the time in curl_easy_perform, for
\* which the client sets no timeout.
Spec == Init /\ [][Next]_vars /\ WF_vars(Own_steps)

--------------------------------------------------------------------------------
(* Properties *)

\* What json_parse builds is the value that the text starts with: members in their
\* order under their keys, strings with their escapes undone (surrogates and zeros
\* aside), however the answer was cut into pieces and the tables grew.
TreeAsWritten == doing = "done" /\ answer.value # NotJson => Tree(1) = answer.value

\* No string or table outgrows its block while it is filled, no character is read
\* behind the text unless that breaks off inside \u, nothing is freed twice; a main
\* that got past curl_easy_init or failed there returns with nothing allocated, and
\* one that failed before leaves its lists at most.
MemorySound ==
  /\ TypeOK
  /\ doing = "string" => Len(str) < strCap
  /\ \A f \in Range(frames) : Len(nodes[f.node].kids) <= f.cap
  /\ pos <= Len(text)
  /\ pc = "undefined" => CutInside(text)
  /\ pc = "returned" =>
       /\ live = {}
       /\ IF "data" \in held \/ "params" \in held
          THEN held \subseteq {"params", "data"} /\ resp = <<>> /\ status = 1
          ELSE held = {}

\* The message of a value, as a server means it.
MessageIn(v) ==
  LET ks == IF v.type = "object" THEN {k \in DOMAIN v.keys : v.keys[k] = MessageKey} ELSE {}
  IN  IF ks = {} THEN <<>> ELSE v.kids[CHOOSE k \in ks : \A j \in ks : k <= j].text

\* What main may say of the answer.  What it says of a whole body that is no JSON
\* is worth nothing: the parser takes some of these, and finds a success in
\* {"message":"success","a":}.
ToBeSaid ==
  CASE res = "failed" -> {"network error"}
    [] res = "CURLE_OK" /\ answer.body = <<>> -> {"no body"}
    [] res = "CURLE_OK" /\ answer.body # <<>> /\ answer.value = NotJson -> {"success", "application error"}
    [] OTHER -> {IF MessageIn(answer.value) = Success THEN "success" ELSE "application error"}

\* A run of main tells of the request at most once, and once if it returns after
\* it was sent.  Of a request that failed, or brought no body, it says so whatever
\* had come; of an answer that starts with a JSON value "success" if the message in
\* it is that, and else the server's error.  Only a body that is no JSON ends the
\* process, before a word is said.
VerdictHonest ==
  /\ Len(said) <= 1
  /\ said # <<>> => said[1] \in ToBeSaid
  /\ pc = "returned" /\ status = 0 => said # <<>>
  /\ pc = "exited" => answer.value = NotJson /\ said = <<>> /\ status = 1

\* Once curl_easy_perform is back, main comes to its end: the parser consumes
\* every text, json_free every tree.
EndsOnceAnswered == pc = "result" ~> pc \in {"returned", "exited", "undefined"}

================================================================================
