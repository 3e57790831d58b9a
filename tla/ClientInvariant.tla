----------------------------- MODULE ClientInvariant -----------------------------
(***************************************************************************)
(* What Client keeps, for ClientProofs: where main stands and what it      *)
(* holds; that the values made so far are a tree in the order of their     *)
(* indices, nested as the calls are; that what is allocated is what the    *)
(* tree, the tables being filled and a key being read take; that what      *)
(* json_free still has to do shares out what is allocated; and that a text *)
(* that spells a value is read part by part, and told of as it should be.  *)
(***************************************************************************)
EXTENDS Client, JsonGrammar

--------------------------------------------------------------------------------
(* What is held, and where main stands *)

Parsing == {"value", "key", "string", "store", "done"}

\* The states of the parser in each part of main.
StageInv ==
  /\ pc \in {"params", "email", "data", "sign", "encode", "curl", "perform", "result"} =>
       doing = "nothing" /\ nodes = <<>> /\ frames = <<>> /\ cur = 0 /\ live = {}
  /\ pc = "parse"     => doing \in Parsing
  /\ pc = "free"      => doing = "free"
  /\ pc = "exited"    => doing = "exit"
  /\ pc = "undefined" => CutInside(text)
  /\ pc \in {"cleanup", "returned"} => live = {}

HeldInv ==
  /\ pc = "params" => held = {}
  /\ pc \in {"email", "data"} => held = {"params"}
  /\ pc = "sign"   => held = {"params", "data"}
  /\ pc = "encode" => held = {"params", "data", "sig"}
  /\ pc = "curl"   => held = {"params", "data", "sig", "body"}
  /\ pc \in {"params", "email", "data", "sign", "encode", "curl"} => resp = <<>>
  /\ pc = "returned" =>
       held = {} \/ (held \in {{"params"}, {"params", "data"}} /\ resp = <<>> /\ status = 1)

\* Of the text and the string that is being read.
CursorInv ==
  /\ pos <= Len(text)
  /\ doing = "string" => Len(str) < strCap /\ strCap >= 4

--------------------------------------------------------------------------------
(* The values made so far *)

\* A value as it goes into the table of the innermost call, or will when it is read.
Pending == doing = "store" \/ (doing = "string" /\ cur # 0)

\* The innermost call waits for a key, or reads it.
Keyless == doing = "key" \/ (doing = "string" /\ cur = 0)

OpenNodes == {frames[j].node : j \in DOMAIN frames}
Innermost == frames[Len(frames)].node

\* A value and those in it have consecutive indices; e[i] is the one behind them.
\* The values in a value, its kids, follow one another; n are made so far.
Spans(kids, e, i, n) ==
  /\ e[i] \in i + 1 .. n + 1
  /\ \A k \in DOMAIN kids : kids[k] \in i + 1 .. n /\ e[kids[k]] <= e[i]
  /\ \A k, l \in DOMAIN kids : k < l => e[kids[k]] <= kids[l]
  /\ \A x \in i + 1 .. e[i] - 1 : \E k \in DOMAIN kids : kids[k] <= x /\ x < e[kids[k]]

Shape(ns, e) == e \in [DOMAIN ns -> Nat] /\ \A i \in DOMAIN ns : Spans(ns[i].kids, e, i, Len(ns))

\* Each call is for the value that comes next in the value of the call around it,
\* and what is pending comes next in the innermost.
Nested(e) ==
  /\ \A j \in 1 .. Len(frames) - 1 : frames[j + 1].node = e[frames[j].node]
  /\ frames # <<>> =>
       frames[1].node = 1 /\ e[Innermost] = IF Pending THEN cur ELSE Len(nodes) + 1
  /\ frames = <<>> /\ nodes # <<>> => cur = 1
  /\ Pending \/ (frames = <<>> /\ nodes # <<>>) => e[cur] = Len(nodes) + 1

NestInv ==
  /\ \E e : Shape(nodes, e) /\ Nested(e)
  /\ \A i \in DOMAIN nodes : \A k \in DOMAIN nodes[i].kids : nodes[i].kids[k] \notin OpenNodes
  /\ Pending \/ doing = "done" => cur \in DOMAIN nodes \ OpenNodes
  /\ doing = "done" => frames = <<>>
  /\ frames = <<>> /\ doing \in {"value", "key"} => nodes = <<>>

\* An object has a key for each value, and one more while a value is read.
KeysInv ==
  /\ \A i \in DOMAIN nodes :
       /\ nodes[i].type # "object" => nodes[i].keys = <<>>
       /\ nodes[i].type = "object" =>
            Len(nodes[i].keys) = IF i \in OpenNodes /\ ~(Keyless /\ i = Innermost)
                                 THEN Len(nodes[i].kids) + 1 ELSE Len(nodes[i].kids)
  /\ doing = "string" /\ cur # 0 => nodes[cur].type = "string"

\* The calls under way are for objects and arrays, one made after the other, with
\* room in their tables; a key is read for an object.
FramesInv ==
  /\ \A j \in DOMAIN frames :
       /\ frames[j].cap >= 1 /\ Len(nodes[frames[j].node].kids) <= frames[j].cap
       /\ nodes[frames[j].node].type \in {"object", "array"}
  /\ \A j, l \in DOMAIN frames : j < l => frames[j].node < frames[l].node
  /\ Keyless => frames # <<>> /\ nodes[Innermost].type = "object"

\* What is allocated for a value whose table is in nodes.
BlocksOf(ns, i) ==
  {Own(i)} \cup (IF ns[i].type = "string" THEN {TextOf(i)} ELSE {})
           \cup {KeyOf(i, k) : k \in DOMAIN ns[i].keys}
           \cup (IF ns[i].kids # <<>> THEN {Table(i)} ELSE {})

AllBlocks(ns) == UNION {BlocksOf(ns, i) : i \in DOMAIN ns}
Tables == {Table(i) : i \in OpenNodes}
KeyInHand == IF doing = "string" /\ cur = 0
             THEN {KeyOf(Innermost, Len(nodes[Innermost].keys) + 1)} ELSE {}

HeapInv ==
  live = AllBlocks(nodes) \cup Tables \cup KeyInHand

--------------------------------------------------------------------------------
(* json_free *)

\* What is gone when an entry of todo has been dealt with.
Cover(ns, e, b) ==
  CASE b[1] = "node" /\ b[3] = 0 -> UNION {BlocksOf(ns, j) : j \in b[2] .. e[b[2]] - 1}
    [] b[1] = "node" /\ b[3] # 0 -> {Own(b[2])}
    [] OTHER -> {b}

\* What todo may hold: a value of the tree, marked or not, or a block of another kind.
Entries(ns) == {b \in Blocks : b[1] = "node" => b[2] \in DOMAIN ns /\ b[3] \in {0, 1}}

\* The entries of s share out the blocks B.
Splits(ns, e, s, B) ==
  /\ s \in Seq(Entries(ns))
  /\ B = UNION {Cover(ns, e, s[k]) : k \in DOMAIN s}
  /\ \A k, l \in DOMAIN s : k # l => Cover(ns, e, s[k]) \cap Cover(ns, e, s[l]) = {}

KeysClosed(ns) ==
  \A i \in DOMAIN ns : Len(ns[i].keys) = IF ns[i].type = "object" THEN Len(ns[i].kids) ELSE 0

FreeInv ==
  doing = "free" =>
    /\ \E e : Shape(nodes, e) /\ Splits(nodes, e, todo, live)
    /\ KeysClosed(nodes)

ParseInv ==
  doing \in Parsing => NestInv /\ KeysInv /\ HeapInv

--------------------------------------------------------------------------------
(* A text that spells a value is read along its derivation d *)

\* What comes next in a value whose table is being filled: a value, a key.
NextKid(d, i) == d.nodes[i].kids[Len(nodes[i].kids) + 1]
NextKey(d, i) == d.key[i][Len(nodes[i].kids) + 1]

\* The string or key that is being read.
Spelling(d) == IF cur # 0 THEN d.string[cur] ELSE NextKey(d, Innermost)

\* What has been made of the value i.
Grown(d, i) ==
  /\ i \in OpenNodes =>
       /\ nodes[i].type = d.nodes[i].type /\ nodes[i].text = <<>>
       /\ Len(nodes[i].kids) < Len(d.nodes[i].kids)
       /\ \A k \in DOMAIN nodes[i].kids : nodes[i].kids[k] = d.nodes[i].kids[k]
       /\ \A k \in DOMAIN nodes[i].keys : nodes[i].keys[k] = d.nodes[i].keys[k]
  /\ i \notin OpenNodes =>
       IF doing = "string" /\ cur = i
       THEN nodes[i] = Made("string") /\ d.nodes[i].type = "string"
       ELSE nodes[i] = d.nodes[i]

\* Each call under way is for the value that comes next in that of the call around it.
Chained(d) ==
  /\ \A j \in 1 .. Len(frames) - 1 : frames[j + 1].node = NextKid(d, frames[j].node)
  /\ frames # <<>> => NextKid(d, Innermost) = IF Pending THEN cur ELSE Len(nodes) + 1
  /\ Pending => d.next[cur] = Len(nodes) + 1

\* Where in the text the reader stands.
Placed(d) ==
  /\ doing = "value"  => Gap(text, pos, d.from[Len(nodes) + 1])
  /\ doing = "key"    => Gap(text, pos, Begins(NextKey(d, Innermost)))
  /\ doing = "store"  => pos = d.to[cur]
  /\ doing = "string" => \E k \in DOMAIN Spelling(d).at :
                           pos = Spelling(d).at[k] /\ str = Spelling(d).got[k]
  /\ doing = "done"   => nodes = d.nodes

Follows(d) ==
  /\ Len(nodes) <= Len(d.nodes) /\ \A i \in DOMAIN nodes : Grown(d, i)
  /\ Chained(d) /\ Placed(d)

--------------------------------------------------------------------------------
(* The answer, and what is said of it *)

Before == {"params", "email", "data", "sign", "encode", "curl", "perform"}

AnswerInv ==
  /\ Len(resp) <= Len(answer.body) /\ resp = SubSeq(answer.body, 1, Len(resp))
  /\ pc \in Before => res = "none"
  /\ pc \in {"result", "parse", "free", "cleanup"} => res # "none"
  /\ res = "CURLE_OK" => resp = answer.body
  /\ pc \in {"parse", "exited"} => res = "CURLE_OK" /\ resp # <<>>

SaidInv ==
  /\ pc \in Before \cup {"result", "parse", "exited"} => said = <<>>
  /\ pc \in {"free", "cleanup"} => said # <<>>
  /\ pc = "returned" /\ status = 0 => said # <<>>
  /\ pc = "exited" => status = 1
  /\ said # <<>> => res # "none" /\ \E line \in ToBeSaid : said = <<line>>

\* What is not JSON is NotJson: the rest is spelled as the grammar says.
AllSpelled == \A a \in Answers : a.value # NotJson => Spelled(a.body, a.value)

\* An answer that is JSON is read along one of its derivations.
TreeInv ==
  /\ doing \in Parsing => pc = "parse"
  /\ pc = "parse" => text = answer.body
  /\ pc = "parse" /\ answer.value # NotJson =>
       \E d : Derives(text, d) /\ answer.value = TreeOf(d.nodes, 1) /\ Follows(d)
  /\ pc = "exited" => answer.value = NotJson

--------------------------------------------------------------------------------
\* The part of the invariant that is about the reader of JSON, and all of it.
JsonInv == TypeJson /\ CursorInv /\ FramesInv
ReaderInv == JsonInv /\ ParseInv /\ FreeInv
MainTypes ==
  /\ pc \in {"params", "email", "data", "sign", "encode", "curl", "perform", "result", "parse",
             "free", "cleanup", "returned", "exited", "undefined"}
  /\ answer \in Answers
  /\ resp \in Text
  /\ res \in {"none", "CURLE_OK", "failed"}
  /\ said \in Seq(Lines)
  /\ held \subseteq Things
  /\ status \in {-1, 0, 1}

IInv == ReaderInv /\ MainTypes /\ StageInv /\ HeldInv

=================================================================================
