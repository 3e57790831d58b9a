------------------------------ MODULE ParamTables ------------------------------
(***************************************************************************)
(* The way of a parameter from the caller to X-Argus.  params_from_url of  *)
(* src/src/signer.c reads the url into a table, or the caller gives a list *)
(* of its own; url_encode_params makes a text of it; argus_get_sign reads  *)
(* that text into a second table with parse_query_params of                *)
(* src/src/url_encode.c.  parse_query_params may also be given any text.   *)
(*                                                                         *)
(* One step is one round of a parser's loop.  A definition named X_Y is X  *)
(* with a mistake, as in Signer.                                           *)
(***************************************************************************)
EXTENDS QueryText, SequencesExt

CONSTANTS
  UrlTexts,    \* urls passed to tt_sign
  CallerLists, \* lists of [key, value] pairs passed to tt_sign
  QueryTexts,  \* texts passed to parse_query_params
  TableCap     \* entries a table is first made for (16 in the code)

Text  == Seq(Byte)
Entry == [key : Text, value : Text]

ASSUME InputAssumption ==
  /\ UrlTexts \subseteq Text /\ QueryTexts \subseteq Text
  /\ CallerLists \subseteq Seq(Entry)
  /\ TableCap \in Nat \ {0}

VARIABLES
  source,   \* "url", "list" or "text": what the run starts from
  url,      \* the url
  text,     \* the encoded text that parse_query_params gets
  pc,
  tokens,   \* what strtok_r has yet to return
  list,     \* the table of params_from_url, or the caller's list
  found,    \* the table of parse_query_params
  cap,      \* entries the table under construction has room for
  live      \* the number of heap blocks the tables, their strings and the
            \* parsers' copies of their input take up

vars == <<source, url, text, pc, tokens, list, found, cap, live>>

TypeOK ==
  /\ source \in {"url", "list", "text"}
  /\ pc \in {"url", "url_table", "encode", "query", "query_table", "read", "done"}
  /\ url \in Text /\ text \in Text
  /\ tokens \in Seq(Text \ {<<>>})
  /\ list \in Seq(Entry) /\ found \in Seq(Entry)
  /\ cap \in Nat /\ live \in Nat

Start(from, u, l, t) ==
  /\ source = from /\ url = u /\ list = l /\ text = t
  /\ pc = (CASE from = "url" -> "url" [] from = "list" -> "encode" [] from = "text" -> "query")
  /\ tokens = <<>> /\ found = <<>> /\ cap = 0 /\ live = 0

Init ==
  \/ \E u \in UrlTexts : Start("url", u, <<>>, <<>>)
  \/ \E l \in CallerLists : Start("list", <<>>, l, <<>>)
  \/ \E t \in QueryTexts : Start("text", <<>>, <<>>, t)

Pair(k, v) == [key |-> k, value |-> v]
Has(table, k)   == \E n \in DOMAIN table : table[n].key = k
Place_first(table, k) == 1
Place(table, k) == SelectInSeq(table, LAMBDA e : e.key = k)
NextToken       == tokens' = Tail(tokens)

\* A table is one block, once it has room for something, with two per entry.
Blocks(n, room) == 2 * n + (IF room > 0 THEN 1 ELSE 0)
Room_late(n, room) == IF n > room THEN 2 * room ELSE room
Room(n, room)   == IF n >= room THEN 2 * room ELSE room

--------------------------------------------------------------------------------
(* params_from_url *)

QuestionMark == 63
QueryOf(u) == LET q == SelectInSeq(u, LAMBDA c : c = QuestionMark)
              IN  IF q = 0 THEN <<>> ELSE SubSeq(u, q + 1, Len(u))

\* Without a query there is no table; otherwise it works on a copy of the query.
OpenUrl ==
  /\ pc = "url"
  /\ IF QueryOf(url) = <<>>
     THEN /\ pc' = "encode" /\ UNCHANGED <<tokens, live>>
     ELSE /\ pc' = "url_table" /\ tokens' = Tokens(QueryOf(url)) /\ live' = live + 1
  /\ cap' = 0
  /\ UNCHANGED <<source, url, text, list, found>>

\* A key that is there gets the new value in its old place.
UrlUpdate ==
  /\ pc = "url_table" /\ tokens # <<>>
  /\ LET k == KeyOf(Head(tokens)) IN
       /\ Has(list, k)
       /\ list' = [list EXCEPT ![Place(list, k)].value = ValueOf(Head(tokens))]
  /\ NextToken
  /\ UNCHANGED <<source, url, text, pc, found, cap, live>>

UrlAppend ==
  /\ pc = "url_table" /\ tokens # <<>>
  /\ ~Has(list, KeyOf(Head(tokens)))
  /\ cap' = IF cap = 0 THEN TableCap ELSE Room(Len(list), cap)
  /\ list' = Append(list, Pair(KeyOf(Head(tokens)), ValueOf(Head(tokens))))
  /\ live' = live + Blocks(Len(list'), cap') - Blocks(Len(list), cap)
  /\ NextToken
  /\ UNCHANGED <<source, url, text, pc, found>>

UrlReturn ==
  /\ pc = "url_table" /\ tokens = <<>>
  /\ pc' = "encode"
  /\ live' = live - 1
  /\ UNCHANGED <<source, url, text, tokens, list, found, cap>>

--------------------------------------------------------------------------------
(* url_encode_params, as EncodeBuffer and UrlCodec have it *)

QuoteAll(s) == FlattenSeq([n \in DOMAIN s |-> QuotedByte(s[n])])
EncodedPair(l, n) == (IF n > 1 THEN <<Amp>> ELSE <<>>)
                     \o QuoteAll(l[n].key) \o <<Equals>> \o QuoteAll(l[n].value)

Encode ==
  /\ pc = "encode"
  /\ text' = FlattenSeq([n \in DOMAIN list |-> EncodedPair(list, n)])
  /\ pc' = "query"
  /\ UNCHANGED <<source, url, tokens, list, found, cap, live>>

--------------------------------------------------------------------------------
(* parse_query_params *)

\* The table is made at once, unless the text is empty.
OpenQuery ==
  /\ pc = "query"
  /\ IF text = <<>>
     THEN /\ pc' = "read" /\ cap' = 0 /\ UNCHANGED <<tokens, live>>
     ELSE /\ pc' = "query_table" /\ cap' = TableCap /\ tokens' = Tokens(text)
          /\ live' = live + Blocks(0, TableCap) + 1
  /\ UNCHANGED <<source, url, text, list, found>>

Skipped_keepsEmpty(t) == ~HasEquals(t)
Skipped(t) == ~HasEquals(t) \/ ValueOf(t) = <<>>
DecodedKey_raw(t) == KeyOf(t)
DecodedKey(t)   == Unquoted(KeyOf(t))
DecodedValue(t) == Unquoted(ValueOf(t))

QuerySkip ==
  /\ pc = "query_table" /\ tokens # <<>>
  /\ Skipped(Head(tokens))
  /\ NextToken
  /\ UNCHANGED <<source, url, text, pc, list, found, cap, live>>

\* The first value of a key stays; of the decoded key and value of a later one,
\* nothing does.
LeftByDuplicate_all == 2
LeftByDuplicate == 0
QueryDuplicate ==
  /\ pc = "query_table" /\ tokens # <<>>
  /\ ~Skipped(Head(tokens)) /\ Has(found, DecodedKey(Head(tokens)))
  /\ live' = live + LeftByDuplicate
  /\ NextToken
  /\ UNCHANGED <<source, url, text, pc, list, found, cap>>

QueryAppend ==
  /\ pc = "query_table" /\ tokens # <<>>
  /\ ~Skipped(Head(tokens)) /\ ~Has(found, DecodedKey(Head(tokens)))
  /\ cap' = Room(Len(found), cap)
  /\ found' = Append(found, Pair(DecodedKey(Head(tokens)), DecodedValue(Head(tokens))))
  /\ live' = live + Blocks(Len(found'), cap') - Blocks(Len(found), cap)
  /\ NextToken
  /\ UNCHANGED <<source, url, text, pc, list>>

QueryReturn ==
  /\ pc = "query_table" /\ tokens = <<>>
  /\ pc' = "read"
  /\ live' = live - 1
  /\ UNCHANGED <<source, url, text, tokens, list, found, cap>>

\* argus_get_sign frees its table, and tt_sign later that of the url.
Free ==
  /\ pc = "read"
  /\ live' = live - Blocks(Len(found), cap)
                  - (IF source = "url" THEN Blocks(Len(list), Len(list)) ELSE 0)
  /\ pc' = "done"
  /\ UNCHANGED <<source, url, text, tokens, list, found, cap>>

--------------------------------------------------------------------------------
Next ==
  \/ OpenUrl \/ UrlUpdate \/ UrlAppend \/ UrlReturn
  \/ Encode
  \/ OpenQuery \/ QuerySkip \/ QueryDuplicate \/ QueryAppend \/ QueryReturn
  \/ Free

Spec == Init /\ [][Next]_vars

--------------------------------------------------------------------------------
(* Properties *)

\* Of the entries N of a list, the first of each key, in their order; and the same
\* keys each with the value that is given last.
Firsts(l, N)      == InOrder({n \in N : \A m \in N : m < n => l[m].key # l[n].key})
FirstPerKey(l, N) == [k \in DOMAIN Firsts(l, N) |-> l[Firsts(l, N)[k]]]
LastOf(l, N, key) == CHOOSE n \in N : l[n].key = key /\ \A m \in N : m > n => l[m].key # key
LastPerKey(l, N)  == [k \in DOMAIN Firsts(l, N) |->
                        LET key == l[Firsts(l, N)[k]].key
                        IN  Pair(key, l[LastOf(l, N, key)].value)]

\* The pairs a query text names, as they are and decoded, and those that count.
UrlPairs(s)   == [n \in DOMAIN Tokens(s) |-> Pair(KeyOf(Tokens(s)[n]), ValueOf(Tokens(s)[n]))]
QueryPairs(s) == [n \in DOMAIN Tokens(s) |->
                    Pair(Unquoted(KeyOf(Tokens(s)[n])), Unquoted(ValueOf(Tokens(s)[n])))]
Counting(s)   == {n \in DOMAIN Tokens(s) : HasEquals(Tokens(s)[n]) /\ ValueOf(Tokens(s)[n]) # <<>>}

\* Entries are stored inside the table.
StoresInside == pc \in {"url_table", "query_table"} =>
                  Len(IF pc = "url_table" THEN list ELSE found) <= cap

\* A url gives each key its last value, in the order in which the keys appear.
UrlKeepsLast ==
  source = "url" /\ pc = "encode" =>
    LET given == UrlPairs(QueryOf(url))
    IN  list = LastPerKey(given, DOMAIN given)

\* A query text gives each key, as decoded, its first value that is not empty.
QueryKeepsFirst ==
  pc = "read" =>
    found = FirstPerKey(QueryPairs(text), Counting(text))

\* X-Argus reads back, out of the text that is signed, the keys and values that
\* the caller or the url gave, but for empty values and repeated keys.
ReadsBack ==
  source # "text" /\ pc = "read" =>
    found = FirstPerKey(list, {n \in DOMAIN list : list[n].value # <<>>})

\* Whatever is skipped, replaced or repeated on the way, all of it is freed.
AllFreed == pc = "done" => live = 0

================================================================================
