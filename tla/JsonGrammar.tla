------------------------------- MODULE JsonGrammar ------------------------------
(***************************************************************************)
(* How a text spells a value: the grammar of JSON, against which MiniJson  *)
(* is proved right.                                                        *)
(*                                                                         *)
(* A derivation d names the parts of a text t by the offsets at which they *)
(* stand.  Its values, d.nodes, are numbered in the order in which they    *)
(* begin: the i-th reaches from d.from[i] to d.to[i], and d.next[i] is the *)
(* first that begins behind it.  A string has d.string[i], an array or     *)
(* object the separators d.sep[i], an object also the keys d.key[i] and    *)
(* the colons d.colon[i].                                                  *)
(*                                                                         *)
(* It derives all of JSON but numbers that num has no room for, and more   *)
(* than JSON: any characters of a number are one, worth what atof reads of *)
(* them.  A \u means its code alone, in UTF-8, and a string what C keeps   *)
(* of it, up to the first zero.                                            *)
(***************************************************************************)
EXTENDS MiniJson

Char(t, p) == IF p < Len(t) THEN t[p + 1] ELSE 0

\* Nothing but spaces from p to q, where there is none.
Gap(t, p, q) ==
  /\ q \in p .. Len(t) /\ Char(t, q) \notin Space
  /\ \A k \in p .. q - 1 : Char(t, k) \in Space

--------------------------------------------------------------------------------
(* Strings: s.at are the offsets of the characters and escapes between the    *)
(* quotes and of the last quote, s.got what has been spelled up to each.      *)

Piece(t, p, q, before, after) ==
  \/ /\ Char(t, p) \notin {0, Quote, Backslash}
     /\ q = p + 1 /\ after = before \o <<Char(t, p)>>
  \/ /\ Char(t, p) = Backslash /\ Char(t, p + 1) \in DOMAIN Escapes
     /\ q = p + 2 /\ after = before \o <<Escapes[Char(t, p + 1)]>>
  \/ /\ Char(t, p) = Backslash /\ Char(t, p + 1) = Letter_u
     /\ q = p + 6 /\ q <= Len(t) /\ \A k \in p + 2 .. p + 5 : HexValue(Char(t, k)) < 16
     /\ after = before \o Utf8(Codepoint(SubSeq(t, p + 3, p + 6)))

Spells(t, s, meant) ==
  LET n == Len(s.at)
  IN  /\ s.at \in Seq(Nat \ {0}) /\ s.got \in Seq(Text) /\ n > 0 /\ Len(s.got) = n
      /\ Char(t, s.at[1] - 1) = Quote /\ s.got[1] = <<>>
      /\ \A k \in 1 .. n - 1 : Piece(t, s.at[k], s.at[k + 1], s.got[k], s.got[k + 1])
      /\ Char(t, s.at[n]) = Quote /\ meant = CString(s.got[n])

Begins(s) == s.at[1] - 1
Ends(s)   == s.at[Len(s.at)] + 1

--------------------------------------------------------------------------------
(* Values *)

IsLiteral(t, d, i) ==
  \E type \in DOMAIN Literals :
    /\ d.nodes[i] = Made(type)
    /\ \A k \in DOMAIN Literals[type] : Char(t, d.from[i] + k - 1) = Literals[type][k]
    /\ d.to[i] = d.from[i] + Len(Literals[type])

\* As many characters as can be part of a number, and not too many for num.
IsNumber(t, d, i) ==
  LET p == d.from[i]
      q == d.to[i]
  IN  /\ q \in p + 1 .. Len(t) /\ q - p < NumberCap
      /\ Char(t, q) \notin NumberChars /\ \A k \in p .. q - 1 : Char(t, k) \in NumberChars
      /\ d.nodes[i] = [Made("number") EXCEPT !.text = Atof(SubSeq(t, p + 1, q))]

IsString(t, d, i) ==
  /\ d.nodes[i] = [Made("string") EXCEPT !.text = d.nodes[i].text]
  /\ Spells(t, d.string[i], d.nodes[i].text)
  /\ d.from[i] = Begins(d.string[i]) /\ d.to[i] = Ends(d.string[i])

\* The k-th member stands between two separators: the bracket or a comma before
\* it, a comma or the bracket behind it.
IsMember(t, d, i, k) ==
  LET node == d.nodes[i]
      kid  == node.kids[k]
      at   == d.sep[i][k - 1] + 1
      key  == d.key[i][k]
  IN  /\ IF node.type = "object"
         THEN /\ Gap(t, at, Begins(key)) /\ Spells(t, key, node.keys[k])
              /\ Gap(t, Ends(key), d.colon[i][k]) /\ Char(t, d.colon[i][k]) = Colon
              /\ Gap(t, d.colon[i][k] + 1, d.from[kid])
         ELSE Gap(t, at, d.from[kid])
      /\ Gap(t, d.to[kid], d.sep[i][k])
      /\ Char(t, d.sep[i][k]) = IF k < Len(node.kids) THEN Comma ELSE Closed[node.type]

IsTable(t, d, i) ==
  LET node == d.nodes[i]
      n    == Len(node.kids)
  IN  /\ node.type \in DOMAIN Open /\ node.text = <<>>
      /\ Len(node.keys) = IF node.type = "object" THEN n ELSE 0
      /\ Char(t, d.from[i]) = Open[node.type] /\ d.sep[i][0] = d.from[i]
      /\ \A k \in 1 .. n : IsMember(t, d, i, k)
      /\ IF n = 0
         THEN Gap(t, d.from[i] + 1, d.to[i] - 1) /\ Char(t, d.to[i] - 1) = Closed[node.type]
         ELSE d.to[i] = d.sep[i][n] + 1

\* The values in a value begin one after the other, the first right after it.
Numbered(d, i) ==
  LET kids == d.nodes[i].kids
  IN  /\ \A k \in DOMAIN kids :
           kids[k] \in DOMAIN d.nodes /\ kids[k] = IF k = 1 THEN i + 1 ELSE d.next[kids[k - 1]]
      /\ d.next[i] = IF kids = <<>> THEN i + 1 ELSE d.next[kids[Len(kids)]]

Derives(t, d) ==
  /\ d.nodes \in Seq(Node) /\ d.nodes # <<>>
  /\ d.from \in [DOMAIN d.nodes -> Nat] /\ d.to \in [DOMAIN d.nodes -> Nat]
  /\ d.next \in [DOMAIN d.nodes -> Nat]
  /\ \A i \in DOMAIN d.nodes :
       /\ IsLiteral(t, d, i) \/ IsNumber(t, d, i) \/ IsString(t, d, i) \/ IsTable(t, d, i)
       /\ Numbered(d, i)
  /\ Gap(t, 0, d.from[1]) /\ d.next[1] = Len(d.nodes) + 1

\* The text spells the value, whatever stands behind it.
Spelled(t, value) == \E d : Derives(t, d) /\ value = TreeOf(d.nodes, 1)

================================================================================
