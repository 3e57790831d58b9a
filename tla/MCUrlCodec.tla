------------------------------ MODULE MCUrlCodec -------------------------------
(* Texts over the bytes that quote_plus and unquote_plus treat differently. *)
EXTENDS UrlCodec

CONSTANT MaxLen   \* bound on the length of a text

\* NUL's digit, a hex digit of each case, a letter that is none, the special
\* characters and a byte beyond ASCII.
MCBytes == {48, 65, 97, 103, Space, Percent, Amp, Plus, Equals, 233}
MCTexts == UNION {[1 .. n -> MCBytes] : n \in 0 .. MaxLen}

================================================================================
