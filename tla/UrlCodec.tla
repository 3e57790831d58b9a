------------------------------- MODULE UrlCodec --------------------------------
(***************************************************************************)
(* quote_plus and unquote_plus of src/src/url_encode.c, one round of their *)
(* loops at a time, in the buffers they allocate.  A text is quoted and    *)
(* then unquoted, as tt_sign and argus_get_sign do, or unquoted as it is.  *)
(***************************************************************************)
EXTENDS QueryText

CONSTANT Texts   \* the C strings that are passed in

ASSUME TextAssumption == Texts \subseteq Seq(Byte)

VARIABLES
  given,    \* the text of the first call
  text,     \* the argument of the next or running call, then the last result
  quoted,   \* text went through quote_plus
  fn,       \* the function that runs; "idle" between calls, "done" at the end
  i,        \* the offset of the next byte it reads
  cap,      \* bytes in its buffer
  out       \* bytes written, so that the next goes to offset Len(out)

vars == <<given, text, quoted, fn, i, cap, out>>

TypeOK ==
  /\ given \in Seq(Byte) /\ text \in Seq(Byte)
  /\ quoted \in BOOLEAN
  /\ fn \in {"idle", "quote_plus", "unquote_plus", "done"}
  /\ i \in Nat /\ cap \in Nat
  /\ out \in Seq(0 .. 255)

Init ==
  /\ given \in Texts /\ text = given
  /\ quoted = FALSE
  /\ fn = "idle" /\ i = 0 /\ cap = 0 /\ out = <<>>

\* An escape takes three bytes; unquoting never makes a text longer.
Capacity_noNul(f, len) == IF f = "quote_plus" THEN 3 * len ELSE len
Capacity(f, len) == IF f = "quote_plus" THEN 3 * len + 1 ELSE len + 1

Call(f) ==
  /\ fn = "idle" /\ (quoted => f = "unquote_plus")
  /\ fn' = f
  /\ i' = 0 /\ out' = <<>>
  /\ cap' = Capacity(f, Len(text))
  /\ UNCHANGED <<given, text, quoted>>

QuoteNext ==
  /\ fn = "quote_plus" /\ i < Len(text)
  /\ out' = out \o QuotedByte(text[i + 1])
  /\ i' = i + 1
  /\ UNCHANGED <<given, text, quoted, fn, cap>>

UnquoteNext ==
  /\ fn = "unquote_plus" /\ i < Len(text)
  /\ out' = Append(out, UnquotedByte(text, i + 1))
  /\ i' = i + Width(text, i + 1)
  /\ UNCHANGED <<given, text, quoted, fn, cap>>

\* The terminator goes to offset Len(out).
Return ==
  /\ fn \in {"quote_plus", "unquote_plus"} /\ i >= Len(text)
  /\ text' = CString(out)
  /\ quoted' = (quoted \/ fn = "quote_plus")
  /\ fn' = IF fn = "quote_plus" THEN "idle" ELSE "done"
  /\ UNCHANGED <<given, i, cap, out>>

Next ==
  \/ \E f \in {"quote_plus", "unquote_plus"} : Call(f)
  \/ QuoteNext \/ UnquoteNext \/ Return

Spec == Init /\ [][Next]_vars

--------------------------------------------------------------------------------
(* Properties *)

\* Every byte written lies in the buffer, and there is always room for the
\* terminator behind the last one.
InBounds == fn \in {"quote_plus", "unquote_plus"} => Len(out) < cap

\* unquote_plus undoes quote_plus on every C string: "+", "%" and bytes beyond
\* ASCII come back as they were.
RoundTrip == fn = "done" /\ quoted => text = given

\* What quote_plus returns cannot be mistaken for the separators around it, nor
\* end early, so that keys and values can be joined and taken apart again.
SeparatorFree ==
  fn = "idle" /\ quoted => \A n \in DOMAIN text : text[n] \notin {Amp, Equals, Space}

================================================================================
