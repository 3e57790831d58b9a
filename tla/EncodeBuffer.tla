----------------------------- MODULE EncodeBuffer ------------------------------
(***************************************************************************)
(* url_encode_params of src/src/url_encode.c: it joins quoted keys and     *)
(* values as k=v&k=v in a buffer that it doubles as it goes.  The quoting  *)
(* is in UrlCodec; here the pairs are what quote_plus returned for them.   *)
(***************************************************************************)
EXTENDS QueryText

CONSTANTS
  PairLists,    \* the lists of [key, value] pairs
  InitialCap    \* the first size of the buffer (256 in the code)

\* What SeparatorFree says of quote_plus.
QuotedText == Seq(Byte \ {Amp, Equals, Space})
Pair       == [key : QuotedText, value : QuotedText]

ASSUME ListAssumption == PairLists \subseteq Seq(Pair)
ASSUME CapAssumption  == InitialCap \in Nat \ {0}

NUL  == 0
Junk == -1     \* memory that nobody wrote to

VARIABLES
  pairs,   \* the argument
  pc,      \* "start", "append", "terminate" or "done"
  i,       \* pairs appended so far
  cap,     \* bytes in the buffer
  out,     \* its contents: out[n + 1] is the byte at offset n
  pos,     \* where the next byte goes
  high     \* the highest offset written to, -1 if none

vars == <<pairs, pc, i, cap, out, pos, high>>

TypeOK ==
  /\ pairs \in Seq(Pair)
  /\ pc \in {"start", "append", "terminate", "done"}
  /\ i \in 0 .. Len(pairs)
  /\ cap \in Nat
  /\ out \in [1 .. cap -> Byte \cup {NUL, Junk}]
  /\ pos \in Nat
  /\ high \in Nat \cup {-1}

Init ==
  /\ pairs \in PairLists
  /\ pc = "start"
  /\ i = 0 /\ cap = 0 /\ out = <<>> /\ pos = 0 /\ high = -1

--------------------------------------------------------------------------------
\* Memory of a new size, with what was there before.
Resized_short(mem, size) == [n \in 1 .. size - 1 |-> IF n \in DOMAIN mem THEN mem[n] ELSE Junk]
Resized(mem, size) == [n \in 1 .. size |-> IF n \in DOMAIN mem THEN mem[n] ELSE Junk]

\* Text s, and a terminator, at offset `at'.
Written(mem, at, s) ==
  [n \in DOMAIN mem |-> IF n - at \in DOMAIN s THEN s[n - at]
                        ELSE IF n - at = Len(s) + 1 THEN NUL ELSE mem[n]]

Write(s) ==
  /\ out' = Written(out, pos, s)
  /\ pos' = pos + Len(s)
  /\ high' = IF pos + Len(s) > high THEN pos + Len(s) ELSE high

\* An empty list gets a buffer of its own, of one byte.
Start ==
  /\ pc = "start"
  /\ cap' = IF pairs = <<>> THEN 1 ELSE InitialCap
  /\ out' = Resized(<<>>, cap')
  /\ pc' = IF pairs = <<>> THEN "terminate" ELSE "append"
  /\ UNCHANGED <<pairs, i, pos, high>>

\* Both texts and two bytes more: for `=', and for `&' or the terminator.
Need_oneSeparator(p) == Len(p.key) + Len(p.value) + 1
Need(p) == Len(p.key) + 1 + Len(p.value) + 1

HasRoom(p) == pos + Need(p) < cap

\* One round of the while loop.
Doubled_not(size) == size
Doubled(size) == 2 * size

Grow ==
  /\ pc = "append" /\ ~HasRoom(pairs[i + 1])
  /\ cap' = Doubled(cap)
  /\ out' = Resized(out, cap')
  /\ UNCHANGED <<pairs, pc, i, pos, high>>

\* What one pair adds.  strcpy also ends the key with a NUL, which `=' covers.
Joined_late(k, p) == (IF k > 1 THEN <<Amp>> ELSE <<>>) \o p.key \o <<Equals>> \o p.value
Joined(k, p) == (IF k > 0 THEN <<Amp>> ELSE <<>>) \o p.key \o <<Equals>> \o p.value

AppendPair ==
  /\ pc = "append" /\ HasRoom(pairs[i + 1])
  /\ Write(Joined(i, pairs[i + 1]))
  /\ i' = i + 1
  /\ pc' = IF i' = Len(pairs) THEN "terminate" ELSE "append"
  /\ UNCHANGED <<pairs, cap>>

Terminate ==
  /\ pc = "terminate"
  /\ Write(<<>>)
  /\ pc' = "done"
  /\ UNCHANGED <<pairs, i, cap>>

Next == Start \/ Grow \/ AppendPair \/ Terminate

Spec == Init /\ [][Next]_vars

\* One sequential function: while it can take a step, it does.
FairSpec == Spec /\ WF_vars(Next)

--------------------------------------------------------------------------------
(* Properties *)

\* The bytes written, terminators included, all lie in the buffer: what `need'
\* and the strict comparison leave over is enough for `&' and for the last NUL.
InBounds == pc # "start" => high < cap

\* The text takes apart into the pairs it was made of: nothing was lost to a
\* realloc, no separator is missing, and no byte of the heap shows through.
TakesApart ==
  pc = "done" =>
    LET text == CString(out)
        back == [k \in DOMAIN Tokens(text) |->
                   [key |-> KeyOf(Tokens(text)[k]), value |-> ValueOf(Tokens(text)[k])]]
    IN  Len(text) = pos /\ back = pairs

\* The while loop ends, however long a pair is.
Ends == <>(pc = "done")

================================================================================
