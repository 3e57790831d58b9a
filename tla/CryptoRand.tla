------------------------------- MODULE CryptoRand ------------------------------
(***************************************************************************)
(* crypto_rand_byte and crypto_rand_bytes of src/src/crypto_helpers.c, as  *)
(* a process that draws again and again.  The kernel is external: opening  *)
(* /dev/urandom may fail, and a read may give less than was asked for,     *)
(* nothing, or an error.  Names carry Rand where BeanProofs has others.     *)
(***************************************************************************)
EXTENDS Integers

CONSTANTS
  Sizes,      \* how many bytes crypto_rand_bytes is asked for
  MaxDraws,   \* bound on the number of draws
  MaxFiles    \* descriptors the process may hold

ASSUME SizeAssumption == Sizes \subseteq Nat \ {0}
ASSUME BoundAssumption == MaxDraws \in Nat /\ MaxFiles \in Nat

VARIABLES
  step,     \* "idle", "open", "read", "count", "close" or "fallback"
  fn,       \* the function that runs
  wanted,   \* bytes asked for
  got,      \* what the last read of crypto_rand_bytes returned
  total,    \* bytes counted as read
  filled,   \* bytes of the buffer that were written to
  files,    \* open descriptors
  failures, \* reads of this draw that gave nothing or an error
  draws     \* draws so far

randVars == <<step, fn, wanted, got, total, filled, files, failures, draws>>

TypeRand ==
  /\ step \in {"idle", "open", "read", "count", "close", "fallback"}
  /\ fn \in {"crypto_rand_byte", "crypto_rand_bytes"}
  /\ wanted \in Sizes \cup {1}
  /\ got \in -1 .. wanted
  /\ total \in 0 .. wanted /\ filled \in 0 .. wanted
  /\ files \in 0 .. MaxFiles
  /\ failures \in 0 .. 1
  /\ draws \in 0 .. MaxDraws

InitRand ==
  /\ step = "idle" /\ fn = "crypto_rand_byte"
  /\ wanted = 1 /\ got = 0 /\ total = 0 /\ filled = 0
  /\ files = 0 /\ failures = 0 /\ draws = 0

Draw(f, k) ==
  /\ step = "idle" /\ draws < MaxDraws
  /\ step' = "open" /\ fn' = f /\ wanted' = k
  /\ got' = 0 /\ total' = 0 /\ filled' = 0 /\ failures' = 0
  /\ draws' = draws + 1
  /\ UNCHANGED files

Open ==
  /\ step = "open"
  /\ \/ files < MaxFiles /\ files' = files + 1 /\ step' = "read"
     \/ files' = files /\ step' = "fallback"
  /\ UNCHANGED <<fn, wanted, got, total, filled, failures, draws>>

\* What read may return when it is asked for k bytes.
Reads(k) == -1 .. k

\* crypto_rand_byte reads once, whatever read returns.
ReadByte ==
  /\ step = "read" /\ fn = "crypto_rand_byte"
  /\ \E r \in Reads(1) :
       /\ filled' = IF r > 0 THEN r ELSE 0
       /\ failures' = IF r > 0 THEN 0 ELSE 1
  /\ step' = "close"
  /\ UNCHANGED <<fn, wanted, got, total, files, draws>>

\* crypto_rand_bytes reads on until it has all, and gives up at a failed read.
Asked_whole == wanted
Asked == wanted - total

ReadBytes ==
  /\ step = "read" /\ fn = "crypto_rand_bytes" /\ total < wanted
  /\ \E r \in Reads(Asked) :
       /\ got' = r
       /\ filled' = total + (IF r > 0 THEN r ELSE 0)
  /\ step' = "count"
  /\ UNCHANGED <<fn, wanted, total, files, failures, draws>>

GivesUp_onlyOnError(r) == r < 0
GivesUp(r) == r <= 0

CountBytes ==
  /\ step = "count"
  /\ IF GivesUp(got)
     THEN step' = "close" /\ failures' = 1 /\ UNCHANGED total
     ELSE step' = "read" /\ total' = total + got /\ UNCHANGED failures
  /\ UNCHANGED <<fn, wanted, got, filled, files, draws>>

HasAll ==
  /\ step = "read" /\ fn = "crypto_rand_bytes" /\ total >= wanted
  /\ step' = "close"
  /\ UNCHANGED <<fn, wanted, got, total, filled, files, failures, draws>>

Closed_onSuccess == IF failures > 0 THEN 0 ELSE 1
Closed == 1
Close ==
  /\ step = "close"
  /\ files' = files - Closed
  /\ step' = "idle"
  /\ UNCHANGED <<fn, wanted, got, total, filled, failures, draws>>

\* Without a descriptor, every byte comes from rand().
Fallback_butLast == wanted - 1
Fallback == wanted
UseRand ==
  /\ step = "fallback"
  /\ filled' = Fallback
  /\ step' = "idle"
  /\ UNCHANGED <<fn, wanted, got, total, files, failures, draws>>

NextRand ==
  \/ Draw("crypto_rand_byte", 1)
  \/ \E k \in Sizes : Draw("crypto_rand_bytes", k)
  \/ Open \/ ReadByte \/ ReadBytes \/ CountBytes \/ HasAll \/ Close \/ UseRand

SpecRand == InitRand /\ [][NextRand]_randVars

--------------------------------------------------------------------------------
(* Properties *)

\* Between draws the process holds no descriptor: it can sign as often as it
\* likes without running out of them.
NoFileLeft == step = "idle" => files = 0

\* The buffer is random to its last byte unless a read failed: the fallback, and
\* any number of short reads, fill it.
FilledUnlessReadFails == step = "idle" /\ draws > 0 /\ failures = 0 => filled = wanted

\* A draw ends, even if /dev/urandom gives no more bytes.
DrawEnds == step # "idle" ~> step = "idle"

================================================================================
