# TLA+ development for TikTokSignatureForC

This directory specifies, model-checks and proves properties of the signing
library in this repository: `tt_sign()` and `tt_signatures_free()`, the
url-encoding and parsing they rest on, the random numbers they draw, the headers
byte by byte, and the example client with its JSON reader. Paths below are
relative to the repository root.

## 1. The system

The library is sequential C without threads. Its one piece of lasting state is
a static device id; everything else lives on the stack or the heap of one call.
What makes it hard is not concurrency but what a test does not reach: early
returns that must release what was allocated so far, allocations and digests
that may fail, a clock that moves while headers are made, state that survives
from one call to the next, buffers sized by arithmetic, and two parsers of the
same text that disagree on purpose.

| Component | Source | State it keeps | Operations | What makes it correct | Status |
|---|---|---|---|---|---|
| Signer | `src/signer.c`, `include/tiktoksignature/signer.h` | static device id; per call: the merged lists, four encoded strings, the url's table, the six headers | `tt_sign`, `tt_signatures_free` | one instant, one app and one body behind all six headers; the error code tells which strings may exist; counts that belong to no list are not believed; nothing leaks or dangles; same pinned inputs, same result | modelled |
| Quoting | `src/url_encode.c:15-67` | output buffer | `quote_plus`, `unquote_plus` | in bounds; inverse of one another; output free of separators | modelled |
| Encode buffer | `src/url_encode.c:69-101` | doubling buffer | `url_encode_params` | in bounds; the text takes apart into its pairs; growth ends | modelled |
| Parameter tables | `src/signer.c:22-73`, `src/url_encode.c:103-159` | growing tables of key/value strings | `params_from_url`, `parse_query_params`, `free_query_params` | stores in bounds; last value wins in one, first in the other; what X-Argus reads is what the caller gave; all freed | modelled |
| Randomness | `src/crypto_helpers.c:89-124` | one descriptor | `crypto_rand_byte`, `crypto_rand_uint31`, `crypto_rand_bytes` | no descriptor left; every byte random; ends | modelled |
| Digests and encodings | `src/crypto_helpers.c:9-87,126-147` | none | `md5_*`, hex, little-endian | a failed digest is noticed; conversions that can be undone | partly: all but the computation of MD5 |
| Gorgon | `src/gorgon.c` | 20 bytes, mixed in place | `gorgon_v1/v2/v3` | which inputs reach the header, at which width; a mix that can be undone | modelled |
| Argus | `src/argus.c` | two field lists, fixed buffers | `argus_get_sign`, `argus_encrypt` | the bean is complete and inside its buffer; who has the key gets it back | modelled; AES is a parameter |
| Ladon | `src/ladon.c` | key table | `ladon_encrypt` | the text can be got back although two padding rules disagree | modelled |
| SM3 | `src/sm3.c` | lazily filled constant table | `sm3_hash` | padding as the standard demands, whole blocks | modelled |
| Simon | `src/simon.c` | none | `simon_encrypt` | invertible | modelled |
| Protobuf writer | `src/protobuf.c` | write position | `pb_serialize`, `pb_write_varint_raw` | stays in its buffer for the texts it is given; a reader finds the fields | modelled |
| JSON reader | `src/mini_json.c` | cursor, growing strings and tables, value tree | `json_parse`, `json_get`, `json_free` | the tree the text stands for; in bounds; all freed; an end for every text | modelled |
| Example client | `examples/Example.c` | lists, signatures, response buffer | `main`, `write_callback` | says of the request what is true of it, once; gives everything back; ends | partly: the flow of `main`, not the texts it sends |
| Tests | `tests/test_all.c`, `testdata/` | none | | | not modelled: they are the reference values |
| Build and docs | `CMakeLists.txt`, `README.md`, `docs/` | none | | | not modelled; quoted where the code disagrees |

### How the components interact

`tt_sign` calls everything else and nothing calls back:

```
main (Client) ─ tt_sign ─ params_from_url                       (ParamTables)
              │         ─ to_url_params + url_encode_params × 4 (EncodeBuffer; quote_plus: UrlCodec)
              │         ─ md5_hex_str                           (Signer!HashBody)
              │         ─ gorgon_v1 | gorgon_v2 | gorgon_v3     (Signer!Gorgon; bytes: HeaderBytes)
              │         ─ crypto_rand_bytes → default_sec_dev   (Signer!InitDeviceId; CryptoRand)
              │         ─ argus_get_sign                        (Signer!Argus)
              │         │   ─ parse_query_params                (ParamTables, unquote_plus: UrlCodec)
              │         │   ─ sm3_hash × 2, pb_serialize × 3    (Bean: Sm3, Protobuf)
              │         │   ─ argus_encrypt ─ simon_encrypt     (HeaderBytes: Simon)
              │         ─ ladon_encrypt                         (Signer!Ladon; HeaderBytes: Ladon)
              ─ curl_easy_perform → write_callback              (Client; libcurl external)
              ─ json_parse, json_get, json_free                 (MiniJson)
```

`write_callback` is the one callback: libcurl hands it the answer in pieces of
any length and may give up between any two of them. In the library itself nothing
calls back. The interaction that no unit test covers there is `ParamTables`: a
parameter is written by one function, encoded by a second, joined by a third and
read back by a fourth, which splits, skips, decodes and de-duplicates by its own
rules.

The full list of hazards, with source lines and the property that guards each,
is in `PROJECT.json` under `hazards`.

## 2. Modules

| Module | Role |
|---|---|
| `SignTypes` | what `tt_sign` takes and returns; the constants and the caller's obligations |
| `SignApi` | abstract specification: what a caller may rely on |
| `Signer` | `signer.c` statement by statement, its heap, its failures, its properties, and `Implements == Api!Spec` |
| `SignerClaims`, `ClientClaims` | sentences of header file, README and messages that `Signer` and `Client` refute |
| `SignerInvariant` | the inductive invariant, in layers: control, types, heap, values |
| `SignerProofs` | theorems about the heap, and about what a caller gets; the refinement |
| `QueryText`, `QueryTextProofs` | bytes, quoting, unquoting, splitting: pure operators, and the lemmas about them |
| `UrlCodec`, `UrlCodecProofs` | the loops of `quote_plus` and `unquote_plus` |
| `EncodeBuffer`, `EncodeBufferProofs` | the buffer of `url_encode_params` |
| `ParamTables`, `ParamTablesProofs` | url → table → text → table, through both parsers |
| `CryptoRand` | drawing from `/dev/urandom` or `rand()` |
| `ArgusDraw` | `argus_get_sign` with its draws: `CryptoRand`, then `Bean` |
| `Words` | unsigned integers of any width as sets of bit positions, and their bytes |
| `Simon`, `Ladon`, `Sm3` | the ciphers and the hash on such words: pure operators, and how a receiver undoes the ciphers |
| `HeaderBytes`, `HeaderBytesProofs` | from a bean, a text or three digests to the digits of X-Argus, X-Ladon and X-Gorgon, one block, group or byte per action |
| `Protobuf`, `Bean`, `BeanProofs` | `protobuf.c` with a standard reader beside it; `argus_get_sign` up to the encryption; theorems about it, and about the draws of `CryptoRand` |
| `MiniJson`, `Client` | `mini_json.c`, one value, member or character per action; `main` of the example |
| `JsonGrammar` | how a text spells a value: the grammar of JSON, written without a look at the parser |
| `ClientInvariant`, `ClientProofs` | what the reader and `main` keep at every step; the theorems about memory, about the tree that is built and about what is said |
| `TestVectors` | the bean behind `testdata/vector_001.json`, used by two instances |
| `MC*` | small instances for TLC |

`Signer` and `SignApi` extend `SignTypes`; `Signer` instantiates `SignApi` with
its own variables and one mapping, `dead <- (pc = "crashed")`. `UrlCodec`,
`EncodeBuffer` and `ParamTables` extend `QueryText`, so that a parameter means
the same thing in all three. A definition named `X_Y`, next to a definition `X`,
is `X` with a plausible mistake; `PROJECT.json` pairs each property with the
mistake it catches.

### Signer: state and actions

| TLA+ | C |
|---|---|
| `clock` | what `time(NULL)` returns; `Tick` advances it at any moment |
| `default_sec_dev` | the static of the same name; `NULL` while `initialized` is 0 |
| `phase`, `request`, `option`, `result` | a call's life and what its caller holds |
| `live` | heap blocks that outlive the statement that allocates them, by owner |
| `faulty` | calls in which an allocation or a digest failed (history) |
| `pc`, `cur` | the next statement of `tt_sign`, and the call it belongs to |
| `unix_ts`, `lists`, `url_params`, `str`, `stub`, `sig` | locals of `tt_sign` |

One action per statement group: `NullInput` (78-81), `ReadClock` (89-94),
`MergeBody` (96-108), `TakeParams` (110-131), `EncodeLists` (133-148),
`TakeRawBody` (150-153), `HashBody` (155-165), `Gorgon` (171-198), `BadVersion`
(199-206), `InitDeviceId` (209-226), `Argus` (228-232), `Ladon` (234-235),
`Finish` (237-259), `Free` (262-271). Two ways out are not in the text.
`OutOfMemory`: an unchecked `malloc`, `strdup` or `realloc` that fails is
dereferenced and the process dies. `ReadNull`: README.md:194 asks for a count of 0
beside a NULL list, and `tt_sign` looks at the pointer for `params` and `cookie`,
but not for `data` and `payload`; a count left over there makes `to_url_params`
read through the NULL pointer, unless `MergeBody` put the other list in its place.
`StaleCounts` says which of the counts are believed, `SignApi` has `Overread` for
the call that is not answered.

A string is modelled by what it was made from. An encoded list is the sequence
of its pairs, which is sound because of what `UrlCodec`, `EncodeBuffer` and
`ParamTables` show about the encoding; a header is the record of the inputs that
went into it, each in the width the code keeps (`% Word` for the 32-bit
timestamps of X-Gorgon and X-Argus, the high nibble of `gorgon_byte7`), and
whether every digest behind it was `sound`. So two headers are equal in the
model when the code computes them from equal inputs.

Two pins are values a caller may give and the code does not take as they are: a
negative `argus_rand` and the low nibble of `gorgon_byte7`. Both are modelled as
the code treats them. `gorgon_byte3` and `gorgon_byte7` are kept only by version
8404, the only one that reads them.

`platform` is not part of `Signer`: it is passed through to one protobuf field,
where `Bean` has it, and influences nothing else.

### The other state machines

`UrlCodec` runs `quote_plus` and `unquote_plus` one loop iteration at a time
over arbitrary byte strings; `out` grows, `cap` is what was allocated.
`EncodeBuffer` keeps the memory cell by cell (`Junk` where nothing was written)
and one action per arm of the loop: `Grow` is a round of the inner `while`,
`AppendPair` the rest of the `for` body. `ParamTables` takes one token per
action and counts heap blocks. `CryptoRand` lets the kernel return anything
`read(2)` may: an error, nothing, or fewer bytes than asked for; asking
(`ReadBytes`) and acting on the answer (`CountBytes`) are steps of their own, so
that a loop that never advances would be seen as one.

`Bean` has one action for each of the two hashes, one for the list of twenty
fields and one for each field that `pb_serialize` writes. A text that does not
fit is counted and not copied (`Junk`); a varint is written without a look at
the capacity, and a write behind the buffer makes the call `undefined`. Words
are sets of bits, so that numbers have the 64, 32 and 7 bits they have in C.

`HeaderBytes` keeps the bytes the running loop reads (`buf`) and those it has
written (`out`), then the digits (`text`) and the size of their block (`cap`).
AES and MD5 belong to OpenSSL and are parameters: any permutation of padded texts
will do for AES, and MD5 is needed only on the texts that occur. The second half
of the module is the receiver, written from the standards and the ciphers'
algebra, not from the code. That the first half is the code's arithmetic and not
merely something invertible is checked on every run by `ASSUME`s with the values
of `tests/test_all.c` and `testdata/`: `SimonVector`, `ArgusVector`,
`LadonVector`, `HashVectors`, `BeanVector`.

`MiniJson` has a stack of the calls of `parse_object` and `parse_array` under
way, and the blocks on the heap by what they hold. Reading behind the end of the
text and freeing what is not allocated lead to `undefined`, malformed input to
`exit`. A number is kept as the characters that `atof` reads of those that
`parse_number` collects (`Atof`: the longest start that is a decimal, none for a
member without a value); the double follows from them, its rounding is left out.
`Client` puts `main` around it, with libcurl as the environment: `WriteCallback`
appends a piece, `Performed` ends the transfer, whole or not.

## 3. Runs

| Run | Question | Instance |
|---|---|---|
| `sign_inputs` | Which left-over counts are believed, and do the six headers agree on instant and body, for every combination of inputs? | one call; every combination of present, absent and stale list, url and raw body (486 requests), a version for each gorgon function and an unknown one, pinned and not; the clock may move; a digest may fail |
| `sign_failures` | What is left after failures, unknown versions and frees in any order, does each call name its own app and device, is a pinned call reproducible later in the process, and does the code keep its promise? | two calls, three requests, one of them with a stale count, three options: on the wall clock with an id and a device of its own and a negative pin, pinned without, and an unknown version; any allocation may fail; refinement `Implements` |
| `url_codec` | Quoting and unquoting | all texts of up to 4 of the 10 byte classes the code tells apart |
| `encode_buffer` | The doubling buffer | all lists of up to 3 pairs, texts empty, shorter and longer than a buffer that starts at 4 bytes; `Ends` under fairness |
| `param_tables` | What X-Argus reads back | all urls, lists and texts of up to 3 parameters from 9 kinds of token; tables that start with one entry |
| `header_bytes` | Does the receiver get back what was signed? | beans of 18 lengths in a row, hence every length modulo 16 and modulo 3; Ladon texts of 5 to 44 bytes, on both sides of 16 and 32; each gorgon version with and without each part, timestamps with bits above the 32 that are kept |
| `bean` | Is the bean complete, inside its buffer and readable; and are the numbers drawn before it all there, the file closed? | queries of the lengths at which SM3's padding turns (54-57, 62-65, 119, 120), numbers negative, zero and with the varint quirk, texts of 126 to 129 bytes, and an id that fills the 4096 bytes exactly, one less and one more; `LongLengths` checks the conversions of a length up to `MaxLen`; draws of 1, 4 and 9 bytes, the sizes in the code, up to three in a row, with every return value of `read` |
| `client` | Does the client tell the truth and clean up, whatever comes? | well-formed answers, three of them cut off after every character, numbers that `atof` reads in part, an empty body, HTML, and members without a value, which are no JSON and are taken for it; pieces of 16, 40 or all the bytes, a failure after any piece; buffers that start with 8 bytes and tables with 2 entries |

The remaining four runs expect a violation: each checks one sentence of the
repository's own text.

| Run | The text | What the code does |
|---|---|---|
| `claim_release` | signer.h:9-10, what an error leaves is "released with tt_signatures_free()" | `TT_SIGN_ERR_BAD_VERSION` returns without freeing the table of `params_from_url`, which no caller can reach |
| `claim_valid` | README.md:215, `TT_SIGN_OK` means all six strings are valid | a digest OpenSSL cannot compute becomes zeros and the code stays OK |
| `claim_empty` | signer.h:9, "On error the signature strings are NULL/empty"; README.md:207 | after `TT_SIGN_ERR_ALLOC` the strings that could be made are there |
| `claim_notjson` | Example.c:478, "Response body is not valid JSON; app status unknown." | never printed: such a body ends the process, or is called the server's error, or a success, as `{"message":"success","a":}` is |

Other places where text and code differ, visible in the definitions and given no
run of their own:

* with both lists given, X-Gorgon signs `payload`, which README.md:190 calls an
  alias "used when `data` is empty" (`PayloadList`);
* README.md:236 lets `argus_rand` "Pin Argus field 3", but a negative one is also
  the mark for one that is not given, and is drawn (`ArgusRand`); the low nibble of
  a pinned `gorgon_byte7` is dropped (`HighNibble`);
* README.md:73-74 lets `/dev/urandom` fall back to `rand()`, but a read that
  fails after a successful open leaves bytes unwritten (`FilledUnlessReadFails`
  says that nothing else does);
* mini_json.c:148 calls a string without its end unterminated, but one that breaks
  off inside `\u` is read behind its end (`StringCode`; `MemorySound` says that
  nothing else is);
* docs and code set no limit to the query's texts, but X-Argus has a buffer of 4096
  bytes, which longer ones outgrow (`Complete` says from which length);
* README.md:194 asks for counts of 0 beside NULL lists; two of the four lists do
  without (`StaleCounts`);
* most failed allocations end the process rather than the call (`OutOfMemory`);
* README.md:239 offers the `has_*` overrides "for deterministic, reproducible
  tests", but X-Argus still holds the device id this process drew unless the
  caller gives one (`InitDeviceId`);
* a text of exactly 128 bytes is announced as empty by the varint quirk, which
  docs/COMPATIBILITY.md:66-69 keeps on purpose; `BeanReads` leaves that length out
  (`TextsAnnounced`).

Each configuration names its module in `PROJECT.json`; for instance
`tlc -config sign_failures.cfg MCSigner.tla`, and `tlapm SignerProofs.tla` for a
module of proofs. The longest runs take about two minutes.

### Why the bounds are enough

* *Calls.* State passes from one call to the next only through the static device
  id and the heap. Two calls cover "first" and "later", with a device id of their own and
  without; `Repeatable` is proved for any number.
* *Clock.* One tick is enough to fall between any two statements, so a second
  reading of the clock would be seen. `Word = 4` makes the 32-bit fields wrap
  for timestamps that occur (5 and -3).
* *Lists.* The code tells a list apart by NULL, zero and non-zero count. Each
  occurs, with stale counts beside NULL and with more entries than the count.
* *Texts.* `quote_plus` and `unquote_plus` look at most two bytes ahead; four
  bytes hold an escape at the start, inside and cut off at the end.
* *Lengths.* Header bytes depend on a length only through its remainders modulo
  16, 64 and 3 and through the capacity of a buffer; each remainder at which a
  rule turns, and the capacity itself, occur.
* *Answers.* Every rule of the parser is used, at the depths 0 to 2, with tables
  and strings that double more than once. Of the bodies that are no JSON, some end
  the process and some are taken for an error or a success. The answers leave out
  surrogates and `\u0000`, of which C strings keep nothing. A text that breaks off
  inside `\u` leads out of its block: `MemorySound` shows that nothing else does.
* *Buffers and tables.* Initial sizes (256 bytes, 16 entries) are constants, set
  to 4 and 1 so that several doublings happen. The theorems hold for all sizes.

### Deadlock and fairness

`CHECK_DEADLOCK FALSE` everywhere: callers stop calling, and a process that ran
out of memory is gone. `Spec` of `Signer`, `UrlCodec`, `ParamTables`, `HeaderBytes` and
`Bean` has no fairness and no liveness is claimed for them. `EncodeBuffer` and
`ArgusDraw` assume weak fairness of the running function alone: it is sequential, never
waits for anyone, and every iteration is finite. In `ArgusDraw`, where `CryptoRand`
runs, starting a draw is not part of the fair action, and a `read` that returns
(short, zero or failing) is assumed to return; `/dev/urandom` does not block. `Client` assumes
weak fairness of `main`'s own steps and nothing of the transfer, for which the
code sets no timeout: `EndsOnceAnswered` starts where `curl_easy_perform` is back.

## 4. Proofs

Everything below is proved by TLAPS for every value of the constants, from the
named assumptions of the modules: the caller's lists really have `count` entries
when the pointer is not NULL, and any count when it is (`RequestAssumption`), ids, numbers and marks are
what `SignTypes` says they are, texts are C strings, sizes are positive; what is
signed has the types of `Job`; bodies are texts and pieces have a length
(`AnswerAssumption`, `PieceAssumption`), and a string is first given at least four
bytes, a table one entry (`JsonAssumption`); what `argus_get_sign` takes has the
types of `Call`, its buffer has at most 2^14 bytes and those of the messages at
least 17 (`CapAssumption`; 4096 and 64 in the code).

| Module | Theorem | Says |
|---|---|---|
| `SignerProofs` | `TypeCorrect` | `TypeOK`; in particular the device id is there whenever X-Argus takes it |
| | `CountsBelieved` | `StaleCounts`: a count left over beside NULL never reaches the encoder for parameters and cookies; for the body it does, no other arguments make a call crash, and no call with one is answered |
| | `HeapAccounted` | `Ownership`: between calls the heap holds exactly what callers hold, plus the url tables lost to unknown versions |
| | `StructsLive` | `NoDangling` |
| | `HeldThroughout` | `HeldInv`: the same account at every statement of a call |
| | `Control` | one call runs at a time, and `pc`, `cur` and `phase` agree |
| | `Inductive` | `IInv` is an invariant |
| | `ErrorHonest` | `ErrorTellsStrings`: all six strings after OK, none after `NULL_INPUT` and `BAD_VERSION`; after `ALLOC`, which is given only if something failed, X-Gorgon and X-Ladon and not all of the others |
| | `OneInstant` | `SameInstant`: all headers of an answer carry one instant, each in its width |
| | `OneApp` | `SameApp`: X-Argus and X-Ladon name the caller's app and licence, X-Argus its SDK version and device, or the defaults and the process's device |
| | `OneBody` | `SameBody`: X-Argus carries X-SS-STUB and signs X-Gorgon's query; which body the two others sign, for every request; one body for a caller that gave one list and no raw body |
| | `Repeatable` | `Reproducible`: equal pinned calls, equal answers |
| | `Refinement` | `Implements`: `Signer` implements `SignApi` |
| `UrlCodecProofs` | `CodecInBounds`, `CodecTypes` | no text overruns the buffers of `quote_plus` and `unquote_plus` |
| | `CodecUndone` | `RoundTrip`: unquoting gives back every text that was quoted |
| | `CodecSeparates` | `SeparatorFree` |
| `EncodeBufferProofs` | `EncodeInBounds`, `EncodeTypes` | no list overruns the buffer of `url_encode_params` |
| | `EncodeTakesApart` | `TakesApart`: the text splits into the pairs it was made of |
| `ParamTablesProofs` | `TablesTyped`, `TablesStoreInside`, `TablesFreed` | both parsers stay inside their tables and give everything back |
| | `UrlLast`, `QueryFirst` | which of several values of a key wins, in one parser and in the other |
| | `ArgusReadsBack` | `ReadsBack`: what X-Argus reads is what the caller gave |
| `BeanProofs` | `BeanComplete` | `Complete`: texts that leave 145 bytes free never make `pb_serialize` write behind `bean_buf`, and no text is left out of a bean that is returned |
| | `BeanIsRead` | `BeanReads`: a reader of standard protobuf finds the twenty fields, and those of the messages in two of them, though `pb_varint` cuts values to 32 bits and stops at 0x80 |
| | `HashesPadded` | `PadsWhole`: `sm3_hash` pads as the standard demands, up to 2^31 - 65 bytes, the length its `int` keeps |
| | `BeanInductive` | the invariant behind the first two |
| | `FilesClosed`, `DrawsFilled`, `RandTypes` | of `CryptoRand`: no descriptor stays open; a draw is complete unless a read failed |
| `HeaderBytesProofs` | `HeadersInBounds` | no loop of `argus_encrypt`, `ladon_encrypt` or `gorgon_v1/v2/v3` leaves its buffers, if AES and MD5 return bytes, MD5 sixteen (`Externals`) |
| | `GorgonUndone` | `GorgonOpens`: the mix of versions 2 and 3 can be undone, and X-Gorgon holds the bytes it was made of |
| | `ArgusUndone` | `ArgusOpens`: who has the key gets back the bean that was signed, if AES can be undone |
| | `LadonReadBack` | `LadonOpens`: the text can be read back at every length, although one of the two padding rules ignores it |
| | `SimonUndone`, `LadonUndone` | 72 rounds of Simon and 34 of Ladon can be taken back, under any round keys that are words |
| `ClientProofs` | `Memory` | `MemorySound`: whatever the server sends, in any pieces, no block of the JSON reader is outgrown, freed twice or left behind, and the only way out of the text is one that breaks off inside `\u` |
| | `Inductive` | `IInv` of `ClientInvariant` |
| | `TreeRead` | `TreeAsWritten`, if every answer with a value spells it (`AllSpelled`): `json_parse` builds the value that the text stands for, however it is nested and delivered |
| | `Honest` | `VerdictHonest` under the same hypothesis: success if and only if the message is; of a body that is no JSON either may be said |
| | `Answered`, `Followed` | the invariants behind these two: what is parsed is the whole answer, and it is parsed along its derivation |

*Argument for `Signer`: the heap.* `Ownership` speaks of the moments between
calls and is not inductive: in the middle of a call the heap holds strings no
struct points to. `SignerInvariant` says what holds at each statement, in layers
that rest on each other: `ControlInv` ties `pc` to `cur` and `phase`; `TypeInv`
adds that every variable has its type, that the lists of parameters and cookies are
readable once merged and those of the body unless the request has a stale count, and
that the device id is set where it is used; `LocalInv` says which locals still
have their initial value; `HeapInv` that a block is live exactly if a struct, the
running call at this `pc`, or a table already lost owns it. Together they are
`HeldInv`.

*Argument for `Signer`: the values.* `ValueInv` says that each local holds a
value that `SignApi` promises for the running call: the instant lies between the
call's beginning and now, the lists and texts are those of the request, each
header made so far is one of the `Promised` ones, or missing and the call faulty.
The answers already given stay `Acceptable` while later calls choose a device id,
because one that is chosen never changes. `IInv` is `HeldInv` and `ValueInv`. That
two headers agree, or two answers are equal, then follows without looking at any
step: a promised header is a function of request, options, instant and device id.

*Argument for the refinement.* Initial states map to initial states. `Tick`,
`Begin` and `Free` map to the actions of the same names; `InitDeviceId` to
`ChooseDevice` or a stutter; a failed digest or allocation to `Fail`; the returns
(`NullInput`, `BadVersion`, `Finish`) to `Return`, whose condition is the
`Acceptable` that `IInv` provides; every other statement is a stutter. The promise
is about whole answers: one instant for all headers, the same digest in X-Argus
and X-SS-STUB, and an error that tells what is there.

*Induction.* The prover cannot do induction over data, since the library's
induction theorems take a predicate as an argument. What needs it is proved by a
least counterexample: `LeastNatural` (every non-empty set of natural numbers has
a least element) follows from the well-foundedness of the naturals, and the wrong
cases form a set. In this way `QueryTextProofs` also proves what the recursive
function in `Unquoted` and the fold behind `FlattenSeq` compute (`UnquotedIs`,
`FlattenIs`).

*Argument for `UrlCodec`.* `Progress` bounds the output by the input read so
far: at most three bytes per byte quoted, at most one per byte unquoted. The
buffers are one byte longer. For `RoundTrip`, a *coding* of a text `g` by a text
`t` (`IsCoding`) is a function `p` from the positions of `g` to those of `t`
such that what stands between `p[k-1]` and `p[k]` is `QuotedByte(g[k])`.
`quote_plus` extends the coding by one byte per iteration; `unquote_plus` stands,
at every iteration, behind the code of some byte and has put out the bytes up to
there (`Undone`). That no byte of a code is mistaken for the beginning of
another is `UnquotedBack`.

*Argument for `EncodeBuffer`.* `RoomInv`: nothing was written beyond `pos`,
and `pos < cap`. `need` counts both texts and two bytes, a pair adds at most both
texts and two bytes (`JoinedIs`), and the comparison is strict, which leaves the
last byte for the terminator. For `TakesApart`, `TextInv` says that what stands
in the buffer is a *join* of the pairs appended so far (`Joins`: where each token
ends), whatever bytes `Written` left behind them; `JoinTakenApart` says that the
tokens of a join are what was joined, `PairToken` that the first `=` of a token
is the one between key and value.

*Argument for `ParamTables`.* `TableInv` counts the blocks for each `pc`: a
table has at most `cap` entries and one block if it has room for any, and each
entry has two; a parser's copy is one more while it runs. `ContentInv` says what
the tables hold after `k` tokens: the first, or the last, value of each key among
the first `k` pairs of the text. That the text, taken apart and decoded, is
the list that was encoded is the lemma `EncodedTextIs`, from the coding and the
join; `ReadsBack` is it and `QueryInv` together.

*Argument for `CryptoRand`.* A descriptor is open exactly in the reading part,
and while it is, the bytes written are the bytes counted.

*Argument for `Bean`.* The reader is described by what it needs, not by how it
looks for it. `IsVarint(s, n, value)` says that `s` is at most `n` bytes, all but
the last of them marked, whose sevens of bits make up `value`; `VarintRead` that
the bytes of `pb_varint`, for any value, are a varint of what `Received` says: the
low 32 bits, less the highest one if a shift by some sevens leaves 0x80. The
recursion in `Varint` is followed through its five levels, a value of 32 bits
having no more. Keys and lengths are numbers, and what is read of them is that
number again: `Number` adds up powers of two, and `n % 2^(i+1)` is `n % 2^i` and
bit `i` (`ModStep`). So a field that stands anywhere in a text is read from there
as it was written, and ends where the writer stopped (`FieldRead`), unless its
length is one that the quirk hits; fields that stand one behind the other are read
in their order (`WrittenReads`, with `Written` for what stands there and `Follow`
for how it is read).

The invariant says that the fields serialized so far stand in the buffer one behind
the other (`Written`), and that the bytes they take are at most the share `Spent`
allows them: each field has a share for key, length and number, by the widths of
its constants, and 145 is the sum. A text below 2^14 bytes has a length of two
bytes, which is all that `CapAssumption` is for. No field is left out since the
text that does not fit is counted: either the buffer overflows, and the call is
`undefined`, or every text was copied. The two messages are always the same bytes
(`Whole15`, `Whole23`). `PadsWhole` is arithmetic modulo 64 (`ZerosAre`), and that
the least number of zeros is unique (`OneFilling`). The length behind the zeros is
written by the code from a 64-bit word and by the standard from a number: octet by
octet they are the same (`LengthIs`). Up to `MaxLen` the cast to `int` changes
nothing (`Int32Keeps`); that bound is part of the property, since beyond it the code
copies the text past its block.

*Argument for `HeaderBytes`.* `InBounds` is not inductive: that a block is there
follows only if what was encrypted so far and what there is to encrypt are whole
blocks. `Stages` says so for each `pc`; for Ladon also that the size by the one
padding rule is at most the length by the other (`PadLenIs`), for base64 that
the groups of digits written are those of the bytes read, for Gorgon that there
are twenty bytes.

That the headers can be undone is said twice: of each layer, and of the loops that
apply them. *The layers.* A round of Simon or Ladon has an opposite; that `n`
rounds one after the other are undone by the opposites in reverse order is
`RoundsUndone`, about any recursive function of the shape `Forth` or `Back`
(`ForthExists`, `BackExists` say that there is one). For Ladon a subtraction
undoes an addition modulo 2^64 (`SubOfAdd`): the carries of the two are the same
(`CarryNext`). The last byte of a padded text tells its padding (`Pkcs7Undone`);
a text that ends in a digit is not mistaken for a padded one (`DigitIsNone`),
which is why `DataStr` says so of what `ladon_encrypt` prints. *The loops.*
`BlockStages` says that `n` blocks of output are the first `n` blocks of input
under the cipher (`Ciphered`), that the bytes for base64 are those blocks in
their envelope (`Carries`), and that the digits written are those of the first
groups (`Coded64`); each block or group more keeps it (`CipheredMore`,
`CodedMore`), and at the end it says that the text is the whole (`CipheredOpens`,
`CodedOpens`). `GorgonStages` says which of the twenty bytes are mixed, and
`MixedTo` what a byte became from itself and its neighbour; from the last byte to
the first, each is got back. `ArgusUndone` and `GorgonUndone` are about any AES
and any MD5: AES must have an inverse on texts, a hypothesis of the theorem, and
`Externals` says that both return bytes.

*Argument for `Client`.* That strings and tables have room is inductive with
little more (`CursorInv`, `FramesInv`): a block is doubled before it is full, and
a value takes one entry of a table, an escape at most three bytes of a string. That
`json_free` frees each block once and leaves none is about the whole tree. The
values are numbered in the order in which they begin, so a value and all
those in it have consecutive numbers: `Shape` says so of the complete ones by a
function `e`, the first number behind each, and `Nested` that each call under way
is for the next value of the call around it. `HeapInv` adds that what is allocated
is, value by value, what `BlocksOf` says, the tables being filled and a key being
read. When `json_parse` returns, the first value reaches to the end
(`FreeFirst`). From then on, the entries of `todo` share out what is allocated
(`Splits`): an unmarked value is for its blocks and those of all values in it, a
marked one for its own. `PartsSplit` says that `Parts` replaces the first by entries
for the same blocks, because the values in a value leave no gap and do not overlap
(`WholeTiled`); so each block is there when its turn comes (`FreeFree`), and
nothing is allocated when `todo` is empty.

*Argument for `TreeAsWritten` and `VerdictHonest`.* In an instance an answer's
value is tied to its body because the two are written side by side. In general
`JsonGrammar` ties them: `Derives(t, d)` says that `d` names, for each value of a
tree, where in the text `t` it begins and ends, where its separators, keys and
colons stand and what its strings mean character by character; `Spelled(t, value)`
that there is such a `d` for `value`, whatever stands behind it. The grammar is
stated by offsets and does not recur, so no induction over its depth is needed.
`Follows(d)` relates the parser to `d` at every step: what is complete is as in
`d`, what is open is the beginning of what is there (`Grown`), each call under way
is for the next value of the call around it (`Chained`), and `pos` is the place
that `d` gives to what is read next (`Placed`). `ParseFollows` shows for each action
of `MiniJson` that it takes the parser to the next place, and never to `exit` or
`undefined`; what `skip_ws` and the loop of `parse_number` find is unique
(`OneFirst`). At `done`, the tree is that of `d`. That `Tree` computes the tree
(`TreeStep`) is a least counterexample over how many of the last values it is
right for. For the verdict, `MessageIs` says that `json_get` and the test of the
type find what the server means: only a string can spell "success"
(`OnlyStrings`), a number or an empty table cannot. `SaidInv` then follows `main`
to its end.

The hypothesis `AllSpelled` can be met: `MCClient` holds a reader that finds the
derivation of every answer of its instance, and TLC checks that it is one
(`AnswersSpelled`). It says nothing of bodies that are no JSON. Of those
`VerdictHonest` claims only what is true: the process ends on nothing else (`exited`
implies `NotJson`), and of one that the parser takes, such as an object with an empty
number in it, it allows both verdicts (`ToBeSaid`).

### Only model-checked

* `Ends`, `DrawEnds` and `EndsOnceAnswered`: liveness under fairness is outside
  what this prover does.
* That the values of the tests come out of the ciphers and hashes as modelled, by
  evaluation of the `ASSUME`s; and the claims of the violation runs, by their traces.

## 5. Not modelled

The inside of MD5 and AES, which OpenSSL computes. In `Signer`, digests are
modelled by what they digest and whether they succeeded. Failures of `fprintf`
and of the AES calls in `argus_encrypt` are not modelled; the latter are
unchecked in the code. Of the example: the parameters, headers and url it sends
and the helpers that make their texts (`xor_encode`, `hex_uuid4`,
`rand_int64_range`, the fixed buffers for url and headers), and, as in
`mini_json.c`, allocations that fail, which are not looked at. Of `\u`, the signs,
spaces and `0x` that `strtol` would take besides digits. `tests/`, `testdata/`,
build files and documentation are not modelled.

## 6. Plan

Done, in this order: `SignTypes`, `Signer`, `SignApi` (the core and its
promise), `QueryText`, `UrlCodec`, `EncodeBuffer`, `ParamTables`, `CryptoRand`;
proofs for `Signer`, `UrlCodec`, `EncodeBuffer`, `CryptoRand`; then `Words` with
the ciphers and `HeaderBytes`, `Protobuf` and `Bean`, `MiniJson` and `Client`;
proofs for `HeaderBytes`.

After that, the values, the refinement and `Reproducible` of `Signer`, what
`QueryText` computes, `RoundTrip`, `TakesApart`, and everything about
`ParamTables`; then that each of the three headers can be undone, and the memory of
`Client`; then everything about `Bean`; last, that `MiniJson` reads what is written
and that `Client` says so.

Left, by importance:

1. `xor_encode` and the fixed buffers of the example's headers.
2. What the parser makes of a text that is no JSON: which it takes, and as what.
