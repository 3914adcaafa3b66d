# TLA+ models of the CLP IR stream decoder

This directory models `src/components/core/src/ffi/ir_stream/decoding_methods.cpp`,
the decoder for CLP's intermediate representation (IR) log streams. The models
are checked with TLC. `spec.md` at the repository root describes the format.

## 1. The system

### Parts

| Part | Code | What it does |
|---|---|---|
| Integer decoding | `decode_int` (155-174) | Reads 1, 2, 4 or 8 bytes through `try_read_numeric_value`, then byte-swaps them into the big-endian value. |
| Tag classification | `is_variable_tag` (127-153) | Decides whether a tag starts a dictionary variable, an encoded variable of the stream's variant, or neither. |
| Field parsers | `parse_logtype` (176-205), `parse_dictionary_var` (207-239), `parse_timestamp` (241-280) | Read a uint8, uint16 or int32 length and then that many bytes. A timestamp is an int64 in the eight-byte variant and a signed 1, 2 or 4 byte delta in the four-byte variant. |
| Message decoder | `generic_decode_next_message` (282-343), `four_byte_encoding::` and `eight_byte_encoding::decode_next_message` (557-580) | Reads a tag and checks for Eof, loops over variables, then reads the logtype, the timestamp tag, the timestamp, and renders. |
| Renderer | `decode_message` (377-492) | Walks the logtype. Placeholders take the next encoded or dictionary variable; an escape makes the next byte literal. Running out of variables, or an escape as the last byte, throws `EncodingException`, which the decoder reports as `DecodeError`. |
| Preamble | `get_encoding_type` (494-514), `read_metadata_info` (345-375), `decode_preamble` seek form (516-532) and copy form (534-555) | Reads the magic number that selects the variant, then the metadata type, length tag and size. The seek form seeks past the blob; the copy form copies it. |
| Byte reader | `ReaderInterface` (not in `src/`) | Exact reads that fail when the reader is short of bytes, and seeks. |
| Formatters | `decode_integer_var`, `decode_float_var` (not in `src/`) | Turn an encoded variable into text. |
| Encoder / producer | not in `src/` | Writes streams in the format of spec.md §3 and §6.3. |

### How they interact

A caller works through the stream in this order:

1. It calls `get_encoding_type` once.
2. It calls one of the two `decode_preamble` forms once.
3. It calls the `decode_next_message` of the stream's variant until the result is not Success.

Every call returns an `IRErrorCode`. On Incomplete the reader may have stopped partway through a field. A caller that streams bytes in must seek back to where the call started and try again once more bytes have arrived. In the four-byte variant, the caller adds each returned timestamp delta to the previous timestamp.

The decoder is single-threaded per stream and synchronous (spec.md §5). What makes it hard is therefore not thread interleaving. It is:

- how a stream is split across calls that return Incomplete;
- what a damaged or adversarial byte turns into;
- the index arithmetic of the renderer;
- integer widths, signedness and byte order.

### State, operations and properties per part

- **Decoder functions.** They keep no state between calls; the only state is the reader's position. Each function is a TLA+ operator from a reader `(d, p)` to a result `[code, pos, val]`. Properties:
  - a round trip: what a correct encoder wrote decodes back exactly;
  - one frame is consumed per call;
  - failures happen only on damaged bytes;
  - agreement with the spec's classification of errors.
- **Renderer.** A pure function. It is checked against an independent grammar reading of spec.md §4.6, over every small input.
- **Caller and stream.** The state is:
  - the bytes delivered so far, and whether the stream is closed;
  - the reader position and the caller's phase;
  - the variant, metadata and messages decoded so far.

  Properties: the safety properties above, and a refinement of `IRStreamAbstract`. Under the refinement the caller eventually decodes every message, once each and in order.

## 2. Modules

| Module | Models |
|---|---|
| `IRDecoding` | Every function of `decoding_methods.cpp`, as operators. Results use the code's names: "Success", "Incomplete", "Corrupted", "Eof", "DecodeError". `Then(r, K)` is the code's `if (error) return error;`. `TryRead` models the reader's exact read. `RenderFrom` is the `for` loop of `decode_message`: `cur` and `sbeg` are `cur_pos` and `next_static_text_begin_pos`. A negative int32 length stays negative, so `TryRead` fails and the result is Incomplete, as the size_t conversion makes it in the code. |
| `IREncoder` | Modelled from the spec, because the encoder is not in `src/`. For a small log it produces every legal encoding, covering every length width and every timestamp-delta width that fits the value (spec.md §9 leaves the choice to the encoder). Literal placeholder bytes and escape bytes are escaped. |
| `IRStream` | The caller and the byte channel, composed with `IRDecoding` and `IREncoder`. |
| `IRStreamAbstract` | What the API promises a caller of an undamaged stream (spec.md §4.4, §4.5, §5). The header is learnt once. The messages then come out in wire order, each once. Eof follows the last one. |
| `IRFieldChecks` | A harness in which one behaviour is one call, to `decode_int`, `decode_message`, `parse_dictionary_var`, `parse_logtype`, `get_encoding_type`, either form of `decode_preamble`, or either variant's `decode_next_message`, on any small input. It holds reference definitions taken from spec.md §4.3, §4.4, §4.6 and §8. It extends `IREncoder` to produce the frames. |
| `MCIRStream`, `MCIRFieldChecks` | The constants of the models: byte-tuple magic numbers, the logs and the dictionary strings. |

### IRStream in detail

**Variables:**
- `wire`: the stream as the reader will receive it;
- `written`: what the producer wrote, for checking;
- `avail`, `closed`: how many bytes have been delivered, and whether the stream is closed;
- `damagedAt`: the damaged byte, if any;
- `pos`, `phase`, `variant`, `metadata`, `out`: the caller's state.

**Actions:**
- `Deliver` hands the reader one more byte.
- `Close` ends the stream once everything has been delivered.
- `Damage` changes one byte that has not yet been delivered. It is enabled only in the faults run.
- `CallGetEncodingType`, `CallDecodePreambleSeek`, `CallDecodePreambleCopy` and `CallDecodeNextMessage` each run one whole API call on the delivered bytes, followed by the caller's reaction, `Settle`:
  - on Success, it records the result;
  - on Incomplete while the stream is open, it rewinds and waits;
  - otherwise, it stops in `done`, `truncated`, `corrupted` or `decode_error`, with the reader where the failing call left it.

## 3. Runs

| Run | cfg | Expect | Properties |
|---|---|---|---|
| stream_roundtrip | `MCIRStream.cfg` | pass | TypeOK, DecodedAsWritten, ConsumesOneFrame, RefinesAbstract |
| stream_faults | `MCIRStreamFaults.cfg` | pass | FailsOnlyOnDamage |
| field_render | `MCIRFieldChecks.cfg` | pass | TypeOK, RenderMatchesSpec, HeaderMatchesSpec, DecodeIntMatchesSpec, FrameVariantChecked |
| surplus_variables | `MCIRFieldChecksSurplus.cfg` | violation | RejectsSurplusVariables |
| negative_length | `MCIRFieldChecksNegativeLength.cfg` | violation | LengthParseMatchesSpec |

### What each property says

- **DecodedAsWritten.** Whatever the caller decoded from intact bytes equals what the producer wrote. This covers the variant, the metadata, and every message and absolute timestamp. It must hold however the bytes were split into Incomplete retries. It covers byte order, signedness, the four-byte delta arithmetic, the pairing of variables to placeholders, the order of two encoded variables within `encoded_vars`, and escaping.
- **ConsumesOneFrame** (action property). A successful `decode_next_message` on an intact frame moves the reader to exactly the end of that frame. On Eof it moves the reader to exactly past the Eof tag. A width mix-up that still yields a plausible value breaks it.
- **RefinesAbstract** (refinement, with liveness). With nothing damaged, `IRStream` implements `IRStreamAbstract`. The caller learns the header the stream was written with, receives every message exactly once, in wire order and as written, and eventually gets Eof after the last one. Splitting the bytes into Incomplete retries changes none of this. The abstract spec's weak fairness makes the "eventually" part of the claim.
- **FailsOnlyOnDamage.** Corrupted, DecodeError and truncated are reported only for a damaged stream, and only once the reader has consumed the damaged byte.
- **RenderMatchesSpec.** `decode_message` gives the same result as the token grammar of spec.md §4.6 on every input.
- **HeaderMatchesSpec.** `get_encoding_type` returns a variant exactly when the first four bytes are its magic number, and is Incomplete or Corrupted as spec.md §4.4 and §8 (magic-number determinism) say otherwise. The two magic numbers differ only in their last byte. Both `decode_preamble` forms read the metadata type, the uint8 or uint16 length and the blob as §4.4 lays them out. The seek form's position and size name exactly the bytes the copy form returns, and both leave the reader just past the blob.
- **DecodeIntMatchesSpec.** `decode_int`, for each integer type it is instantiated with, reads every field as the big-endian sum of spec.md §8. For a signed type with the top bit set, the reference is the two's complement, written as -1 minus the sum over the complemented bytes. This is a different formula from the model's Horner rule with a signed first byte. The check also requires the read to consume exactly the field's width.
- **FrameVariantChecked.** Each variant's `decode_next_message` decodes a frame written for that variant to its text and timestamp. A frame written for the other variant is rejected as Corrupted, never read as a plausible message with the wrong widths. In a frame with no encoded variable, the two variants differ only at the timestamp tag.
- **RejectsSurplusVariables** and **LengthParseMatchesSpec.** Statements from the spec that the code does not satisfy. They are the findings below.

### Findings

1. **Negative lengths.** `parse_dictionary_var` (line 228) and `parse_logtype` (line 196) assign an int32 length to a `size_t`. A negative length therefore becomes an impossible read, which is reported as **Incomplete**. spec.md §4.3, §7 and §9 say it is **Corrupted**. TLC's counterexample is the tag `VarStrLenInt` followed by the bytes `255 0 0 0`. A caller that retries on Incomplete waits for bytes that can never complete the frame.
2. **Surplus variables.** `decode_message` throws only when it runs out of variables. A frame with more variables than placeholders decodes successfully and the extra variables are dropped. spec.md §4.6 calls this a decode error unless the protocol version tolerates it; §9 notes the gap. TLC's counterexample is an empty logtype with one encoded variable.

### Mutants

Each property of the passing runs is broken by a plausible code bug. The bug is defined in `IRDecoding` just before the operator it replaces.

| Property (run) | Bug |
|---|---|
| TypeOK (roundtrip) | Seek form without the end-of-data check |
| DecodedAsWritten | Encoded variables inserted at the front of `encoded_vars` |
| ConsumesOneFrame | 4-byte delta read as 2 bytes |
| RefinesAbstract | No Eof check |
| FailsOnlyOnDamage | int32 length form missing |
| TypeOK (field_render) | Reader not rejecting a negative count |
| RenderMatchesSpec | Trailing-escape test off by one |
| HeaderMatchesSpec | uint16 metadata size read as a uint8 |
| DecodeIntMatchesSpec | No bswap |
| FrameVariantChecked | Absolute timestamp tag accepted by the four-byte variant too |

## 4. Bounds, and why they are enough

**stream_roundtrip** (273,996 states, about 60 s):
- Both variants, one metadata type, one 2-byte blob.
- Three events:
  - "A", an integer variable (-1), a literal placeholder byte that must be escaped, and a second integer variable (2), at ts 300. The two variables of one kind make a reordering within `encoded_vars` visible;
  - a dictionary variable containing a placeholder byte, a literal escape character, and a float variable, at ts 299;
  - an empty message at ts 70299. Its logtype has length 0, so its ubyte length byte equals Eof, it has no variables, and its delta of 70000 only fits the int32 delta form.
- Every legal framing of these is enumerated:
  - all three length widths for both logtypes and the dictionary string, and both metadata length widths;
  - all three delta widths where they fit, including a negative delta of -1.
- The bytes contain 0, which is Eof, and they are delivered one at a time. Every prefix is therefore tried as an Incomplete retry.

**stream_faults** (697,495 states, about 20 s):
- The second event only, in both variants.
- Damage of any one byte to 0 (Eof), 19 (a placeholder and `VarStrLenInt`), 35 (`LogtypeStrLenInt`) or 200.
- Every failure phase is reached.
- The run checks only FailsOnlyOnDamage. A check of what was decoded would have to ignore every frame at or after the damaged byte, so it would repeat stream_roundtrip on a smaller log. A damaged byte that turns one valid frame into another valid one decodes to a plausible wrong message. The IR format has no checksum, so the decoder cannot detect this and no property demands otherwise.
- A damaged int64 field can hold a value beyond TLC's 32-bit integers. `IRDecoding` reads any such value as the single value `OutOfRange` (the least int32). Intact fields never hold one, so every comparison the properties make is unaffected.

**field_render** (64,649 states):
- Logtypes of up to 4 bytes over {A, three placeholders, escape}. This is enough for an escaped placeholder, an escaped escape, a trailing escape, and adjacent placeholders.
- Up to 2 encoded variables from {3, 4} and up to 2 dictionary variables from {"B", "CD"}, so order errors are visible.
- Length fields over {0, 1, 65, 255} of up to 5 bytes after each of the three dictionary-variable tags and the three logtype tags. Each parser is called with its own tags and the other parser's, so the Corrupted branch is exercised too. This gives short, exact, long and negative lengths.
- Every prefix of up to 4 bytes over the bytes of the two magic numbers, for `get_encoding_type`. This includes each magic, each magic's first three bytes, and the other variant's last byte after either prefix.
- Every preamble of up to 5 bytes over {0, 1, 2, 17, 18}, for both `decode_preamble` forms. The length tags are 17 (uint8) and 18 (uint16), and any other byte is an unknown tag. The sizes 0, 1 and 2 fit, 17 and 18 do not, and a uint16 size of 1 (`0 1`) tells the two widths apart.
- `decode_int` on every 1-, 2- and 4-byte pattern over {0, 1, 127, 128, 255}, for each of uint8, int8, uint16, int16 and int32. For int64, it is called on the 8-byte patterns whose high half is the sign extension of the low half (low half over the same bytes), because only those values fit TLC's 32-bit integers. 127 and 128 are the sign boundary, 255 is all ones and 0 and 1 are the small values.
- `decode_next_message` of both variants on every framing of two events written for either variant. One event is a dictionary variable followed by 'A'; the other is an integer variable of -1. Both are at timestamp 5, which fits every delta width.

**Deadlock.** Deadlock checking is off only where the system really stops. The stream caller stops after Eof or an error, and each behaviour of the harness is a single call.

## 5. Fairness

`Deliver` and `Close` are weakly fair. This stands for a producer that eventually finishes writing its stream.

The caller's three call actions are weakly fair. The caller's loop has no other exit: it calls again until it gets a result it stops on. The decoder never blocks (spec.md §5), so once a call is enabled it stays enabled until it is taken.

`Damage` has no fairness. Damage may or may not happen.

## 6. Not modelled, and why

- **Text formatting.** The formatter's output, and the wording of exception messages. Each rendered variable is one symbol per value: `RenderedIntegerBase + x` or `RenderedFloatBase + x`.
- **Int64 values beyond 32 bits.** Values outside TLC's integers are collapsed into `OutOfRange` (see §4). Their exact value only matters to the formatters, which are not modelled.
- **Lines 1-126 of `decoding_methods.cpp`.** These are includes, forward declarations and their comments. They carry no behaviour of their own. The functions they declare are modelled at their definitions.
- **int64 fields outside the sign-extended 32-bit range in `DecodeIntMatchesSpec`.** The spec's sum for such a field does not fit TLC's integers, so the check cannot compute the reference. The stream runs still reach these fields through damage, as `OutOfRange`.
- **Reader position after a failed read.** The model keeps the start position. Only the caller's rewind depends on it, and spec.md §9 leaves it implementation-defined.

## 7. Plan for the rest of the project

Done so far:
- the abstract spec `IRStreamAbstract`, with its refinement checked in stream_roundtrip;
- the eight-byte variant under damage;
- `parse_logtype` in the field harness;
- `get_encoding_type` and both `decode_preamble` forms in the field harness, against spec.md §4.4 and §8;
- an empty message and an int32-only delta in stream_roundtrip;
- `decode_int` against spec.md §8 over the sign boundaries, and each variant's decoder on the other variant's frames.

Remaining:
1. A stream-level run for the negative-length finding. It would have to tell a frame that can never complete apart from one whose large, legitimate length is still arriving. With the spec's lengths these two cases look the same to a streaming caller, which is why the finding is checked at field level only.
