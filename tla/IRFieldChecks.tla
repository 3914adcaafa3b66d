---------------------------- MODULE IRFieldChecks ----------------------------
(***************************************************************************)
(* The field-level routines of decoding_methods.cpp called one at a time   *)
(* on every small input: decode_message on every logtype over a small      *)
(* alphabet with short variable lists, the length-prefixed parsers         *)
(* (parse_dictionary_var, parse_logtype) on every short byte string, and   *)
(* the header routines (get_encoding_type, both forms of decode_preamble)  *)
(* on every short prefix of a stream, and decode_int on boundary patterns  *)
(* of every width it is instantiated with.  decode_next_message of each   *)
(* variant is given every frame of a few events written for either one.   *)
(* A behaviour is one call: the state is the call and its result.          *)
(* Their outcomes are compared with the rules of spec.md sections 4.3 and  *)
(* 4.4, 4.6 and 8, written here as independent reference definitions.                 *)
(***************************************************************************)
EXTENDS IREncoder

CONSTANTS
    LogtypeBytes,     \* bytes a logtype may hold
    MaxLogtypeLength, \* longest logtype tried
    EncodedValues,    \* values an encoded variable may have
    DictValues,       \* strings a dictionary variable may hold
    MaxVars,          \* longest variable list tried
    FieldBytes,       \* bytes a length-prefixed field may hold
    MaxFieldLength,   \* longest byte string tried after the tag
    FieldTags,        \* tags tried in front of it
    MagicBytes,       \* bytes a stream's first MagicNumberLength bytes may hold
    PreambleBytes,    \* bytes the preamble after the magic number may hold
    MaxPreambleLength, \* longest preamble tried
    IntBytes,          \* bytes an integer field may hold
    FrameEvents        \* events whose frames are decoded (IREncoder's form)

VARIABLES
    call,    \* the routine called last and its input
    result   \* what it returned

vars == <<call, result>>

SeqsUpTo(S, n) == UNION {[1..k -> S] : k \in 0..n}

Init ==
    /\ call = [op |-> "none"]
    /\ result = [ok |-> TRUE, msg |-> <<>>]

(* decode_message(logtype, encoded_vars, dictionary_vars).                *)
CallDecodeMessage ==
    /\ call.op = "none"
    /\ \E lt \in SeqsUpTo(LogtypeBytes, MaxLogtypeLength),
          E \in SeqsUpTo(EncodedValues, MaxVars),
          D \in SeqsUpTo(DictValues, MaxVars) :
           /\ call' = [op |-> "decode_message", lt |-> lt, ev |-> E, dv |-> D]
           /\ result' = DecodeMessage(lt, E, D)

(* parse_dictionary_var(reader, tag, dict_var) on a reader holding d.     *)
CallParseDictionaryVar ==
    /\ call.op = "none"
    /\ \E d \in SeqsUpTo(FieldBytes, MaxFieldLength), tag \in FieldTags :
           /\ call' = [op |-> "parse_dictionary_var", d |-> d, tag |-> tag]
           /\ result' = ParseDictionaryVar(d, 0, tag)

(* parse_logtype(reader, tag, logtype) on a reader holding d.             *)
CallParseLogtype ==
    /\ call.op = "none"
    /\ \E d \in SeqsUpTo(FieldBytes, MaxFieldLength), tag \in FieldTags :
           /\ call' = [op |-> "parse_logtype", d |-> d, tag |-> tag]
           /\ result' = ParseLogtype(d, 0, tag)

(* get_encoding_type(reader, is_four_bytes_encoding) on a reader holding d. *)
CallGetEncodingType ==
    /\ call.op = "none"
    /\ \E d \in SeqsUpTo(MagicBytes, MagicNumberLength) :
           /\ call' = [op |-> "get_encoding_type", d |-> d]
           /\ result' = GetEncodingType(d, 0)

(* decode_preamble(reader, metadata_type, metadata_pos, metadata_size).    *)
CallDecodePreambleSeek ==
    /\ call.op = "none"
    /\ \E d \in SeqsUpTo(PreambleBytes, MaxPreambleLength) :
           /\ call' = [op |-> "decode_preamble_seek", d |-> d]
           /\ result' = DecodePreambleSeek(d, 0)

(* decode_preamble(reader, metadata_type, metadata).                       *)
CallDecodePreambleCopy ==
    /\ call.op = "none"
    /\ \E d \in SeqsUpTo(PreambleBytes, MaxPreambleLength) :
           /\ call' = [op |-> "decode_preamble_copy", d |-> d]
           /\ result' = DecodePreambleCopy(d, 0)

(* The integer types decoding_methods.cpp instantiates decode_int with.    *)
IntTypes == {UInt8, UInt16, Int8, Int16, Int32, Int64}

(* The w-byte fields tried: every pattern over IntBytes, and for int64     *)
(* those whose value TLC's integers hold (the high half a sign extension   *)
(* of the low half), so that the reference sum can be computed.           *)
IntPatterns(w) ==
    IF w < 8 THEN [1..w -> IntBytes]
    ELSE UNION {{h \o l : l \in {x \in [1..4 -> IntBytes] : (h[1] = 255) = (x[1] >= 128)}} :
                  h \in {[i \in 1..4 |-> 0], [i \in 1..4 |-> 255]}}

(* decode_int(reader, value) with value of type ty, on a reader holding d. *)
CallDecodeInt ==
    /\ call.op = "none"
    /\ \E ty \in IntTypes :
         \E d \in IntPatterns(ty.w) :
           /\ call' = [op |-> "decode_int", d |-> d, ty |-> ty]
           /\ result' = DecodeInt(d, 0, ty)

(* four_byte_encoding:: or eight_byte_encoding::decode_next_message (the    *)
(* variant v) on a reader holding one frame of event e written for the     *)
(* variant w, its delta taken from timestamp 0.                           *)
CallDecodeNextMessage ==
    /\ call.op = "none"
    /\ \E v, w \in Variants, e \in FrameEvents :
         \E f \in EventFrames(e, 0, w) :
           /\ call' = [op |-> "decode_next_message", v |-> v, written |-> w, e |-> e, d |-> f]
           /\ result' = GenericDecodeNextMessage(f, 0, v)

Next == \/ CallDecodeNextMessage \/ CallDecodeInt \/ CallDecodeMessage \/ CallParseDictionaryVar \/ CallParseLogtype
        \/ CallGetEncodingType \/ CallDecodePreambleSeek \/ CallDecodePreambleCopy

Spec == Init /\ [][Next]_vars

-----------------------------------------------------------------------------
(* Reference definitions from the spec.                                    *)

(* spec.md 4.6 read as a grammar: a logtype is a sequence of tokens, each  *)
(* an escaped byte (escape then any byte, standing for that byte), a       *)
(* placeholder taking the next variable of its kind, or a literal byte.    *)
(* An escape with nothing after it, or a placeholder whose list is used    *)
(* up, is a decode error; surplus variables are tolerated here.            *)
RECURSIVE SpecRender(_, _, _)
SpecRender(lt, E, D) ==
    IF lt = <<>> THEN [ok |-> TRUE, msg |-> <<>>]
    ELSE LET c == Head(lt)
             Prefix(s, rest) == IF rest.ok THEN [ok |-> TRUE, msg |-> s \o rest.msg]
                                           ELSE rest
         IN  CASE c = EscapeCharacter ->
                     IF Len(lt) = 1 THEN [ok |-> FALSE]
                     ELSE Prefix(<<lt[2]>>, SpecRender(Tail(Tail(lt)), E, D))
               [] c \in {PlaceholderFloat, PlaceholderInteger} ->
                     IF E = <<>> THEN [ok |-> FALSE]
                     ELSE Prefix(IF c = PlaceholderFloat THEN DecodeFloatVar(Head(E))
                                                         ELSE DecodeIntegerVar(Head(E)),
                                 SpecRender(Tail(lt), Tail(E), D))
               [] c = PlaceholderDictionary ->
                     IF D = <<>> THEN [ok |-> FALSE]
                     ELSE Prefix(Head(D), SpecRender(Tail(lt), E, Tail(D)))
               [] OTHER -> Prefix(<<c>>, SpecRender(Tail(lt), E, D))

(* The number of placeholders of the kinds in K, escaped bytes excluded.   *)
RECURSIVE PlaceholderCount(_, _)
PlaceholderCount(lt, K) ==
    IF lt = <<>> THEN 0
    ELSE IF Head(lt) = EscapeCharacter
         THEN IF Len(lt) = 1 THEN 0 ELSE PlaceholderCount(Tail(Tail(lt)), K)
         ELSE (IF Head(lt) \in K THEN 1 ELSE 0) + PlaceholderCount(Tail(lt), K)

(* spec.md 4.3: a length in the width its tag declares (ubyte, ushort or   *)
(* int tag), a negative signed 32-bit length being corrupt, then that many *)
(* bytes.                                                                  *)
SpecParseLengthPrefixed(d, tag, ubyteTag, ushortTag, intTag) ==
    LET w == CASE tag = ubyteTag  -> 1
               [] tag = ushortTag -> 2
               [] tag = intTag    -> 4
               [] OTHER           -> 0
        n == IF Len(d) >= w /\ w > 0 THEN BigEndianValue(SubSeq(d, 1, w), w = 4) ELSE 0
    IN  CASE w = 0          -> "Corrupted"
          [] Len(d) < w     -> "Incomplete"
          [] n < 0          -> "Corrupted"
          [] Len(d) < w + n -> "Incomplete"
          [] OTHER          -> "Success"

(* spec.md 4.4 and 8 (magic-number determinism): N bytes are needed; the  *)
(* variant whose magic they equal, or a corrupt stream if neither.         *)
SpecEncodingType(d) ==
    CASE Len(d) < MagicNumberLength           -> "Incomplete"
      [] d = FourByteEncodingMagicNumber      -> "four"
      [] d = EightByteEncodingMagicNumber     -> "eight"
      [] OTHER                                -> "Corrupted"

(* spec.md 4.4 step 2 on a preamble d read from its first byte: a type     *)
(* byte, a length tag (u8 or u16 length), the length in big-endian, then   *)
(* the blob; start and end are the positions before and after the blob.   *)
SpecPreamble(d) ==
    LET w == IF Len(d) < 2 THEN 0
             ELSE CASE d[2] = MetadataLengthUByte  -> 1
                    [] d[2] = MetadataLengthUShort -> 2
                    [] OTHER                       -> 0
        n == CASE Len(d) < 2 + w -> 0
               [] w = 1        -> d[3]
               [] OTHER        -> d[3] * 256 + d[4]
    IN  CASE Len(d) < 2            -> [code |-> "Incomplete"]
          [] w = 0                 -> [code |-> "Corrupted"]
          [] Len(d) < 2 + w + n    -> [code |-> "Incomplete"]
          [] OTHER -> [code |-> "Success", type |-> d[1], start |-> 2 + w,
                       bytes |-> SubSeq(d, 3 + w, 2 + w + n), end |-> 2 + w + n]

(* spec.md 8 (big-endian): the value of a W-byte field is the sum of       *)
(* byte[i] * 256^(W-i); for a signed type whose top bit is set, it is the  *)
(* two's complement, -1 minus the sum over the complemented bytes.         *)
SpecIntValue(bs, signed) ==
    LET W        == Len(bs)
        negative == signed /\ bs[1] >= 128
        digit(i) == IF negative THEN 255 - bs[i] ELSE bs[i]
        sum      == MapThenSumSet(LAMBDA i : digit(i) * 256^(W - i),
                                  {i \in 1..W : digit(i) # 0})
    IN  IF negative THEN -1 - sum ELSE sum

Outcome(r) == IF r.code = "Success" THEN r.val ELSE r.code

-----------------------------------------------------------------------------
(* Properties.                                                            *)

TypeOK ==
    /\ call.op \in {"none", "decode_next_message", "decode_int", "decode_message", "parse_dictionary_var", "parse_logtype",
                   "get_encoding_type", "decode_preamble_seek", "decode_preamble_copy"}
    /\ \/ result \in [ok : {TRUE}, msg : Seq(Int)] \cup [ok : {FALSE}]
       \/ result \in [code : {"Incomplete", "Corrupted"}, pos : Nat]
       \/ /\ result.code = "Success" /\ result.pos \in Nat
          /\ CASE call.op = "decode_next_message"  -> result.val \in [msg : Seq(Int), ts : Int]
                [] call.op = "decode_int"           -> result.val \in Int
                [] call.op = "get_encoding_type"    -> result.val \in Variants
                [] call.op = "decode_preamble_seek" -> result.val \in [type : Byte, pos : Nat, size : Nat]
                [] call.op = "decode_preamble_copy" -> result.val \in [type : Byte, bytes : Seq(Byte)]
                [] OTHER                            -> result.val \in Seq(Byte)

(* spec.md 4.5 and 9: the two variants accept different tag sets (the     *)
(* encoded-variable tag and the timestamp tags).  A frame decodes, to its  *)
(* text and timestamp, by the decoder of the variant it was written for,   *)
(* and the other variant's decoder rejects it as Corrupted rather than     *)
(* misreading widths into a plausible message.                             *)
FrameVariantChecked ==
    call.op = "decode_next_message" =>
        IF call.v = call.written
        THEN result = Ok(Len(call.d), [msg |-> RenderedText(call.e), ts |-> call.e.ts])
        ELSE result.code = "Corrupted"

(* spec.md 8 (big-endian): decode_int, the little-endian load followed by  *)
(* bswap_16/32/64 into a signed or unsigned integer_t, reads every field   *)
(* of every width as its big-endian value, sign-extended from the top bit  *)
(* exactly for the signed types, and consumes exactly its width.          *)
DecodeIntMatchesSpec ==
    call.op = "decode_int" =>
        result = Ok(call.ty.w, SpecIntValue(call.d, call.ty.signed))

(* decode_message's index arithmetic (the static-text cursor, the extra    *)
(* cur_pos step over an escaped byte, the remainder appended after the     *)
(* loop) renders every logtype as the token grammar of spec.md 4.6 does,   *)
(* and fails exactly where the grammar does.                               *)
RenderMatchesSpec ==
    call.op = "decode_message" => result = SpecRender(call.lt, call.ev, call.dv)

(* spec.md 4.6 and 9: a message whose logtype does not consume every       *)
(* variable the frame carried is a decode error; decode_message only       *)
(* checks for too few variables.                                          *)
RejectsSurplusVariables ==
    call.op = "decode_message" /\ result.ok =>
        /\ PlaceholderCount(call.lt, {PlaceholderFloat, PlaceholderInteger}) = Len(call.ev)
        /\ PlaceholderCount(call.lt, {PlaceholderDictionary}) = Len(call.dv)

(* spec.md 4.3 and 7: parse_dictionary_var and parse_logtype classify     *)
(* every input as the spec does; in particular a negative signed 32-bit    *)
(* length is a corrupt stream, not an incomplete one that more bytes could *)
(* complete.                                                               *)
LengthParseMatchesSpec ==
    /\ call.op = "parse_dictionary_var" =>
           result.code = SpecParseLengthPrefixed(call.d, call.tag, VarStrLenUByte,
                                                 VarStrLenUShort, VarStrLenInt)
    /\ call.op = "parse_logtype" =>
           result.code = SpecParseLengthPrefixed(call.d, call.tag, LogtypeStrLenUByte,
                                                 LogtypeStrLenUShort, LogtypeStrLenInt)

(* spec.md 4.4: get_encoding_type selects a variant exactly when the first *)
(* N bytes are its magic number (the two magics share all but their last  *)
(* byte), and both forms of decode_preamble read the metadata type, the    *)
(* u8 or u16 length and the blob as the spec lays them out: the seek form's *)
(* (position, size) names the very bytes the copy form returns, and both   *)
(* leave the reader just past the blob.                                    *)
HeaderMatchesSpec ==
    /\ call.op = "get_encoding_type" =>
           /\ Outcome(result) = SpecEncodingType(call.d)
           /\ result.code = "Success" => result.pos = MagicNumberLength
    /\ call.op \in {"decode_preamble_seek", "decode_preamble_copy"} =>
           LET s == SpecPreamble(call.d) IN
           /\ result.code = s.code
           /\ result.code = "Success" =>
                  /\ result.pos = s.end
                  /\ result.val.type = s.type
                  /\ call.op = "decode_preamble_seek" =>
                         /\ result.val.pos = s.start
                         /\ SubSeq(call.d, result.val.pos + 1,
                                   result.val.pos + result.val.size) = s.bytes
                  /\ call.op = "decode_preamble_copy" => result.val.bytes = s.bytes
=============================================================================
