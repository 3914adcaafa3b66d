----------------------------- MODULE IRDecoding -----------------------------
(***************************************************************************)
(* The decoding functions of src/components/core/src/ffi/ir_stream/       *)
(* decoding_methods.cpp as operators over the bytes a reader holds.        *)
(*                                                                         *)
(* A reader is a pair (d, p): d is the sequence of bytes the reader can    *)
(* supply (values 0..255) and p the number of bytes already consumed, so   *)
(* the next byte is d[p + 1].  Every parsing operator returns a record     *)
(* [code, pos, val]: code is the IRErrorCode, pos the reader position the  *)
(* call leaves behind and val its output (present only on "Success").     *)
(*                                                                         *)
(* A rendered encoded variable is one symbol outside the byte range that   *)
(* names the formatter and the value (see DecodeIntegerVar); the           *)
(* formatters are external helpers the spec treats as pure functions.     *)
(***************************************************************************)
EXTENDS Integers, Sequences, SequencesExt

CONSTANTS
    Eof,                                        \* cProtocol::Eof
    MetadataLengthUByte, MetadataLengthUShort,  \* cProtocol::Metadata::*
    VarFourByteEncoding, VarEightByteEncoding,  \* cProtocol::Payload::*
    VarStrLenUByte, VarStrLenUShort, VarStrLenInt,
    LogtypeStrLenUByte, LogtypeStrLenUShort, LogtypeStrLenInt,
    TimestampVal,
    TimestampDeltaByte, TimestampDeltaShort, TimestampDeltaInt,
    FourByteEncodingMagicNumber,                \* byte tuples
    EightByteEncodingMagicNumber,
    PlaceholderFloat, PlaceholderInteger,       \* VariablePlaceholder::*
    PlaceholderDictionary,
    EscapeCharacter,                            \* cVariablePlaceholderEscapeCharacter
    RenderedIntegerBase, RenderedFloatBase      \* symbols of rendered variables

Byte == 0..255

PayloadTags ==
    {VarFourByteEncoding, VarEightByteEncoding, VarStrLenUByte, VarStrLenUShort,
     VarStrLenInt, LogtypeStrLenUByte, LogtypeStrLenUShort, LogtypeStrLenInt,
     TimestampVal, TimestampDeltaByte, TimestampDeltaShort, TimestampDeltaInt}

ASSUME /\ PayloadTags \cup {Eof, MetadataLengthUByte, MetadataLengthUShort} \subseteq Byte
       /\ Eof \notin PayloadTags
       /\ MetadataLengthUByte # MetadataLengthUShort
       /\ FourByteEncodingMagicNumber # EightByteEncodingMagicNumber
       /\ Len(FourByteEncodingMagicNumber) = Len(EightByteEncodingMagicNumber)
       /\ Cardinality({PlaceholderFloat, PlaceholderInteger, PlaceholderDictionary,
                       EscapeCharacter}) = 4

MagicNumberLength == Len(FourByteEncodingMagicNumber)

Variants == {"four", "eight"}     \* four_byte_encoding, eight_byte_encoding

(* Integer types read by decode_int: width in bytes and signedness.        *)
UInt8  == [w |-> 1, signed |-> FALSE]
UInt16 == [w |-> 2, signed |-> FALSE]
Int8   == [w |-> 1, signed |-> TRUE]
Int16  == [w |-> 2, signed |-> TRUE]
Int32  == [w |-> 4, signed |-> TRUE]
Int64  == [w |-> 8, signed |-> TRUE]

(* four_byte_encoded_variable_t is int32_t, eight_byte_... is int64_t.    *)
EncodedVariableType(v) == IF v = "four" THEN Int32 ELSE Int64

Ok(p, val)    == [code |-> "Success", pos |-> p, val |-> val]
Fail(code, p) == [code |-> code, pos |-> p]

(* The code's early returns: a failed result r is returned as it is, a    *)
(* successful one is passed on to the rest K of the function.  r is bound *)
(* to its value once, so the rest may read it freely.                     *)
Then(r, K(_)) ==
    CHOOSE x \in {IF y.code = "Success" THEN K(y) ELSE y : y \in {r}} : TRUE

(* Binds the value of e for F, for results that are not IRErrorCodes.     *)
Bind(e, F(_)) == CHOOSE x \in {F(y) : y \in {e}} : TRUE

-----------------------------------------------------------------------------
(* Reader primitives (ReaderInterface): exact reads that fail with the     *)
(* reader short of bytes.  On failure the code leaves the position where   *)
(* the reader left it; the caller rewinds, so the model keeps p.           *)

(* Mutant: a reader that does not reject a negative count.                *)
TryReadNoCountCheck(d, p, n) ==
    IF p + n <= Len(d) THEN Ok(p + n, SubSeq(d, p + 1, p + n))
                       ELSE Fail("Incomplete", p)

TryRead(d, p, n) ==
    IF n >= 0 /\ p + n <= Len(d) THEN Ok(p + n, SubSeq(d, p + 1, p + n))
                                 ELSE Fail("Incomplete", p)

(* Big-endian value of a byte sequence, two's complement when signed.     *)
(* Horner's rule keeps every partial value within the final one's range.  *)
RECURSIVE Horner(_, _)
Horner(acc, bs) == IF bs = <<>> THEN acc ELSE Horner(acc * 256 + Head(bs), Tail(bs))

(* An int64 outside TLC's 32-bit integers is one value, OutOfRange: only a *)
(* damaged field holds one, and the properties only compare it for        *)
(* equality with what an intact field holds.                              *)
OutOfRange == -2147483647 - 1

InInt32Range(bs) ==
    \/ Len(bs) <= 4
    \/ /\ \A i \in 1..Len(bs) - 4 : bs[i] = 0
       /\ bs[Len(bs) - 3] < 128
    \/ /\ \A i \in 1..Len(bs) - 4 : bs[i] = 255
       /\ bs[Len(bs) - 3] >= 128

BigEndianValue(bs, signed) ==
    IF ~InInt32Range(bs) THEN OutOfRange
    ELSE Horner(IF signed /\ bs[1] >= 128 THEN bs[1] - 256 ELSE bs[1], Tail(bs))

(* Mutant: decode_int without the bswap, reading little-endian.           *)
DecodeIntNoBswap(d, p, ty) ==
    Then(TryRead(d, p, ty.w), LAMBDA r : Ok(r.pos, BigEndianValue(Reverse(r.val), ty.signed)))

(* decode_int: try_read_numeric_value reads sizeof(integer_t) bytes and    *)
(* bswap turns the little-endian load into the big-endian value.          *)
DecodeInt(d, p, ty) ==
    Then(TryRead(d, p, ty.w), LAMBDA r : Ok(r.pos, BigEndianValue(r.val, ty.signed)))

(* One tag byte (try_read_numeric_value of an encoded_tag_t).             *)
ReadTag(d, p) ==
    IF p + 1 <= Len(d) THEN Ok(p + 1, d[p + 1]) ELSE Fail("Incomplete", p)

-----------------------------------------------------------------------------
(* is_variable_tag: "dict", "encoded" or "none" for this variant.          *)
VariableTagKind(tag, v) ==
    CASE tag \in {VarStrLenUByte, VarStrLenUShort, VarStrLenInt}  -> "dict"
      [] v = "eight" /\ tag = VarEightByteEncoding               -> "encoded"
      [] v = "four"  /\ tag = VarFourByteEncoding                -> "encoded"
      [] OTHER                                                    -> "none"

(* A length-prefixed string: the tag selects a uint8, uint16 or int32      *)
(* length; any other tag is corrupt.  The length is assigned to a size_t:  *)
(* a negative int32 becomes 2^64 + length, more than any reader holds, so  *)
(* try_read_string can only fail, and the code reports Incomplete.        *)
(* Mutant: the int32 length branch missing.                               *)
ParseLengthPrefixedNoIntForm(d, p, tag, ubyteTag, ushortTag, intTag) ==
    IF tag \notin {ubyteTag, ushortTag} THEN Fail("Corrupted", p)
    ELSE Then(DecodeInt(d, p, IF tag = ubyteTag THEN UInt8 ELSE UInt16),
              LAMBDA len : TryRead(d, len.pos, len.val))

ParseLengthPrefixed(d, p, tag, ubyteTag, ushortTag, intTag) ==
    IF tag \notin {ubyteTag, ushortTag, intTag} THEN Fail("Corrupted", p)
    ELSE Then(DecodeInt(d, p, CASE tag = ubyteTag  -> UInt8
                                [] tag = ushortTag -> UInt16
                                [] tag = intTag    -> Int32),
              LAMBDA len : TryRead(d, len.pos, len.val))

ParseLogtype(d, p, tag) ==
    ParseLengthPrefixed(d, p, tag, LogtypeStrLenUByte, LogtypeStrLenUShort,
                        LogtypeStrLenInt)

ParseDictionaryVar(d, p, tag) ==
    ParseLengthPrefixed(d, p, tag, VarStrLenUByte, VarStrLenUShort, VarStrLenInt)

(* Mutant: the 4-byte delta read as a 2-byte one.                        *)
ParseTimestampShortForInt(d, p, tag, v) ==
    IF v = "eight"
    THEN IF tag # TimestampVal THEN Fail("Corrupted", p) ELSE DecodeInt(d, p, Int64)
    ELSE CASE tag = TimestampDeltaByte  -> DecodeInt(d, p, Int8)
           [] tag = TimestampDeltaShort -> DecodeInt(d, p, Int16)
           [] tag = TimestampDeltaInt   -> DecodeInt(d, p, Int16)
           [] OTHER                     -> Fail("Corrupted", p)

(* Mutant: the absolute TimestampVal form accepted by both variants.      *)
ParseTimestampAbsoluteInBoth(d, p, tag, v) ==
    IF tag = TimestampVal THEN DecodeInt(d, p, Int64)
    ELSE IF v = "eight" THEN Fail("Corrupted", p)
    ELSE CASE tag = TimestampDeltaByte  -> DecodeInt(d, p, Int8)
           [] tag = TimestampDeltaShort -> DecodeInt(d, p, Int16)
           [] tag = TimestampDeltaInt   -> DecodeInt(d, p, Int32)
           [] OTHER                     -> Fail("Corrupted", p)

(* parse_timestamp: an absolute int64 in the eight-byte variant, a signed  *)
(* 1-, 2- or 4-byte delta in the four-byte variant.                       *)
ParseTimestamp(d, p, tag, v) ==
    IF v = "eight"
    THEN IF tag # TimestampVal THEN Fail("Corrupted", p) ELSE DecodeInt(d, p, Int64)
    ELSE CASE tag = TimestampDeltaByte  -> DecodeInt(d, p, Int8)
           [] tag = TimestampDeltaShort -> DecodeInt(d, p, Int16)
           [] tag = TimestampDeltaInt   -> DecodeInt(d, p, Int32)
           [] OTHER                     -> Fail("Corrupted", p)

-----------------------------------------------------------------------------
(* The external formatters decode_integer_var / decode_float_var.          *)
DecodeIntegerVar(x) == <<RenderedIntegerBase + x>>
DecodeFloatVar(x)   == <<RenderedFloatBase + x>>

(* Mutant: the trailing-escape check off by one (cur_pos == length).      *)
RECURSIVE RenderFromEscapeOffByOne(_, _, _, _, _, _, _, _)
RenderFromEscapeOffByOne(lt, E, D, cur, sbeg, ei, di, msg) ==
    IF cur >= Len(lt)
    THEN [ok |-> TRUE, msg |-> msg \o SubSeq(lt, sbeg + 1, Len(lt))]
    ELSE LET c      == lt[cur + 1]
             static == msg \o SubSeq(lt, sbeg + 1, cur)
             Rec(a, b, x, y, m) == RenderFromEscapeOffByOne(lt, E, D, a, b, x, y, m)
         IN  CASE c \in {PlaceholderFloat, PlaceholderInteger} ->
                     IF ei >= Len(E) THEN [ok |-> FALSE]
                     ELSE Rec(cur + 1, cur + 1, ei + 1, di,
                              static \o (IF c = PlaceholderFloat
                                         THEN DecodeFloatVar(E[ei + 1])
                                         ELSE DecodeIntegerVar(E[ei + 1])))
               [] c = PlaceholderDictionary ->
                     IF di >= Len(D) THEN [ok |-> FALSE]
                     ELSE Rec(cur + 1, cur + 1, ei, di + 1, static \o D[di + 1])
               [] c = EscapeCharacter ->
                     IF cur = Len(lt) THEN [ok |-> FALSE]
                     ELSE Rec(cur + 2, cur + 1, ei, di, static)
               [] OTHER -> Rec(cur + 1, sbeg, ei, di, msg)

(* decode_message: the loop over the logtype.  cur and sbeg are the code's *)
(* 0-based cur_pos and next_static_text_begin_pos, ei and di the indices   *)
(* of the next encoded and dictionary variable.  An EncodingException is   *)
(* [ok |-> FALSE]; the partial message is discarded with it.              *)
RECURSIVE RenderFrom(_, _, _, _, _, _, _, _)
RenderFrom(lt, E, D, cur, sbeg, ei, di, msg) ==
    IF cur >= Len(lt)
    THEN [ok |-> TRUE, msg |-> msg \o SubSeq(lt, sbeg + 1, Len(lt))]
    ELSE LET c      == lt[cur + 1]
             static == msg \o SubSeq(lt, sbeg + 1, cur)
         IN  CASE c \in {PlaceholderFloat, PlaceholderInteger} ->
                     IF ei >= Len(E) THEN [ok |-> FALSE]
                     ELSE RenderFrom(lt, E, D, cur + 1, cur + 1, ei + 1, di,
                            static \o (IF c = PlaceholderFloat
                                       THEN DecodeFloatVar(E[ei + 1])
                                       ELSE DecodeIntegerVar(E[ei + 1])))
               [] c = PlaceholderDictionary ->
                     IF di >= Len(D) THEN [ok |-> FALSE]
                     ELSE RenderFrom(lt, E, D, cur + 1, cur + 1, ei, di + 1,
                                     static \o D[di + 1])
               [] c = EscapeCharacter ->
                     IF cur = Len(lt) - 1 THEN [ok |-> FALSE]
                     ELSE RenderFrom(lt, E, D, cur + 2, cur + 1, ei, di, static)
               [] OTHER -> RenderFrom(lt, E, D, cur + 1, sbeg, ei, di, msg)

DecodeMessage(lt, E, D) == RenderFrom(lt, E, D, 0, 0, 0, 0, <<>>)

-----------------------------------------------------------------------------
(* The variable loop of generic_decode_next_message: p is the position     *)
(* after the tag; returns the first non-variable tag with the collected    *)
(* encoded_vars (ev) and dict_vars (dv).                                   *)
(* Mutant: encoded variables inserted at the front of encoded_vars.       *)
RECURSIVE ReadVariablesEncodedReversed(_, _, _, _, _, _)
ReadVariablesEncodedReversed(d, p, tag, v, E, D) ==
    CASE VariableTagKind(tag, v) = "none" ->
             Ok(p, [tag |-> tag, ev |-> E, dv |-> D])
      [] VariableTagKind(tag, v) = "encoded" ->
             Then(DecodeInt(d, p, EncodedVariableType(v)), LAMBDA x :
             Then(ReadTag(d, x.pos), LAMBDA next :
                  ReadVariablesEncodedReversed(d, next.pos, next.val, v, <<x.val>> \o E, D)))
      [] VariableTagKind(tag, v) = "dict" ->
             Then(ParseDictionaryVar(d, p, tag), LAMBDA s :
             Then(ReadTag(d, s.pos), LAMBDA next :
                  ReadVariablesEncodedReversed(d, next.pos, next.val, v, E, Append(D, s.val))))

RECURSIVE ReadVariables(_, _, _, _, _, _)
ReadVariables(d, p, tag, v, E, D) ==
    CASE VariableTagKind(tag, v) = "none" ->
             Ok(p, [tag |-> tag, ev |-> E, dv |-> D])
      [] VariableTagKind(tag, v) = "encoded" ->
             Then(DecodeInt(d, p, EncodedVariableType(v)), LAMBDA x :
             Then(ReadTag(d, x.pos), LAMBDA next :
                  ReadVariables(d, next.pos, next.val, v, Append(E, x.val), D)))
      [] VariableTagKind(tag, v) = "dict" ->
             Then(ParseDictionaryVar(d, p, tag), LAMBDA s :
             Then(ReadTag(d, s.pos), LAMBDA next :
                  ReadVariables(d, next.pos, next.val, v, E, Append(D, s.val))))

(* Mutant: no Eof check on the first tag.                                *)
GenericDecodeNextMessageNoEof(d, p, v) ==
    Then(ReadTag(d, p), LAMBDA first :
      Then(ReadVariables(d, first.pos, first.val, v, <<>>, <<>>), LAMBDA vars :
      Then(ParseLogtype(d, vars.pos, vars.val.tag), LAMBDA lt :
      Then(ReadTag(d, lt.pos), LAMBDA tsTag :
      Then(ParseTimestamp(d, tsTag.pos, tsTag.val, v), LAMBDA ts :
      Bind(DecodeMessage(lt.val, vars.val.ev, vars.val.dv), LAMBDA msg :
           IF msg.ok THEN Ok(ts.pos, [msg |-> msg.msg, ts |-> ts.val])
                     ELSE Fail("DecodeError", ts.pos)))))))

(* generic_decode_next_message: tag, variables, logtype, timestamp tag,    *)
(* timestamp, then the message.  val is [msg, ts].                        *)
GenericDecodeNextMessage(d, p, v) ==
    Then(ReadTag(d, p), LAMBDA first :
      IF first.val = Eof THEN Fail("Eof", first.pos) ELSE
      Then(ReadVariables(d, first.pos, first.val, v, <<>>, <<>>), LAMBDA vars :
      Then(ParseLogtype(d, vars.pos, vars.val.tag), LAMBDA lt :
      Then(ReadTag(d, lt.pos), LAMBDA tsTag :
      Then(ParseTimestamp(d, tsTag.pos, tsTag.val, v), LAMBDA ts :
      Bind(DecodeMessage(lt.val, vars.val.ev, vars.val.dv), LAMBDA msg :
           IF msg.ok THEN Ok(ts.pos, [msg |-> msg.msg, ts |-> ts.val])
                     ELSE Fail("DecodeError", ts.pos)))))))

-----------------------------------------------------------------------------
(* Mutant: the LengthUShort case reading its size as a uint8_t.           *)
ReadMetadataInfoUByteOnly(d, p) ==
    Then(ReadTag(d, p), LAMBDA type :
    Then(ReadTag(d, type.pos), LAMBDA tag :
      IF tag.val \notin {MetadataLengthUByte, MetadataLengthUShort}
      THEN Fail("Corrupted", tag.pos)
      ELSE Then(DecodeInt(d, tag.pos, UInt8), LAMBDA size :
           Ok(size.pos, [type |-> type.val, size |-> size.val]))))

(* read_metadata_info: metadata type byte, length tag, uint8/uint16 size. *)
ReadMetadataInfo(d, p) ==
    Then(ReadTag(d, p), LAMBDA type :
    Then(ReadTag(d, type.pos), LAMBDA tag :
      IF tag.val \notin {MetadataLengthUByte, MetadataLengthUShort}
      THEN Fail("Corrupted", tag.pos)
      ELSE Then(DecodeInt(d, tag.pos, IF tag.val = MetadataLengthUByte
                                      THEN UInt8 ELSE UInt16), LAMBDA size :
           Ok(size.pos, [type |-> type.val, size |-> size.val]))))

(* get_encoding_type: the magic number selects the variant.               *)
GetEncodingType(d, p) ==
    Then(TryRead(d, p, MagicNumberLength), LAMBDA r :
      IF r.val = FourByteEncodingMagicNumber THEN Ok(r.pos, "four")
      ELSE IF r.val = EightByteEncodingMagicNumber THEN Ok(r.pos, "eight")
      ELSE Fail("Corrupted", r.pos))

(* Mutant: the seek past the blob not checked against the reader's end.  *)
DecodePreambleSeekUnchecked(d, p) ==
    Then(ReadMetadataInfo(d, p), LAMBDA info :
      Ok(info.pos + info.val.size,
         [type |-> info.val.type, pos |-> info.pos, size |-> info.val.size]))

(* decode_preamble, seek form: the blob's start position and size; the     *)
(* reader seeks past the blob, which fails if the reader does not hold it. *)
DecodePreambleSeek(d, p) ==
    Then(ReadMetadataInfo(d, p), LAMBDA info :
      IF info.pos + info.val.size > Len(d) THEN Fail("Incomplete", info.pos)
      ELSE Ok(info.pos + info.val.size,
              [type |-> info.val.type, pos |-> info.pos, size |-> info.val.size]))

(* decode_preamble, copy form: the blob itself.                           *)
DecodePreambleCopy(d, p) ==
    Then(ReadMetadataInfo(d, p), LAMBDA info :
    Then(TryRead(d, info.pos, info.val.size), LAMBDA blob :
         Ok(blob.pos, [type |-> info.val.type, bytes |-> blob.val])))
=============================================================================
