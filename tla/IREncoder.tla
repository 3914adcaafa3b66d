------------------------------ MODULE IREncoder ------------------------------
(***************************************************************************)
(* The producer side of the IR stream, modelled from the wire format of    *)
(* spec.md sections 3 and 6.3 (the encoder is not part of src/).           *)
(*                                                                         *)
(* A log event is [segs, ts]: segs is its text as a sequence of segments,  *)
(* a literal byte [k |-> "text", b], an encoded variable [k |-> "int" or   *)
(* "float", x] or a dictionary variable [k |-> "dict", s]; ts is its       *)
(* millisecond timestamp.  An encoder may pick any length or delta width   *)
(* the value fits in (spec section 9), so each event has a set of frames.  *)
(***************************************************************************)
EXTENDS IRDecoding

(* Two's-complement big-endian bytes of x in w bytes.                      *)
RECURSIVE BigEndianBytes(_, _)
BigEndianBytes(x, w) ==
    IF w = 0 THEN <<>> ELSE BigEndianBytes(x \div 256, w - 1) \o <<x % 256>>

(* x is representable in type ty: its bytes read back as x (computed this *)
(* way to stay within TLC's 32-bit integers).                             *)
Fits(x, ty) == BigEndianValue(BigEndianBytes(x, ty.w), ty.signed) = x

(* Every tagged, length-prefixed form of string s: tags[i] announces a     *)
(* length of type types[i].                                                *)
LengthPrefixedForms(s, tags, types) ==
    { <<tags[i]>> \o BigEndianBytes(Len(s), types[i].w) \o s :
        i \in {j \in DOMAIN tags : Fits(Len(s), types[j])} }

LengthTypes == <<UInt8, UInt16, Int32>>

(* The logtype of an event: literal bytes that are placeholders or the     *)
(* escape character are escaped; each variable becomes its placeholder.    *)
LogtypeOf(segs) ==
    LET piece(g) ==
          CASE g.k = "text"  -> IF g.b \in {PlaceholderFloat, PlaceholderInteger,
                                            PlaceholderDictionary, EscapeCharacter}
                                THEN <<EscapeCharacter, g.b>> ELSE <<g.b>>
            [] g.k = "int"   -> <<PlaceholderInteger>>
            [] g.k = "float" -> <<PlaceholderFloat>>
            [] g.k = "dict"  -> <<PlaceholderDictionary>>
    IN  FlattenSeq([i \in DOMAIN segs |-> piece(segs[i])])

(* The records of the variables of segs, in the order they occur.          *)
RECURSIVE VariableRecords(_, _)
VariableRecords(segs, v) ==
    IF segs = <<>> THEN {<<>>}
    ELSE LET g     == Head(segs)
             heads == CASE g.k = "text" -> {<<>>}
                        [] g.k = "dict" -> LengthPrefixedForms(g.s,
                               <<VarStrLenUByte, VarStrLenUShort, VarStrLenInt>>,
                               LengthTypes)
                        [] OTHER -> {<<IF v = "four" THEN VarFourByteEncoding
                                                     ELSE VarEightByteEncoding>>
                                     \o BigEndianBytes(g.x, EncodedVariableType(v).w)}
         IN  {h \o t : h \in heads, t \in VariableRecords(Tail(segs), v)}

(* The timestamp record: absolute in the eight-byte variant, the delta to  *)
(* the previous event in the four-byte variant.                           *)
TimestampRecords(ts, prevTs, v) ==
    IF v = "eight" THEN {<<TimestampVal>> \o BigEndianBytes(ts, 8)}
    ELSE LET delta == ts - prevTs
             forms == <<[tag |-> TimestampDeltaByte,  ty |-> Int8],
                        [tag |-> TimestampDeltaShort, ty |-> Int16],
                        [tag |-> TimestampDeltaInt,   ty |-> Int32]>>
         IN  { <<forms[i].tag>> \o BigEndianBytes(delta, forms[i].ty.w) :
                 i \in {j \in 1..3 : Fits(delta, forms[j].ty)} }

(* Every frame of event e: variables, logtype, timestamp.                 *)
EventFrames(e, prevTs, v) ==
    { vr \o lt \o tr :
        vr \in VariableRecords(e.segs, v),
        lt \in LengthPrefixedForms(LogtypeOf(e.segs),
                   <<LogtypeStrLenUByte, LogtypeStrLenUShort, LogtypeStrLenInt>>,
                   LengthTypes),
        tr \in TimestampRecords(e.ts, prevTs, v) }

(* Every sequence of frames for the events of log, the first event's      *)
(* delta taken from timestamp 0.                                          *)
RECURSIVE FrameSequences(_, _, _)
FrameSequences(log, prevTs, v) ==
    IF log = <<>> THEN {<<>>}
    ELSE {<<f>> \o rest : f \in EventFrames(Head(log), prevTs, v),
                          rest \in FrameSequences(Tail(log), Head(log).ts, v)}

(* Magic number, metadata type, metadata length record, metadata blob.    *)
Preambles(v, type, blob) ==
    { (IF v = "four" THEN FourByteEncodingMagicNumber
                     ELSE EightByteEncodingMagicNumber) \o <<type>> \o m :
        m \in LengthPrefixedForms(blob, <<MetadataLengthUByte, MetadataLengthUShort>>,
                                  <<UInt8, UInt16>>) }

(* The text a reader of event e expects to see.                           *)
RenderedText(e) ==
    LET piece(g) == CASE g.k = "text"  -> <<g.b>>
                      [] g.k = "int"   -> DecodeIntegerVar(g.x)
                      [] g.k = "float" -> DecodeFloatVar(g.x)
                      [] g.k = "dict"  -> g.s
    IN  FlattenSeq([i \in DOMAIN e.segs |-> piece(e.segs[i])])
=============================================================================
