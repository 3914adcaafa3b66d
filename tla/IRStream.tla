------------------------------ MODULE IRStream ------------------------------
(***************************************************************************)
(* A stream of IR bytes consumed through the API of decoding_methods.cpp.  *)
(*                                                                         *)
(* The producer writes an encoded stream (IREncoder) that reaches the      *)
(* reader one byte at a time and is eventually closed; in transit at most  *)
(* one byte not yet delivered may be damaged.  The caller calls            *)
(* get_encoding_type once, decode_preamble once (either form), and then    *)
(* decode_next_message of the stream's variant until it returns Eof or    *)
(* an error.  Before each call it remembers the reader position; when a    *)
(* call returns Incomplete it seeks back there and waits for more bytes,   *)
(* or, once the stream is closed, gives up with the stream truncated.      *)
(* Each caller action is one whole API call and the caller's reaction.    *)
(***************************************************************************)
EXTENDS IREncoder

CONSTANTS
    Log,              \* the events the producer writes, in order
    MetadataTypes,    \* metadata type bytes the producer may write
    MetadataBlobs,    \* metadata blobs the producer may write
    StreamVariants,   \* encoding variants the producer may use
    Faulty,           \* whether one byte may be damaged in transit
    CorruptBytes      \* values a damaged byte may take

VARIABLES
    wire,      \* every byte of the stream, as the reader will receive it
    written,   \* what the producer wrote: variant, metadata, frame ends
    avail,     \* bytes delivered to the reader so far
    closed,    \* the producer closed the stream: no more bytes will come
    damagedAt, \* index of the damaged byte, 0 if none
    pos,       \* reader position (bytes consumed)
    phase,     \* where the caller is in its decode loop
    variant,   \* encoding type get_encoding_type returned
    metadata,  \* metadata decode_preamble returned
    out        \* messages decode_next_message returned, ts made absolute

vars == <<wire, written, avail, closed, damagedAt, pos, phase, variant,
          metadata, out>>

Phases == {"magic", "preamble", "messages",
           "done", "corrupted", "decode_error", "truncated"}
Failed == {"corrupted", "decode_error", "truncated"}

NoMetadata == [type |-> -1, bytes |-> <<>>]

(* The bytes the reader holds.                                            *)
data == SubSeq(wire, 1, avail)

(* What each event must decode to, timestamps absolute.                   *)
Expected == [i \in DOMAIN Log |-> [msg |-> RenderedText(Log[i]), ts |-> Log[i].ts]]

(* Index of the last byte of each frame of fs placed after n bytes.       *)
FrameEnds(n, fs) == [i \in DOMAIN fs |-> n + Len(FlattenSeq(SubSeq(fs, 1, i)))]

Init ==
    /\ \E v \in StreamVariants, type \in MetadataTypes, blob \in MetadataBlobs :
         \E pre \in Preambles(v, type, blob), fs \in FrameSequences(Log, 0, v) :
            /\ wire = pre \o FlattenSeq(fs) \o <<Eof>>
            /\ written = [variant |-> v, type |-> type, blob |-> blob,
                          preambleEnd |-> Len(pre), ends |-> FrameEnds(Len(pre), fs)]
    /\ avail = 0
    /\ closed = FALSE
    /\ damagedAt = 0
    /\ pos = 0
    /\ phase = "magic"
    /\ variant = "none"
    /\ metadata = NoMetadata
    /\ out = <<>>

-----------------------------------------------------------------------------
(* Producer and channel.                                                  *)

Deliver ==
    /\ avail < Len(wire)
    /\ avail' = avail + 1
    /\ UNCHANGED <<wire, written, closed, damagedAt, pos, phase, variant,
                   metadata, out>>

Close ==
    /\ avail = Len(wire)
    /\ ~closed
    /\ closed' = TRUE
    /\ UNCHANGED <<wire, written, avail, damagedAt, pos, phase, variant,
                   metadata, out>>

Damage ==
    /\ Faulty
    /\ damagedAt = 0
    /\ \E i \in avail + 1 .. Len(wire) :
         \E b \in CorruptBytes \ {wire[i]} :
            /\ wire' = [wire EXCEPT ![i] = b]
            /\ damagedAt' = i
    /\ UNCHANGED <<written, avail, closed, pos, phase, variant, metadata, out>>

-----------------------------------------------------------------------------
(* Caller.  Settle(r, OnSuccess) is the caller's reaction to result r of   *)
(* one call: OnSuccess on "Success", rewind (pos unchanged) and wait on    *)
(* "Incomplete" while the stream is open, stop otherwise; pos then is      *)
(* where the failing call left the reader.                                *)

Settle(r, OnSuccess) ==
    IF r.code = "Success" THEN OnSuccess
    ELSE IF r.code = "Incomplete" /\ ~closed
         THEN UNCHANGED <<pos, phase, variant, metadata, out>>
    ELSE /\ phase' = CASE r.code = "Eof"         -> "done"
                       [] r.code = "Incomplete"  -> "truncated"
                       [] r.code = "Corrupted"   -> "corrupted"
                       [] r.code = "DecodeError" -> "decode_error"
         /\ pos' = r.pos
         /\ UNCHANGED <<variant, metadata, out>>

CallGetEncodingType ==
    /\ phase = "magic"
    /\ \E r \in {GetEncodingType(data, pos)} :
        /\ Settle(r, /\ pos' = r.pos
                     /\ variant' = r.val
                     /\ phase' = "preamble"
                     /\ UNCHANGED <<metadata, out>>)
        /\ UNCHANGED <<wire, written, avail, closed, damagedAt>>

(* The seek form leaves the blob in the reader; the caller reads it from  *)
(* its seekable buffer at metadata_pos.                                   *)
CallDecodePreambleSeek ==
    /\ phase = "preamble"
    /\ \E r \in {DecodePreambleSeek(data, pos)} :
        /\ Settle(r, /\ pos' = r.pos
                     /\ metadata' = [type |-> r.val.type,
                                     bytes |-> SubSeq(wire, r.val.pos + 1,
                                                      r.val.pos + r.val.size)]
                     /\ phase' = "messages"
                     /\ UNCHANGED <<variant, out>>)
        /\ UNCHANGED <<wire, written, avail, closed, damagedAt>>

CallDecodePreambleCopy ==
    /\ phase = "preamble"
    /\ \E r \in {DecodePreambleCopy(data, pos)} :
        /\ Settle(r, /\ pos' = r.pos
                     /\ metadata' = r.val
                     /\ phase' = "messages"
                     /\ UNCHANGED <<variant, out>>)
        /\ UNCHANGED <<wire, written, avail, closed, damagedAt>>

(* four_byte_encoding::decode_next_message returns a delta that the       *)
(* caller adds to the previous timestamp; eight_byte_encoding's is        *)
(* absolute.                                                               *)
CallDecodeNextMessage ==
    /\ phase = "messages"
    /\ \E r \in {GenericDecodeNextMessage(data, pos, variant)} :
        LET prev == IF out = <<>> THEN 0 ELSE out[Len(out)].ts
        IN  /\ Settle(r, /\ pos' = r.pos
                         /\ out' = Append(out, [msg |-> r.val.msg,
                                                ts |-> IF variant = "four"
                                                       THEN prev + r.val.ts
                                                       ELSE r.val.ts])
                         /\ UNCHANGED <<phase, variant, metadata>>)
            /\ UNCHANGED <<wire, written, avail, closed, damagedAt>>

Next ==
    \/ Deliver
    \/ Close
    \/ Damage
    \/ CallGetEncodingType
    \/ CallDecodePreambleSeek
    \/ CallDecodePreambleCopy
    \/ CallDecodeNextMessage

(* The producer keeps delivering and eventually closes; the caller keeps  *)
(* calling while it has not stopped (its loop has no other exit).         *)
Fairness ==
    /\ WF_vars(Deliver)
    /\ WF_vars(Close)
    /\ WF_vars(CallGetEncodingType)
    /\ WF_vars(CallDecodePreambleSeek \/ CallDecodePreambleCopy)
    /\ WF_vars(CallDecodeNextMessage)

Spec == Init /\ [][Next]_vars /\ Fairness

-----------------------------------------------------------------------------
(* Properties.                                                            *)

TypeOK ==
    /\ avail \in 0..Len(wire)
    /\ wire \in Seq(Byte)
    /\ closed \in BOOLEAN
    /\ damagedAt \in 0..Len(wire)
    /\ pos \in 0..avail
    /\ phase \in Phases
    /\ variant \in Variants \cup {"none"}
    /\ out \in Seq([msg : Seq(Int), ts : Int])
    /\ Len(out) <= Len(Log)

(* Bytes lo..hi of the wire are as the producer wrote them.               *)
Intact(hi) == damagedAt = 0 \/ damagedAt > hi

(* Round trip: whatever the caller decoded from bytes that arrived intact  *)
(* is what the producer wrote -- the variant, the metadata type and blob,  *)
(* and every message and timestamp whose frame is intact -- however the    *)
(* bytes were split across calls that returned Incomplete.                *)
DecodedAsWritten ==
    /\ variant # "none" /\ Intact(MagicNumberLength) => variant = written.variant
    /\ metadata # NoMetadata /\ Intact(written.preambleEnd)
           => metadata = [type |-> written.type, bytes |-> written.blob]
    /\ \A i \in DOMAIN out : Intact(written.ends[i]) => out[i] = Expected[i]

(* A failure is reported only for a stream that was damaged, and only     *)
(* after the reader consumed the damaged byte: the decoder never rejects  *)
(* an intact prefix, however it was split.                                *)
FailsOnlyOnDamage ==
    phase \in Failed => damagedAt # 0 /\ damagedAt <= pos

(* The next frame boundary after reader position p.                       *)
NextBoundary(p) ==
    LET bs == {written.preambleEnd, Len(wire)} \cup
              {written.ends[i] : i \in DOMAIN written.ends}
    IN  CHOOSE b \in bs : b > p /\ \A c \in bs : c > p => b <= c

(* Each decode_next_message that succeeds or returns Eof on an intact     *)
(* frame consumes exactly that frame: no byte of the next one, and on Eof *)
(* nothing past the Eof tag.                                              *)
ConsumesOneFrame ==
    [][ /\ phase = "messages"
        /\ phase' \in {"messages", "done"}
        /\ pos' # pos
        /\ Intact(NextBoundary(pos))
        => pos' = NextBoundary(pos) ]_vars

(* The refinement mapping: the header is known once decode_preamble has    *)
(* succeeded, Eof once the caller is done; what was written is the         *)
(* producer's header and the events' expected messages.                   *)
Abstract == INSTANCE IRStreamAbstract WITH
    source <- [header |-> [variant |-> written.variant,
                           metadata |-> [type |-> written.type, bytes |-> written.blob]],
               msgs   |-> Expected],
    known  <- phase \in {"messages", "done"},
    header <- IF phase \in {"messages", "done"}
              THEN [variant |-> variant, metadata |-> metadata]
              ELSE [variant |-> "none", metadata |-> NoMetadata],
    out    <- out,
    ended  <- phase = "done"

(* On an undamaged stream, however its bytes are split into calls that     *)
(* return Incomplete and are retried, the caller learns the header it was  *)
(* written with, receives every message once, in wire order and as         *)
(* written, and eventually sees Eof after the last one: IRStream           *)
(* implements IRStreamAbstract.                                            *)
RefinesAbstract == Abstract!Spec
=============================================================================
