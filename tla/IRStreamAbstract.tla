--------------------------- MODULE IRStreamAbstract ---------------------------
(***************************************************************************)
(* What the decoding API promises a caller of an undamaged IR stream       *)
(* (spec.md sections 4.4, 4.5 and 5): the header (variant and metadata)    *)
(* is learnt once, then the messages come out in wire order, each exactly  *)
(* once and as written, and after the last one the stream ends with Eof.   *)
(* How the bytes arrive, and how often a call has to be retried, is not    *)
(* visible here.                                                           *)
(***************************************************************************)
EXTENDS Naturals, Sequences

VARIABLES
    source,  \* what the producer wrote: [header, msgs]
    known,   \* the caller has decoded the header
    header,  \* the header the caller decoded, meaningful once known
    out,     \* the messages returned so far
    ended    \* Eof has been returned

vars == <<source, known, header, out, ended>>

Init ==
    /\ known = FALSE
    /\ out = <<>>
    /\ ended = FALSE

ReadHeader ==
    /\ ~known
    /\ known' = TRUE
    /\ header' = source.header
    /\ UNCHANGED <<source, out, ended>>

Emit ==
    /\ known
    /\ Len(out) < Len(source.msgs)
    /\ out' = Append(out, source.msgs[Len(out) + 1])
    /\ UNCHANGED <<source, known, header, ended>>

ReachEof ==
    /\ known
    /\ ~ended
    /\ Len(out) = Len(source.msgs)
    /\ ended' = TRUE
    /\ UNCHANGED <<source, known, header, out>>

Next == ReadHeader \/ Emit \/ ReachEof

Spec == Init /\ [][Next]_vars /\ WF_vars(Next)
=============================================================================
