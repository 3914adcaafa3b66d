----------------------------- MODULE MCIRStream -----------------------------
(***************************************************************************)
(* Model values for IRStream.  Tag bytes are those of the IR protocol      *)
(* constants header; placeholder and escape bytes are those of spec.md     *)
(* section 8.  Only their distinctness matters to the decoder.            *)
(***************************************************************************)
EXTENDS IRStream

MC_FourByteMagic  == <<253, 47, 181, 41>>
MC_EightByteMagic == <<253, 47, 181, 48>>

Txt(b)   == [k |-> "text", b |-> b]
IntV(x)  == [k |-> "int", x |-> x]
FltV(x)  == [k |-> "float", x |-> x]
DictV(s) == [k |-> "dict", s |-> s]

(* "A<int>\x13<int>": a literal placeholder byte that the encoder must    *)
(* escape, between two integer variables that the decoder must keep in    *)
(* order within encoded_vars.                                             *)
EventA == [segs |-> <<Txt(65), IntV(-1), Txt(19), IntV(2)>>, ts |-> 300]
(* "<dict>\<float>": a dictionary variable holding a placeholder byte, a  *)
(* literal escape character, and a timestamp 1 ms before the previous.    *)
EventB == [segs |-> <<DictV(<<66, 18>>), Txt(92), FltV(7)>>, ts |-> 299]

(* An empty message: a zero-length logtype, whose length byte equals Eof, *)
(* no variables, and a delta of 70000 ms that only the int32 form holds.  *)
EventC == [segs |-> <<>>, ts |-> 70299]

MC_Log        == <<EventA, EventB, EventC>>
MC_FaultLog   == <<EventB>>
MC_Blobs      == {<<123, 125>>}
=============================================================================
