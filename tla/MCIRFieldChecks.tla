--------------------------- MODULE MCIRFieldChecks ---------------------------
(***************************************************************************)
(* Inputs for IRFieldChecks.  Logtypes over a literal 'A', the three       *)
(* placeholders and the escape character, up to four bytes: enough for an  *)
(* escaped placeholder, an escaped escape, a trailing escape and two       *)
(* variables of each kind.  Field bytes 0, 1, 'A' and 255 make every       *)
(* length width short, exact, long and (for the int32 form) negative.      *)
(***************************************************************************)
EXTENDS IRFieldChecks

MC_FourByteMagic  == <<253, 47, 181, 41>>
MC_EightByteMagic == <<253, 47, 181, 48>>
MC_DictValues     == {<<66>>, <<67, 68>>}

(* Two events at ts 5, written in every framing: a dictionary variable    *)
(* then 'A' (a frame without an encoded variable, so the variants differ  *)
(* only in the timestamp tag), and an integer variable -1.               *)
MC_FrameEvents ==
    { [segs |-> <<[k |-> "dict", s |-> <<66>>], [k |-> "text", b |-> 65]>>, ts |-> 5],
      [segs |-> <<[k |-> "int", x |-> -1]>>, ts |-> 5] }
=============================================================================
