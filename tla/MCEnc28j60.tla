----------------------------- MODULE MCEnc28j60 -----------------------------
(***************************************************************************)
(* Small instances of Enc28j60: a ring of 16 bytes for frames that take 4, *)
(* 6 or 8 of them, so that it holds two of the largest, as the real one.   *)
(***************************************************************************)
EXTENDS Enc28j60

MCSizes == {2, 3, 6}
MCFrames == {"a", "b"}
=============================================================================
