------------------------------ MODULE MCFraming ------------------------------
(***************************************************************************)
(* Messages of 0, 2 and 3 bytes, the last one too large, with a prefix of  *)
(* 2 bytes, in chunks of up to 5: a chunk may hold part of a prefix, or    *)
(* the end of one frame and the beginning of the next.                     *)
(***************************************************************************)
EXTENDS Framing

MCLengths == {0, 2, 3}
=============================================================================
