---------------------------- MODULE MCDirectory ----------------------------
(* Instances of Directory for TLC: three names of two bytes, zero-padded;   *)
(* the first is one byte long, as "." is, the second fills its two bytes.   *)
EXTENDS Directory

MCNames == << <<1, 0>>, <<2, 3>>, <<4, 0>> >>
=============================================================================
