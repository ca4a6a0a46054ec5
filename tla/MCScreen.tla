------------------------------ MODULE MCScreen ------------------------------
(* Instances of Screen for TLC: two rows of two, and as in the code a page  *)
(* that ends in the middle of the row after the last.                       *)
EXTENDS Screen

MCFaultText == <<"!">>
=============================================================================
