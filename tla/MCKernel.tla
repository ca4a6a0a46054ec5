------------------------------ MODULE MCKernel ------------------------------
(* Instances of Kernel for TLC.  The slots and the terminals are numbered  *)
(* and scanned in order, so there is no symmetry to use.                   *)
EXTENDS Kernel
=============================================================================
