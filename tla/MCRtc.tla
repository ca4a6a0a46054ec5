------------------------------- MODULE MCRtc -------------------------------
(* Instances of Rtc for TLC.                                                *)
EXTENDS Rtc
=============================================================================
