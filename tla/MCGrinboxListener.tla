------------------------- MODULE MCGrinboxListener -------------------------
(* Instances of GrinboxListener for TLC.  Width stands for the 64 bits: the  *)
(* retries pass it and go on.                                                *)
EXTENDS GrinboxListener
=============================================================================
