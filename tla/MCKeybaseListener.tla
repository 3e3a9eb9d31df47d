------------------------- MODULE MCKeybaseListener -------------------------
(* Instances of KeybaseListener for TLC: two conversations, so that the      *)
(* second reading can fail after the first.                                  *)
EXTENDS KeybaseListener, TLC

CONSTANTS c1, c2, m1, m2, m3

(* Two messages in one conversation and one in another. *)
TwoAndOne == (m1 :> c1) @@ (m2 :> c1) @@ (m3 :> c2)
=============================================================================
