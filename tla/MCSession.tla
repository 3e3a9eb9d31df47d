------------------------------ MODULE MCSession ------------------------------
(* Two seeds, two data paths and two address indexes: a seed, a path and   *)
(* an index that are not the current one.                                  *)
EXTENDS Session
=============================================================================
