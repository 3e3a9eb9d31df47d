-------------------------- MODULE MCSlateExchange --------------------------
(* Instances of SlateExchange for TLC.  Slates of one kind, outputs and      *)
(* command threads are interchangeable.                                      *)
EXTENDS SlateExchange, TLC

Symmetry ==
    Permutations(Sends) \cup Permutations(Outputs) \cup Permutations(Threads)
=============================================================================
