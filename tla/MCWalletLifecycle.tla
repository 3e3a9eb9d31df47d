------------------------- MODULE MCWalletLifecycle -------------------------
(* Instances of WalletLifecycle for TLC.  Two backends are enough: the one   *)
(* being closed and the one being opened.                                    *)
EXTENDS WalletLifecycle
=============================================================================
