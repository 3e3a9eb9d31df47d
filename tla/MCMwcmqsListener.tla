-------------------------- MODULE MCMwcmqsListener --------------------------
(* Instances of MwcmqsListener for TLC: two sessions, so that one can be     *)
(* logged out by the other, and a good and a malformed message.              *)
EXTENDS MwcmqsListener
=============================================================================
