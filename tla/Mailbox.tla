------------------------------ MODULE Mailbox ------------------------------
(***************************************************************************)
(* What the mwcmqs relay and a listening wallet promise those who send     *)
(* slates, without sessions, polls, batches, acknowledgements or crashes:  *)
(* a slate is kept until the wallet has looked at it, one that was         *)
(* received stays received, and only received slates are answered.         *)
(* MwcmqsListener implements this specification.                           *)
(***************************************************************************)
CONSTANT Slates

VARIABLES
    state,   \* state[s]: what has become of slate s
    kept     \* the slates the relay keeps

vars == <<state, kept>>

Init ==
    /\ state = [s \in Slates |-> "Unsent"]
    /\ kept = {}

Becomes(s, new) == state' = [state EXCEPT ![s] = new]

Send(s) ==
    /\ state[s] = "Unsent"
    /\ Becomes(s, "Waiting")
    /\ kept' = kept \cup {s}

(* The wallet cannot read the slate, or is locked. *)
Refuse(s) ==
    /\ state[s] = "Waiting"
    /\ Becomes(s, "Refused")
    /\ UNCHANGED kept

(* A slate that was refused may be delivered once more. *)
Receive(s) ==
    /\ state[s] \in {"Waiting", "Refused"}
    /\ Becomes(s, "Received")
    /\ UNCHANGED kept

(* The sender can fetch the answer; there is no second one. *)
Answer(s) ==
    /\ state[s] = "Received"
    /\ Becomes(s, "Answered")
    /\ UNCHANGED kept

(* The relay deletes no slate the wallet has not looked at. *)
Delete(S) ==
    /\ \A s \in S : state[s] # "Waiting"
    /\ kept' = kept \ S
    /\ UNCHANGED state

Next ==
    \/ \E s \in Slates : Send(s) \/ Refuse(s) \/ Receive(s) \/ Answer(s)
    \/ \E S \in SUBSET kept : Delete(S)

Spec == Init /\ [][Next]_vars
=============================================================================
