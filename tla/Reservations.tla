---------------------------- MODULE Reservations ----------------------------
(***************************************************************************)
(* What the wallet promises about its outputs, without threads, mutexes,   *)
(* slates in transit or a node: a transaction reserves outputs nobody else *)
(* has reserved, and keeps them until it is cancelled.                     *)
(* SlateExchange implements this specification.                            *)
(***************************************************************************)
CONSTANTS
    Slates,     \* transactions, by slate id
    Outputs     \* the wallet's outputs

VARIABLES
    held,       \* held[s]: the outputs transaction s has reserved
    closed      \* transactions that were cancelled

vars == <<held, closed>>

Init ==
    /\ held = [s \in Slates |-> {}]
    /\ closed = {}

(* A transaction reserves outputs that are free of every other reservation. *)
Reserve(s, I) ==
    /\ s \notin closed
    /\ held[s] = {}
    /\ \A r \in Slates : held[r] \cap I = {}
    /\ held' = [held EXCEPT ![s] = I]
    /\ UNCHANGED closed

(* Cancelling gives the outputs back; the transaction never reserves again. *)
Release(s) ==
    /\ s \notin closed
    /\ held' = [held EXCEPT ![s] = {}]
    /\ closed' = closed \cup {s}

Next ==
    \E s \in Slates :
        \/ \E I \in SUBSET Outputs : Reserve(s, I)
        \/ Release(s)

Spec == Init /\ [][Next]_vars
=============================================================================
