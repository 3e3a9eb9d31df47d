-------------------------- MODULE GrinboxListener --------------------------
(***************************************************************************)
(* The mwcmq (grinbox) listener: `listen -m` and `stop -m` of the REPL,    *)
(* and the thread GrinboxBroker::subscribe runs, which connects a          *)
(* websocket again and again, with longer and longer sleeps in between,    *)
(* until it finds `inner` empty.                                           *)
(*                                                                         *)
(* `inner` holds the Sender of a connection.  ws::connect puts it there    *)
(* before the handshake, and only `stop` and the end of subscribe take it  *)
(* away: between two connections it holds the Sender of the last one.      *)
(***************************************************************************)
EXTENDS Naturals

CONSTANTS
    MaxSessions,     \* how often `listen` starts a thread
    MaxRetries,      \* retries are counted up to here
    Width,           \* bits of the u64 that 2u64.pow(retries) is held in
    OverflowPanics,  \* TRUE: a debug build; FALSE: a release build
    NoSession        \* the REPL has no listener

Sessions == 1..MaxSessions

ASSUME BoundsAssumption ==
    MaxSessions \in Nat /\ MaxRetries \in Nat \ {0} /\ Width \in Nat \ {0}
ASSUME NoSessionAssumption == NoSession \notin Sessions
ASSUME BuildAssumption == OverflowPanics \in BOOLEAN

VARIABLES
    handle,      \* grinbox_broker of the REPL
    th,          \* th[x]: where the thread of session x is
    inner,       \* inner[x]: the broker's inner is Some
    retries,     \* ConnectionMetadata::retries
    connected,   \* ConnectionMetadata::connected_at_least_once
    subscribed,  \* the relay's challenge was answered on this connection
    announced,   \* what the handler last told the user of the connection
    stopped      \* sessions the user stopped

vars == <<handle, th, inner, retries, connected, subscribed, announced, stopped>>

Online == {"Open", "Slate"}
Alive == Online \cup {"Starting", "Connect", "Shake", "Returned", "Sleep"}

TypeOK ==
    /\ handle \in Sessions \cup {NoSession}
    /\ th \in [Sessions -> Alive \cup {"None", "Ended", "Dead"}]
    /\ inner \in [Sessions -> BOOLEAN]
    /\ retries \in [Sessions -> 0..MaxRetries]
    /\ connected \in [Sessions -> BOOLEAN]
    /\ subscribed \in [Sessions -> BOOLEAN]
    /\ announced \in [Sessions -> {"None", "Open", "Dropped", "Closed"}]
    /\ stopped \in SUBSET Sessions

Init ==
    /\ handle = NoSession
    /\ th = [x \in Sessions |-> "None"]
    /\ inner = [x \in Sessions |-> FALSE]
    /\ retries = [x \in Sessions |-> 0]
    /\ connected = [x \in Sessions |-> FALSE]
    /\ subscribed = [x \in Sessions |-> FALSE]
    /\ announced = [x \in Sessions |-> "None"]
    /\ stopped = {}

-----------------------------------------------------------------------------
(* The REPL. *)

IsRunning == handle # NoSession /\ inner[handle]

Listen(x) ==
    /\ ~IsRunning
    /\ th[x] = "None"
    /\ \A y \in Sessions : y < x => th[y] # "None"
    /\ handle' = x
    /\ th' = [th EXCEPT ![x] = "Starting"]
    /\ UNCHANGED <<inner, retries, connected, subscribed, announced, stopped>>

(* The connection, if there is one, is asked to close; inner is cleared and
   the handle dropped.  Nobody waits for the thread. *)
Stop ==
    /\ IsRunning
    /\ inner' = [inner EXCEPT ![handle] = FALSE]
    /\ stopped' = stopped \cup {handle}
    /\ handle' = NoSession
    /\ UNCHANGED <<th, retries, connected, subscribed, announced>>

-----------------------------------------------------------------------------
(* The listener thread of session x. *)

At(x, from, to) ==
    /\ th[x] = from
    /\ th' = [th EXCEPT ![x] = to]

Subscribe(x) ==
    /\ At(x, "Starting", "Connect")
    /\ UNCHANGED <<handle, inner, retries, connected, subscribed, announced, stopped>>

(* ws::connect calls the factory, which stores the new Sender, whatever inner
   held ... *)
Connect(x) ==
    /\ At(x, "Connect", "Shake")
    /\ inner' = [inner EXCEPT ![x] = TRUE]
    /\ subscribed' = [subscribed EXCEPT ![x] = FALSE]
    /\ UNCHANGED <<handle, retries, connected, announced, stopped>>

(* ... or fails before that: the name of the relay is not resolved. *)
ConnectFails(x) ==
    /\ At(x, "Connect", "Returned")
    /\ UNCHANGED <<handle, inner, retries, connected, subscribed, announced, stopped>>

(* Mutant: retries go on counting after a connection. *)
OnOpenNoReset(x) ==
    /\ At(x, "Shake", "Open")
    /\ announced' = [announced EXCEPT ![x] = "Open"]
    /\ connected' = [connected EXCEPT ![x] = TRUE]
    /\ UNCHANGED <<handle, inner, retries, subscribed, stopped>>

(* on_open: the handler's on_open the first time, on_reestablished later. *)
OnOpen(x) ==
    /\ At(x, "Shake", "Open")
    /\ announced' = [announced EXCEPT ![x] = "Open"]
    /\ connected' = [connected EXCEPT ![x] = TRUE]
    /\ retries' = [retries EXCEPT ![x] = 0]
    /\ UNCHANGED <<handle, inner, subscribed, stopped>>

(* A challenge: subscribe signs it; a send that fails is a panic. *)
OnChallenge(x) ==
    /\ \/ At(x, "Open", "Open")
       \/ At(x, "Open", "Dead")
    /\ subscribed' = [subscribed EXCEPT ![x] = TRUE]
    /\ UNCHANGED <<handle, inner, retries, connected, announced, stopped>>

(* A slate that can be decrypted goes to on_slate. *)
OnMessage(x) ==
    /\ subscribed[x]
    /\ At(x, "Open", "Slate")
    /\ UNCHANGED <<handle, inner, retries, connected, subscribed, announced, stopped>>

(* on_slate needs no reply, or the reply is posted; a broker stopped in the
   meantime, or a send that fails, is a panic in on_slate. *)
OnSlate(x) ==
    /\ \/ At(x, "Slate", "Open")
       \/ At(x, "Slate", "Dead")
    /\ UNCHANGED <<handle, inner, retries, connected, subscribed, announced, stopped>>

(* connect returns: the handshake failed, the connection broke, the relay
   closed it, or stop did. *)
ConnectReturns(x) ==
    /\ \/ At(x, "Shake", "Returned")
       \/ At(x, "Open", "Returned")
    /\ UNCHANGED <<handle, inner, retries, connected, subscribed, announced, stopped>>

(* 2u64.pow(retries) does not fit. *)
Overflows(x) == retries[x] >= Width

(* Mutant: the listener gives up after some retries. *)
IsStoppedGivesUp(x) ==
    /\ th[x] = "Returned"
    /\ ~inner[x] \/ retries[x] = MaxRetries
    /\ th' = [th EXCEPT ![x] = "Ended"]
    /\ announced' = [announced EXCEPT ![x] = "Closed"]
    /\ inner' = [inner EXCEPT ![x] = FALSE]
    /\ UNCHANGED <<handle, retries, connected, subscribed, stopped>>

(* inner is empty: on_close, and the end of subscribe. *)
IsStopped(x) ==
    /\ ~inner[x]
    /\ At(x, "Returned", "Ended")
    /\ announced' = [announced EXCEPT ![x] = "Closed"]
    /\ UNCHANGED <<handle, inner, retries, connected, subscribed, stopped>>

(* Mutant: the loop goes round without looking at inner. *)
BackOffAlways(x) ==
    /\ At(x, "Returned", IF OverflowPanics /\ Overflows(x) THEN "Dead" ELSE "Sleep")
    /\ announced' = IF retries[x] = 0 /\ connected[x]
                    THEN [announced EXCEPT ![x] = "Dropped"] ELSE announced
    /\ UNCHANGED <<handle, inner, retries, connected, subscribed, stopped>>

(* inner is not: the user is told of the first loss, and the thread sleeps
   for min(32, 2^retries) seconds, or panics computing them. *)
BackOff(x) ==
    /\ inner[x]
    /\ At(x, "Returned", IF OverflowPanics /\ Overflows(x) THEN "Dead" ELSE "Sleep")
    /\ announced' = IF retries[x] = 0 /\ connected[x]
                    THEN [announced EXCEPT ![x] = "Dropped"] ELSE announced
    /\ UNCHANGED <<handle, inner, retries, connected, subscribed, stopped>>

(* After the sleep inner is not looked at again. *)
Retry(x) ==
    /\ At(x, "Sleep", "Connect")
    /\ retries' = [retries EXCEPT ![x] = IF @ < MaxRetries THEN @ + 1 ELSE @]
    /\ UNCHANGED <<handle, inner, connected, subscribed, announced, stopped>>

-----------------------------------------------------------------------------
ThreadStep(x) ==
    \/ Subscribe(x) \/ Connect(x) \/ ConnectFails(x) \/ OnOpen(x)
    \/ OnChallenge(x) \/ OnMessage(x) \/ OnSlate(x) \/ ConnectReturns(x)
    \/ IsStopped(x) \/ BackOff(x) \/ Retry(x)

Next ==
    \/ Stop
    \/ \E x \in Sessions : Listen(x) \/ ThreadStep(x)

Spec == Init /\ [][Next]_vars

(* The thread runs, a connection attempt ends, the relay is reachable again
   and again, and a connection that was asked to close does. *)
Fairness ==
    \A x \in Sessions :
        /\ WF_vars(ThreadStep(x))
        /\ SF_vars(~inner[x] /\ ConnectReturns(x))
        /\ SF_vars(Connect(x))
        /\ SF_vars(OnOpen(x))

FairSpec == Spec /\ Fairness

-----------------------------------------------------------------------------
(* Properties. *)

(* What on_open, on_dropped and on_reestablished told the user is the state of
   the connection: the loss of every connection is announced, once, and so is
   its return, however long the relay was away. *)
ConnectionAnnounced ==
    \A x \in Sessions :
        /\ th[x] \in Online => announced[x] = "Open"
        /\ th[x] = "Sleep" /\ connected[x] => announced[x] = "Dropped"

(* The strengthening of ConnectionAnnounced that every step preserves: retries
   is 0 exactly from on_open to the first sleep after it. *)
AnnounceInv ==
    /\ TypeOK
    /\ ConnectionAnnounced
    /\ \A x \in Sessions :
          /\ th[x] \in Online => connected[x] /\ retries[x] = 0
          /\ th[x] \in {"None", "Starting"} => ~connected[x]
          /\ th[x] \in {"Connect", "Shake"} /\ connected[x] =>
                retries[x] > 0 /\ announced[x] = "Dropped"
          /\ th[x] = "Returned" /\ connected[x] =>
                retries[x] = 0 \/ announced[x] = "Dropped"

(* "lost connection. it will keep trying to restore connection in the
   background" (main.rs:422): a release build does so until the connection is
   back or the user stops the listener. *)
KeepsTrying ==
    \A x \in Sessions :
        (th[x] \in Alive /\ announced[x] = "Dropped")
            ~> (announced[x] = "Open" \/ x \in stopped)

(* "stops the slate listener" (cli/parser.rs:222), the first step of switching
   to another address (docs/usage.md:418): a stop that falls into a connection,
   or before the loop has looked for it, ends the thread for good, whatever
   arrives in the meantime.  One that falls into the sleep, or before connect
   stores its Sender, is not looked for by the code and not claimed here. *)
StopEndsConnection ==
    \A x \in Sessions :
        (th[x] \in Online \cup {"Shake", "Returned"} /\ ~inner[x]) ~> th[x] \in {"Ended", "Dead"}
=============================================================================
