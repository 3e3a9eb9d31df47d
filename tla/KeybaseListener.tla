-------------------------- MODULE KeybaseListener --------------------------
(***************************************************************************)
(* The keybase listener: `listen -k` and `stop -k` of the REPL, and the    *)
(* thread KeybaseSubscriber::start runs, which asks the keybase client     *)
(* every five seconds for unread messages.                                 *)
(*                                                                         *)
(* get_unread lists the conversations with unread messages and reads them  *)
(* one after the other.  Reading (peek: false) marks the messages as read, *)
(* so nobody is given them a second time.                                  *)
(***************************************************************************)
EXTENDS Naturals, Sequences, FiniteSets

CONSTANTS
    MaxSessions,  \* how often `listen` starts a thread
    Channels,     \* conversations
    Messages,     \* slates sent to this account
    In,           \* In[m]: the conversation of m
    Garbled,      \* messages Slate::deserialize_upgrade refuses
    NoSession     \* the REPL has no listener

Sessions == 1..MaxSessions

ASSUME SessionsAssumption == MaxSessions \in Nat /\ NoSession \notin Sessions
ASSUME MessagesAssumption ==
    /\ IsFiniteSet(Messages)
    /\ In \in [Messages -> Channels]
    /\ Garbled \subseteq Messages

VARIABLES
    handle,      \* keybase_broker of the REPL
    th,          \* th[x]: where the thread of session x is
    stopSignal,  \* KeybaseSubscriber::stop_signal
    subscribed,  \* subscribed, dropped of start
    dropped,
    channels,    \* channels[x]: conversations get_unread has still to read
    unread,      \* unread[x]: what get_unread has read, then what is to handle
    mail,        \* mail: "None" (not sent), "Unread", "Read"
    handled,     \* handled[m]: how often on_slate got m
    stopped      \* sessions the user stopped

replVars    == <<handle, stopped>>
sessionVars == <<th, stopSignal, subscribed, dropped, channels, unread>>
mailVars    == <<mail, handled>>
vars == <<replVars, sessionVars, mailVars>>

Alive == {"Starting", "Loop", "Read", "Handle", "Reply", "Sleep"}

TypeOK ==
    /\ handle \in Sessions \cup {NoSession}
    /\ th \in [Sessions -> Alive \cup {"None", "Ended", "Dead"}]
    /\ stopSignal \in [Sessions -> BOOLEAN]
    /\ subscribed \in [Sessions -> BOOLEAN]
    /\ dropped \in [Sessions -> BOOLEAN]
    /\ channels \in [Sessions -> SUBSET Channels]
    /\ unread \in [Sessions -> Seq(Messages)]
    /\ mail \in [Messages -> {"None", "Unread", "Read"}]
    /\ handled \in [Messages -> Nat]
    /\ stopped \in SUBSET Sessions

Init ==
    /\ handle = NoSession
    /\ th = [x \in Sessions |-> "None"]
    /\ stopSignal = [x \in Sessions |-> TRUE]
    /\ subscribed = [x \in Sessions |-> FALSE]
    /\ dropped = [x \in Sessions |-> FALSE]
    /\ channels = [x \in Sessions |-> {}]
    /\ unread = [x \in Sessions |-> <<>>]
    /\ mail = [m \in Messages |-> "None"]
    /\ handled = [m \in Messages |-> 0]
    /\ stopped = {}

-----------------------------------------------------------------------------
(* The REPL. *)

IsRunning == handle # NoSession /\ ~stopSignal[handle]

Listen(x) ==
    /\ ~IsRunning
    /\ th[x] = "None"
    /\ \A y \in Sessions : y < x => th[y] # "None"
    /\ handle' = x
    /\ th' = [th EXCEPT ![x] = "Starting"]
    /\ UNCHANGED <<stopped, stopSignal, subscribed, dropped, channels, unread, mailVars>>

Stop ==
    /\ IsRunning
    /\ stopSignal' = [stopSignal EXCEPT ![handle] = TRUE]
    /\ stopped' = stopped \cup {handle}
    /\ handle' = NoSession
    /\ UNCHANGED <<th, subscribed, dropped, channels, unread, mailVars>>

-----------------------------------------------------------------------------
(* The listener thread of session x. *)

At(x, from, to) ==
    /\ th[x] = from
    /\ th' = [th EXCEPT ![x] = to]

Start(x) ==
    /\ At(x, "Starting", "Loop")
    /\ stopSignal' = [stopSignal EXCEPT ![x] = FALSE]
    /\ UNCHANGED <<replVars, subscribed, dropped, channels, unread, mailVars>>

LeaveLoop(x) ==
    /\ stopSignal[x]
    /\ At(x, "Loop", "Ended")
    /\ UNCHANGED <<replVars, stopSignal, subscribed, dropped, channels, unread, mailVars>>

HasUnread(c) == \E m \in Messages : In[m] = c /\ mail[m] = "Unread"

(* Mutant: the loop goes on whatever the signal says. *)
ListConversationsAlways(x) ==
    /\ At(x, "Loop", "Read")
    /\ stopSignal' = [stopSignal EXCEPT ![x] = FALSE]
    /\ channels' = [channels EXCEPT ![x] = {c \in Channels : HasUnread(c)}]
    /\ UNCHANGED <<replVars, subscribed, dropped, unread, mailVars>>

(* The conversations with something unread. *)
ListConversations(x) ==
    /\ ~stopSignal[x]
    /\ At(x, "Loop", "Read")
    /\ channels' = [channels EXCEPT ![x] = {c \in Channels : HasUnread(c)}]
    /\ UNCHANGED <<replVars, stopSignal, subscribed, dropped, unread, mailVars>>

(* The unread messages of one conversation, in some order. *)
InSomeOrder(S) ==
    {q \in [1..Cardinality(S) -> S] : \A i, j \in DOMAIN q : q[i] = q[j] => i = j}

(* Mutant: messages are looked at and stay unread (peek: true). *)
ReadFromChannelPeeks(x) ==
    /\ th[x] = "Read"
    /\ \E c \in channels[x] :
          /\ channels' = [channels EXCEPT ![x] = @ \ {c}]
          /\ \E q \in InSomeOrder({m \in Messages : In[m] = c /\ mail[m] = "Unread"}) :
                unread' = [unread EXCEPT ![x] = @ \o q]
    /\ UNCHANGED <<replVars, th, stopSignal, subscribed, dropped, mailVars>>

ReadFromChannel(x) ==
    /\ th[x] = "Read"
    /\ \E c \in channels[x] :
          LET fresh == {m \in Messages : In[m] = c /\ mail[m] = "Unread"} IN
          /\ channels' = [channels EXCEPT ![x] = @ \ {c}]
          /\ \E q \in InSomeOrder(fresh) : unread' = [unread EXCEPT ![x] = @ \o q]
          /\ mail' = [m \in Messages |-> IF m \in fresh THEN "Read" ELSE mail[m]]
    /\ UNCHANGED <<replVars, th, stopSignal, subscribed, dropped, handled>>

(* get_unread returns Ok: on_open the first time, on_reestablished after a
   failure. *)
GotUnread(x) ==
    /\ channels[x] = {}
    /\ At(x, "Read", "Handle")
    /\ subscribed' = [subscribed EXCEPT ![x] = TRUE]
    /\ dropped' = [dropped EXCEPT ![x] = FALSE]
    /\ UNCHANGED <<replVars, stopSignal, channels, unread, mailVars>>

(* The listing or one of the readings fails: what was read before is gone.
   Before the first success this ends the listener, which leaves stop_signal
   as it is; later the user is told once, and the loop goes on.  Without an
   answer of the keybase process, expect("No output") ends the thread. *)
GetUnreadFails(x) ==
    /\ th[x] = "Read" \/ (th[x] = "Loop" /\ ~stopSignal[x])
    /\ \/ /\ subscribed[x]
          /\ th' = [th EXCEPT ![x] = "Sleep"]
       \/ /\ ~subscribed[x]
          /\ th' = [th EXCEPT ![x] = "Ended"]
       \/ th' = [th EXCEPT ![x] = "Dead"]
    /\ dropped' = [dropped EXCEPT ![x] = TRUE]
    /\ channels' = [channels EXCEPT ![x] = {}]
    /\ unread' = [unread EXCEPT ![x] = <<>>]
    /\ UNCHANGED <<replVars, stopSignal, subscribed, mailVars>>

(* A message that is no slate: the ? leaves start, whose error is a panic of
   the thread. *)
DeserializeFails(x) ==
    /\ unread[x] # <<>> /\ Head(unread[x]) \in Garbled
    /\ At(x, "Handle", "Dead")
    /\ UNCHANGED <<replVars, stopSignal, subscribed, dropped, channels, unread, mailVars>>

(* on_slate, which has something to reply or not. *)
OnSlate(x) ==
    /\ unread[x] # <<>> /\ Head(unread[x]) \notin Garbled
    /\ \/ At(x, "Handle", "Handle")
       \/ At(x, "Handle", "Reply")
    /\ handled' = [handled EXCEPT ![Head(unread[x])] = @ + 1]
    /\ unread' = [unread EXCEPT ![x] = Tail(@)]
    /\ UNCHANGED <<replVars, stopSignal, subscribed, dropped, channels, mail>>

(* The reply is sent by a keybase process of its own; an error is a panic. *)
Reply(x) ==
    /\ \/ At(x, "Reply", "Handle")
       \/ At(x, "Reply", "Dead")
    /\ UNCHANGED <<replVars, stopSignal, subscribed, dropped, channels, unread, mailVars>>

BatchDone(x) ==
    /\ unread[x] = <<>>
    /\ At(x, "Handle", "Sleep")
    /\ UNCHANGED <<replVars, stopSignal, subscribed, dropped, channels, unread, mailVars>>

Wake(x) ==
    /\ At(x, "Sleep", "Loop")
    /\ UNCHANGED <<replVars, stopSignal, subscribed, dropped, channels, unread, mailVars>>

(* Someone sends a slate. *)
Send(m) ==
    /\ mail[m] = "None"
    /\ mail' = [mail EXCEPT ![m] = "Unread"]
    /\ UNCHANGED <<replVars, sessionVars, handled>>

-----------------------------------------------------------------------------
ThreadStep(x) ==
    \/ Start(x) \/ LeaveLoop(x) \/ ListConversations(x) \/ ReadFromChannel(x)
    \/ GotUnread(x) \/ GetUnreadFails(x) \/ DeserializeFails(x) \/ OnSlate(x)
    \/ Reply(x) \/ BatchDone(x) \/ Wake(x)

Next ==
    \/ Stop
    \/ \E x \in Sessions : Listen(x) \/ ThreadStep(x)
    \/ \E m \in Messages : Send(m)

Spec == Init /\ [][Next]_vars

(* The thread runs, and the keybase processes it waits for end. *)
FairSpec == Spec /\ \A x \in Sessions : WF_vars(ThreadStep(x))

-----------------------------------------------------------------------------
(* Properties. *)

(* No slate is handed to the wallet twice, although `listen` may start a
   second thread before the first has set stop_signal, and a stopped thread
   goes on to the end of its batch while a new one is polling. *)
HandledOnce == \A m \in Messages : handled[m] <= 1

(* A thread that was stopped comes to its end: no session sets its stop_signal
   back, and no error path skips the check. *)
StopTakesEffect ==
    \A x \in Sessions : x \in stopped ~> th[x] \notin Alive
=============================================================================
