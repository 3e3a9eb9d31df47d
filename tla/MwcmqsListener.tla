--------------------------- MODULE MwcmqsListener ---------------------------
(***************************************************************************)
(* The mwcmqs listener: `listen` and `stop` of the REPL, the listener      *)
(* thread that MWCMQSBroker::subscribe runs, and the relay it polls.       *)
(*                                                                         *)
(* Every `listen` makes a session of its own: a publisher and a subscriber *)
(* that share one `inner` flag, and a thread that polls the relay with a   *)
(* long GET.  The GET names, in delTo, the last message of the batch       *)
(* before it; the relay then deletes what was fetched.  A message stays in *)
(* the relay until that happens, and is fetched again otherwise.           *)
(***************************************************************************)
EXTENDS Naturals

CONSTANTS
    MaxSessions,   \* how often `listen` starts a thread
    MaxMessages,   \* how many slates are sent to this wallet
    Malformed,     \* messages subscribe cannot take apart: is_error
    Undecodable,   \* messages TxProof::from_response refuses
    NoSession,     \* the REPL has no listener
    Crashes        \* TRUE: the process may die and be started again

Sessions == 1..MaxSessions
Messages == 1..MaxMessages

ASSUME BoundsAssumption == MaxSessions \in Nat /\ MaxMessages \in Nat
ASSUME KindsAssumption ==
    /\ Malformed \subseteq Messages
    /\ Undecodable \subseteq Messages
    /\ Malformed \cap Undecodable = {}
ASSUME NoSessionAssumption == NoSession \notin Sessions
ASSUME CrashesAssumption == Crashes \in BOOLEAN

VARIABLES
    handle,    \* mwcmqs_broker of the REPL: the session it can talk to
    cli,       \* "Idle", or between stop's POST and broker.stop()
    locked,    \* Wallet::backend is None
    lockedUnder, \* the wallet was locked with a listener's thread alive
    th,        \* th[x]: where the thread of session x is
    inner,     \* inner[x]: the broker's inner is Some
    err,       \* err[x]: is_error of the polling loop
    first,     \* first[x]: the first GET (first=true) is still to come
    delTo,     \* delTo[x]: last message id in url, 0 for nil
    batch,     \* batch[x]: messages fetched and not yet handled
    sent,      \* how many messages were sent to this address
    mail,      \* messages the relay keeps for it
    login,     \* the session the relay knows as the listener
    note,      \* note[x]: control answers waiting for session x
    outcome,   \* outcome[m]: what on_slate did with message m
    replied    \* messages whose answer was accepted by the relay

replVars    == <<handle, cli, locked, lockedUnder>>
sessionVars == <<th, inner, err, first, delTo, batch>>
relayVars   == <<sent, mail, login, note>>
walletVars  == <<outcome, replied>>
vars == <<replVars, sessionVars, relayVars, walletVars>>

Alive == {"Starting", "Time", "Loop", "Wait", "Process", "Reply"}
Places == Alive \cup {"None", "Ended", "Dead"}

(* "Dropped": not a slate, or refused; "NoWallet": the wallet was locked. *)
Outcomes == {"None", "Received", "Dropped", "NoWallet"}

TypeOK ==
    /\ handle \in Sessions \cup {NoSession}
    /\ cli \in {"Idle", "StopOk", "StopFailed"}
    /\ locked \in BOOLEAN /\ lockedUnder \in BOOLEAN
    /\ th \in [Sessions -> Places]
    /\ inner \in [Sessions -> BOOLEAN]
    /\ err \in [Sessions -> BOOLEAN]
    /\ first \in [Sessions -> BOOLEAN]
    /\ delTo \in [Sessions -> 0..MaxMessages]
    /\ batch \in [Sessions -> SUBSET Messages]
    /\ sent \in 0..MaxMessages
    /\ mail \in SUBSET Messages
    /\ login \in Sessions \cup {NoSession}
    /\ note \in [Sessions -> SUBSET {"nil", "close"}]
    /\ outcome \in [Messages -> Outcomes]
    /\ replied \in SUBSET Messages

Init ==
    /\ handle = NoSession
    /\ cli = "Idle"
    /\ locked = FALSE /\ lockedUnder = FALSE
    /\ th = [x \in Sessions |-> "None"]
    /\ inner = [x \in Sessions |-> FALSE]
    /\ err = [x \in Sessions |-> FALSE]
    /\ first = [x \in Sessions |-> TRUE]
    /\ delTo = [x \in Sessions |-> 0]
    /\ batch = [x \in Sessions |-> {}]
    /\ sent = 0
    /\ mail = {}
    /\ login = NoSession
    /\ note = [x \in Sessions |-> {}]
    /\ outcome = [m \in Messages |-> "None"]
    /\ replied = {}

-----------------------------------------------------------------------------
(* The REPL. *)

IsRunning == handle # NoSession /\ inner[handle]

(* Mutant: a listener is started on a locked wallet. *)
ListenLocked(x) ==
    /\ cli = "Idle"
    /\ ~IsRunning
    /\ th[x] = "None"
    /\ \A y \in Sessions : y < x => th[y] # "None"
    /\ handle' = x
    /\ th' = [th EXCEPT ![x] = "Starting"]
    /\ UNCHANGED <<cli, locked, lockedUnder, inner, err, first, delTo, batch, relayVars,
                   walletVars>>

(* `listen -s`: a locked wallet is first unlocked with an empty passphrase.
   The thread sets inner only when it runs. *)
Listen(x) ==
    /\ cli = "Idle"
    /\ ~IsRunning
    /\ th[x] = "None"
    /\ \A y \in Sessions : y < x => th[y] # "None"
    /\ locked' = FALSE
    /\ handle' = x
    /\ th' = [th EXCEPT ![x] = "Starting"]
    /\ UNCHANGED <<cli, lockedUnder, inner, err, first, delTo, batch, relayVars, walletVars>>

(* `stop -s` posts a nil message to the own address, for at most 60 s ... *)
StopPost ==
    /\ cli = "Idle"
    /\ IsRunning
    /\ \/ /\ cli' = "StopOk"
          /\ note' = IF login = NoSession THEN note
                     ELSE [note EXCEPT ![login] = @ \cup {"nil"}]
       \/ /\ cli' = "StopFailed"
          /\ UNCHANGED note
    /\ UNCHANGED <<handle, locked, lockedUnder, sessionVars, sent, mail, login, walletVars>>

(* ... and then clears inner; after a failed POST the handle is kept. *)
StopInner ==
    /\ cli # "Idle"
    /\ inner' = [inner EXCEPT ![handle] = FALSE]
    /\ handle' = IF cli = "StopOk" THEN NoSession ELSE handle
    /\ cli' = "Idle"
    /\ UNCHANGED <<locked, lockedUnder, th, err, first, delTo, batch, relayVars, walletVars>>

(* `lock`: refused while a grinbox or keybase listener has a handle; the
   mwcmqs one is not asked for. *)
Lock ==
    /\ cli = "Idle"
    /\ ~locked
    /\ locked' = TRUE
    /\ lockedUnder' = (lockedUnder \/ \E x \in Sessions : th[x] \in Alive)
    /\ UNCHANGED <<handle, cli, sessionVars, relayVars, walletVars>>

Unlock ==
    /\ cli = "Idle"
    /\ locked
    /\ locked' = FALSE
    /\ UNCHANGED <<handle, cli, lockedUnder, sessionVars, relayVars, walletVars>>

-----------------------------------------------------------------------------
(* The listener thread of session x. *)

Goto(x, place) == th' = [th EXCEPT ![x] = place]

(* The locals of subscribe are gone with its thread. *)
DropLocals(x) ==
    /\ err' = [err EXCEPT ![x] = FALSE]
    /\ first' = [first EXCEPT ![x] = TRUE]
    /\ delTo' = [delTo EXCEPT ![x] = 0]
    /\ batch' = [batch EXCEPT ![x] = {}]

(* The end of subscribe: inner becomes None. *)
End(x) ==
    /\ Goto(x, "Ended")
    /\ inner' = [inner EXCEPT ![x] = FALSE]
    /\ DropLocals(x)

Subscribe(x) ==
    /\ th[x] = "Starting"
    /\ Goto(x, "Time")
    /\ inner' = [inner EXCEPT ![x] = TRUE]
    /\ UNCHANGED <<replVars, err, first, delTo, batch, relayVars, walletVars>>

(* The relay's clock is asked for once; without it the listener gives up. *)
TimeNow(x) ==
    /\ th[x] = "Time"
    /\ \/ Goto(x, "Loop") /\ UNCHANGED <<inner, err, first, delTo, batch>>
       \/ End(x)
    /\ UNCHANGED <<replVars, relayVars, walletVars>>

(* Top of the loop: leave it after an error or a stop ... *)
LeaveLoop(x) ==
    /\ th[x] = "Loop"
    /\ err[x] \/ ~inner[x]
    /\ End(x)
    /\ UNCHANGED <<replVars, relayVars, walletVars>>

(* Mutant: the next GET is sent without looking whether inner was cleared. *)
SendGetUnchecked(x) ==
    /\ th[x] = "Loop"
    /\ ~err[x]
    /\ Goto(x, "Wait")
    /\ first' = [first EXCEPT ![x] = FALSE]
    /\ mail' = {m \in mail : m > delTo[x]}
    /\ UNCHANGED <<replVars, inner, err, delTo, batch, sent, login, note, walletVars>>

(* ... or send the GET.  The relay deletes up to delTo; a first GET is a new
   login, of which it tells the session that was logged in before. *)
SendGet(x) ==
    /\ th[x] = "Loop"
    /\ ~err[x] /\ inner[x]
    /\ Goto(x, "Wait")
    /\ first' = [first EXCEPT ![x] = FALSE]
    /\ mail' = {m \in mail : m > delTo[x]}
    /\ IF first[x]
       THEN /\ login' = x
            /\ note' = IF login = NoSession THEN note
                       ELSE [note EXCEPT ![login] = @ \cup {"close"}]
       ELSE UNCHANGED <<login, note>>
    /\ UNCHANGED <<replVars, inner, err, delTo, batch, sent, walletVars>>

(* The GET does not reach the relay: sleep and go round.  Without an HTTP
   client there is nothing to go round for. *)
SendGetFails(x) ==
    /\ th[x] = "Loop"
    /\ ~err[x] /\ inner[x]
    /\ first' = [first EXCEPT ![x] = FALSE]
    /\ \/ UNCHANGED err
       \/ err' = [err EXCEPT ![x] = TRUE]
    /\ UNCHANGED <<replVars, th, inner, delTo, batch, relayVars, walletVars>>

UpTo(n) == {m \in mail : m <= n}

(* The messages of a batch come, and are handled, in the order of their ids. *)
First(x) == {m \in batch[x] : \A k \in batch[x] : m <= k}

(* Mutant: a fetched batch is acknowledged before it is handled. *)
GetMessagesAcksEarly(x) ==
    /\ th[x] = "Wait"
    /\ \E n \in mail :
          /\ delTo' = [delTo EXCEPT ![x] = n]
          /\ batch' = [batch EXCEPT ![x] = UpTo(n)]
          /\ mail' = {m \in mail : m > n}
    /\ Goto(x, "Process")
    /\ UNCHANGED <<replVars, inner, err, first, sent, login, note, walletVars>>

(* A single message or a messagelist; each message id goes into url.  A
   closenewlogin line ends the reading of the list, and no more than that; a
   line without a message id is an error, and the others are handled. *)
GetMessages(x) ==
    /\ th[x] = "Wait"
    /\ \E n \in mail :
          /\ delTo' = [delTo EXCEPT ![x] = n]
          /\ batch' = [batch EXCEPT ![x] = UpTo(n)]
    /\ \/ UNCHANGED note
       \/ /\ "close" \in note[x]
                /\ note' = [note EXCEPT ![x] = @ \ {"close"}]
    /\ err' \in {err, [err EXCEPT ![x] = TRUE]}
    /\ Goto(x, "Process")
    /\ UNCHANGED <<replVars, inner, first, sent, mail, login, walletVars>>

(* "message: closenewlogin" alone ends the listener. *)
GetClose(x) ==
    /\ th[x] = "Wait"
    /\ "close" \in note[x]
    /\ note' = [note EXCEPT ![x] = @ \ {"close"}]
    /\ End(x)
    /\ UNCHANGED <<replVars, sent, mail, login, walletVars>>

(* The nil message that stop posted. *)
GetNil(x) ==
    /\ th[x] = "Wait"
    /\ "nil" \in note[x]
    /\ note' = [note EXCEPT ![x] = @ \ {"nil"}]
    /\ Goto(x, "Loop")
    /\ UNCHANGED <<replVars, inner, err, first, delTo, batch, sent, mail,
                   login, walletVars>>

(* A timeout, a lost connection, a read error, an nginx page, a list of a
   closenewlogin line alone; or an answer without a message id, which is an
   error. *)
GetNothing(x) ==
    /\ th[x] = "Wait"
    /\ Goto(x, "Loop")
    /\ \/ UNCHANGED <<err, note>>
       \/ err' = [err EXCEPT ![x] = TRUE] /\ UNCHANGED note
       \/ note' = [note EXCEPT ![x] = @ \ {"close"}] /\ UNCHANGED err
    /\ UNCHANGED <<replVars, inner, first, delTo, batch, sent, mail, login, walletVars>>

(* Mutant: a slate the wallet has received is received once more. *)
HandleMessageAgain(x) ==
    /\ th[x] = "Process"
    /\ ~locked
    /\ \E m \in First(x) : outcome' = [outcome EXCEPT ![m] = "Received"]
    /\ Goto(x, "Reply")
    /\ UNCHANGED <<replVars, inner, err, first, delTo, batch, relayVars, replied>>

(* The thread is through with message m, which on_slate has not received. *)
Turned(x, m, why) ==
    /\ batch' = [batch EXCEPT ![x] = @ \ {m}]
    /\ outcome' = [outcome EXCEPT ![m] = IF @ = "None" THEN why ELSE @]
    /\ UNCHANGED th

(* A malformed message ends the session after the batch, one that cannot be
   decrypted is skipped. *)
SkipMessage(x, m) ==
    /\ m \in Malformed \cup Undecodable
    /\ Turned(x, m, "Dropped")
    /\ err' = [err EXCEPT ![x] = @ \/ m \in Malformed]
    /\ UNCHANGED <<locked, lockedUnder>>

(* set-recv could not open an account: unlock has locked the wallet. *)
UnlockFails == locked' = TRUE /\ lockedUnder' = TRUE

(* A wallet that is open, or opened by set-recv, receives a slate it does not
   know; an answer is to be posted. *)
ReceiveSlate(x, m) ==
    /\ outcome[m] # "Received"
    /\ outcome' = [outcome EXCEPT ![m] = "Received"]
    /\ Goto(x, "Reply")
    /\ locked' = FALSE
    /\ UNCHANGED <<batch, lockedUnder>>

(* Nothing is posted for a reply that was finalized, nor when set-recv, the
   slate received, cannot go back to the account before. *)
ReceiveSilently(x, m) ==
    /\ outcome[m] # "Received"
    /\ outcome' = [outcome EXCEPT ![m] = "Received"]
    /\ batch' = [batch EXCEPT ![x] = @ \ {m}]
    /\ \/ ~locked /\ UNCHANGED <<locked, lockedUnder>>
       \/ UnlockFails
    /\ UNCHANGED th

(* Such a wallet refuses: the slate is known, invoices are not accepted, a
   reply cannot be finalized, or receiving fails. *)
RefuseSlate(x, m) ==
    /\ Turned(x, m, "Dropped")
    /\ locked' = FALSE
    /\ UNCHANGED lockedUnder

(* There is no wallet: it was locked, or set-recv cannot open one. *)
FindNoWallet(x, m) ==
    /\ Turned(x, m, "NoWallet")
    /\ \/ locked /\ UNCHANGED <<locked, lockedUnder>>
       \/ UnlockFails

(* The message loop.  Whatever on_slate makes of a message, it counts as
   handled; an error is printed. *)
HandleMessage(x) ==
    /\ th[x] = "Process"
    /\ \E m \in First(x) :
          \/ SkipMessage(x, m)
          \/ /\ m \notin Malformed \cup Undecodable
             /\ \/ ReceiveSlate(x, m) \/ ReceiveSilently(x, m)
                \/ RefuseSlate(x, m) \/ FindNoWallet(x, m)
             /\ UNCHANGED err
    /\ UNCHANGED <<handle, cli, inner, first, delTo, relayVars, replied>>

(* closenewlogin under a message id: the rest of the batch is left. *)
CloseInBatch(x) ==
    /\ th[x] = "Process"
    /\ "close" \in note[x]
    /\ note' = [note EXCEPT ![x] = @ \ {"close"}]
    /\ End(x)
    /\ UNCHANGED <<replVars, sent, mail, login, walletVars>>

BatchDone(x) ==
    /\ th[x] = "Process"
    /\ batch[x] = {}
    /\ Goto(x, "Loop")
    /\ UNCHANGED <<replVars, inner, err, first, delTo, batch, relayVars, walletVars>>

(* Mutant: the answer is taken for one to the whole batch. *)
ReplyToBatch(x) ==
    /\ th[x] = "Reply"
    /\ inner[x]
    /\ replied' = replied \cup batch[x]
    /\ batch' = [batch EXCEPT ![x] = {}]
    /\ Goto(x, "Process")
    /\ UNCHANGED <<replVars, inner, err, first, delTo, relayVars, outcome>>

(* post_slate of the answer. *)
Reply(x) ==
    /\ th[x] = "Reply"
    /\ inner[x]
    /\ replied' = replied \cup First(x)
    /\ batch' = [batch EXCEPT ![x] = @ \ First(x)]
    /\ Goto(x, "Process")
    /\ UNCHANGED <<replVars, inner, err, first, delTo, relayVars, outcome>>

(* post_slate failed, possibly after the relay took the answer, or the broker
   was stopped: expect("failed posting slate!") ends the thread, and nothing
   clears inner. *)
ReplyPanics(x) ==
    /\ th[x] = "Reply"
    /\ \/ UNCHANGED replied
       \/ inner[x] /\ replied' = replied \cup First(x)
    /\ Goto(x, "Dead")
    /\ DropLocals(x)
    /\ UNCHANGED <<replVars, inner, relayVars, outcome>>

-----------------------------------------------------------------------------
(* Other wallets, and a restart of this one. *)

Send ==
    /\ sent < MaxMessages
    /\ sent' = sent + 1
    /\ mail' = mail \cup {sent + 1}
    /\ UNCHANGED <<replVars, sessionVars, login, note, walletVars>>

Restart ==
    /\ Crashes
    /\ \E x \in Sessions : th[x] \in Alive \cup {"Dead"}
    /\ handle' = NoSession
    /\ cli' = "Idle"
    /\ locked' \in BOOLEAN
    /\ th' = [x \in Sessions |-> IF th[x] = "None" THEN "None" ELSE "Ended"]
    /\ inner' = [x \in Sessions |-> FALSE]
    /\ err' = [x \in Sessions |-> FALSE]
    /\ first' = [x \in Sessions |-> TRUE]
    /\ delTo' = [x \in Sessions |-> 0]
    /\ batch' = [x \in Sessions |-> {}]
    /\ UNCHANGED <<lockedUnder, relayVars, walletVars>>

ThreadStep(x) ==
    \/ Subscribe(x) \/ TimeNow(x) \/ LeaveLoop(x) \/ SendGet(x) \/ SendGetFails(x)
    \/ GetMessages(x) \/ GetClose(x) \/ GetNil(x) \/ GetNothing(x)
    \/ HandleMessage(x) \/ CloseInBatch(x) \/ BatchDone(x) \/ Reply(x) \/ ReplyPanics(x)

Repl ==
    \/ StopPost \/ StopInner \/ Lock \/ Unlock
    \/ \E x \in Sessions : Listen(x)

Next ==
    \/ Repl
    \/ \E x \in Sessions : ThreadStep(x)
    \/ Send
    \/ Restart

Spec == Init /\ [][Next]_vars

(* Threads run, and a GET ends after 120 s and a POST after 60 s at the latest. *)
Fairness == \A x \in Sessions : WF_vars(ThreadStep(x))

FairSpec == Spec /\ Fairness

-----------------------------------------------------------------------------
(* Properties. *)

(* README.md:28, "Transactions persist, waiting for you to fetch them the next
   time you come online": the relay deletes a slate only after a listener
   thread handed it to the wallet (or refused it for its form), whatever
   crash, stop, panic, redelivery or second session came between. *)
DeletedWasHandled ==
    \A m \in 1..sent : m \notin mail => outcome[m] # "None"

(* A slate is answered by one session, once, although redelivery and a second
   session may hand it to the wallet again. *)
AnsweredOnce ==
    \A x, y \in Sessions :
        th[x] = "Reply" =>
            /\ First(x) \cap replied = {}
            /\ th[y] = "Reply" /\ x # y => First(x) \cap First(y) = {}

(* The threads whose inner was cleared, by `stop` or by their own end. *)
Stopping == {x \in Sessions : th[x] \in Alive \ {"Starting"} /\ ~inner[x]}

(* Once inner was cleared nothing sets it again, and the thread comes to its
   end, whatever GET, batch or answer `stop` found it in: there is always a
   time to come when no stopped thread is left. *)
StopTakesEffect ==
    /\ []<>(Stopping = {})
    /\ [][\A x \in Stopping : ~inner'[x]]_vars

(* A slate that reaches the wallet finds it locked only if it was locked under
   a listener's thread: by `lock`, which does not check for mwcmqs though
   "please stop the listeners before doing this operation"
   (common/error_kind.rs:158) asks the user not to do that, or by set-recv
   failing to open an account.  Listening on a locked wallet, which unlocks it,
   a restart, redelivery or a second session send none to a locked wallet. *)
NoWalletOnlyIfLockedUnder ==
    \A m \in Messages : outcome[m] = "NoWallet" => lockedUnder

-----------------------------------------------------------------------------
(* What has become of message m, as its sender sees it. *)
Fate(m) ==
    IF m > sent THEN "Unsent"
    ELSE IF m \in replied THEN "Answered"
    ELSE IF outcome[m] = "None" THEN "Waiting"
    ELSE IF outcome[m] \in {"Dropped", "NoWallet"} THEN "Refused"
    ELSE "Received"

Box == INSTANCE Mailbox WITH
    Slates <- Messages, state <- [m \in Messages |-> Fate(m)], kept <- mail

(* Whatever sessions overlap, end, panic or are logged out by one another,
   every step moves one slate on, one way only, or deletes slates the wallet
   has looked at: relay and listener are the place where slates wait to be
   fetched, as the repository's README promises (line 28). *)
ImplementsMailbox == Box!Spec
=============================================================================
