------------------------ MODULE MwcmqsListenerProofs ------------------------
(***************************************************************************)
(* The safety of the mwcmqs listener for any number of sessions and        *)
(* messages.  Two facts carry it.  What a session will acknowledge with    *)
(* its next GET was handled by somebody or is still in its batch; and the  *)
(* slate a thread is answering is marked as received and not answered yet, *)
(* which keeps every other thread from answering it.  With both, relay and *)
(* sessions implement the abstract Mailbox.                                *)
(***************************************************************************)
EXTENDS MwcmqsListener, TLAPS

(* What is acknowledged next was handled, or is in the batch that is. *)
AckInv ==
    \A x \in Sessions :
        th[x] \notin {"Ended", "Dead"} =>
            \A m \in 1..delTo[x] :
                outcome[m] = "None" => th[x] \in {"Process", "Reply"} /\ m \in batch[x]

(* Only what was sent can be acknowledged. *)
SentInv ==
    /\ mail \subseteq 1..sent
    /\ \A x \in Sessions : delTo[x] <= sent

(* The slate being answered is received, not answered, and nobody else's. *)
ReplyInv ==
    /\ \A m \in replied : outcome[m] = "Received"
    /\ \A x \in Sessions : th[x] = "Reply" => \A m \in First(x) : outcome[m] = "Received"
    /\ AnsweredOnce

(* A wallet that was locked under no thread is there for every slate. *)
LockInv ==
    /\ ~lockedUnder /\ locked => \A x \in Sessions : th[x] \notin Alive
    /\ NoWalletOnlyIfLockedUnder

MqInv == TypeOK /\ DeletedWasHandled /\ AckInv /\ SentInv /\ ReplyInv /\ LockInv

LEMMA InitMq == Init => MqInv
<1> SUFFICES ASSUME Init PROVE MqInv
  OBVIOUS
<1>1. TypeOK
  <2>1. locked \in BOOLEAN /\ lockedUnder \in BOOLEAN
    BY Zenon DEF Init
  <2>2. QED
    BY <2>1, BoundsAssumption DEF Init, TypeOK, Places, Alive, Sessions, Messages, Outcomes
<1>2. QED
  BY <1>1, BoundsAssumption
     DEF Init, MqInv, DeletedWasHandled, AckInv, SentInv, ReplyInv, AnsweredOnce, First,
         LockInv, NoWalletOnlyIfLockedUnder, Alive

(* A step that hands no message to the wallet, answers and acknowledges
   nothing: of the sessions, threads may move and x may end. *)
LEMMA QuietStep ==
  ASSUME MqInv, TypeOK', NEW x \in Sessions,
         \A y \in Sessions \ {x} : th'[y] = th[y],
         \/ th'[x] = th[x]
         \/ th'[x] \in {"Ended", "Dead"}
         \/ th[x] \in {"None", "Starting", "Time", "Loop", "Wait"}
              /\ th'[x] \in {"Starting", "Time", "Loop", "Wait"}
              /\ (th[x] = "None" => ~locked'),
         locked' => locked, lockedUnder' = lockedUnder,
         \A y \in Sessions : \/ delTo'[y] = delTo[y] /\ batch'[y] = batch[y]
                             \/ th'[y] = "Ended" /\ delTo'[y] = 0,
         UNCHANGED <<sent, mail, walletVars>>
  PROVE  MqInv'
<1> USE DEF MqInv, walletVars
<1>1. DeletedWasHandled' /\ SentInv'
  <2>1. sent \in Nat
    BY BoundsAssumption DEF TypeOK
  <2>2. QED
    BY <2>1 DEF DeletedWasHandled, SentInv
<1>2. AckInv'
  BY DEF AckInv
<1>3. ReplyInv'
  BY DEF ReplyInv, AnsweredOnce, First
<1>4. LockInv'
  BY DEF LockInv, NoWalletOnlyIfLockedUnder, Alive
<1>5. QED
  BY <1>1, <1>2, <1>3, <1>4

(* An update at one point keeps the type of a function. *)
LEMMA ExceptTyped ==
  ASSUME NEW S, NEW T, NEW f \in [S -> T], NEW x \in S, NEW y \in T
  PROVE  [f EXCEPT ![x] = y] \in [S -> T]
OBVIOUS

(* The locals a thread leaves behind. *)
LEMMA DropTyped ==
  ASSUME TypeOK, NEW x \in Sessions, DropLocals(x)
  PROVE  /\ err' \in [Sessions -> BOOLEAN] /\ first' \in [Sessions -> BOOLEAN]
         /\ delTo' \in [Sessions -> 0..MaxMessages]
         /\ batch' \in [Sessions -> SUBSET Messages]
<1>1. /\ err \in [Sessions -> BOOLEAN] /\ first \in [Sessions -> BOOLEAN]
      /\ delTo \in [Sessions -> 0..MaxMessages] /\ batch \in [Sessions -> SUBSET Messages]
  BY DEF TypeOK
<1>2. TRUE \in BOOLEAN /\ FALSE \in BOOLEAN
  BY Zenon
<1>3. 0 \in 0..MaxMessages /\ {} \in SUBSET Messages
  BY BoundsAssumption
<1>4. QED
  BY <1>1, <1>2, <1>3, ExceptTyped, Zenon DEF DropLocals

(* A thread that comes to the end of subscribe. *)
LEMMA EndTyped ==
  ASSUME TypeOK, NEW x \in Sessions, End(x)
  PROVE  /\ th' \in [Sessions -> Places] /\ inner' \in [Sessions -> BOOLEAN]
         /\ err' \in [Sessions -> BOOLEAN] /\ first' \in [Sessions -> BOOLEAN]
         /\ delTo' \in [Sessions -> 0..MaxMessages]
         /\ batch' \in [Sessions -> SUBSET Messages]
<1>1. th \in [Sessions -> Places] /\ inner \in [Sessions -> BOOLEAN]
  BY DEF TypeOK
<1>2. "Ended" \in Places
  BY DEF Places
<1>3. FALSE \in BOOLEAN
  BY Zenon
<1>4. QED
  BY <1>1, <1>2, <1>3, ExceptTyped, DropTyped, Zenon DEF End, Goto

(* Taking away a note, and raising is_error. *)
LEMMA NoteTyped ==
  ASSUME TypeOK, NEW x \in Sessions, NEW k
  PROVE  /\ [note EXCEPT ![x] = @ \ {k}] \in [Sessions -> SUBSET {"nil", "close"}]
         /\ k \in {"nil", "close"} =>
                [note EXCEPT ![x] = @ \cup {k}] \in [Sessions -> SUBSET {"nil", "close"}]
         /\ [err EXCEPT ![x] = TRUE] \in [Sessions -> BOOLEAN]
<1>1. note \in [Sessions -> SUBSET {"nil", "close"}] /\ err \in [Sessions -> BOOLEAN]
  BY DEF TypeOK
<1>2. note[x] \ {k} \in SUBSET {"nil", "close"}
  BY <1>1
<1>3. TRUE \in BOOLEAN
  BY Zenon
<1>4. k \in {"nil", "close"} => note[x] \cup {k} \in SUBSET {"nil", "close"}
  BY <1>1
<1>5. QED
  BY <1>1, <1>2, <1>3, <1>4, ExceptTyped, Zenon

(* A note left or taken away. *)
LEMMA NoteSteps ==
  ASSUME TypeOK, NEW x \in Sessions, NEW k \in {"nil", "close"},
         \/ note' = note
         \/ note' = [note EXCEPT ![x] = @ \ {k}]
         \/ note' = [note EXCEPT ![x] = @ \cup {k}]
  PROVE  note' \in [Sessions -> SUBSET {"nil", "close"}]
<1>1. note \in [Sessions -> SUBSET {"nil", "close"}]
  BY DEF TypeOK
<1>2. note[x] \ {k} \in SUBSET {"nil", "close"} /\ note[x] \cup {k} \in SUBSET {"nil", "close"}
  BY <1>1
<1>3. QED
  BY <1>1, <1>2, ExceptTyped, Zenon

(* A message taken from a batch. *)
LEMMA BatchTyped ==
  ASSUME TypeOK, NEW x \in Sessions, NEW m,
         batch' = batch \/ batch' = [batch EXCEPT ![x] = @ \ {m}]
  PROVE  batch' \in [Sessions -> SUBSET Messages]
<1>1. batch \in [Sessions -> SUBSET Messages]
  BY DEF TypeOK
<1>2. batch[x] \ {m} \in SUBSET Messages
  BY <1>1
<1>3. QED
  BY <1>1, <1>2, ExceptTyped, Zenon

(* A login leaves a note for the session before. *)
LEMMA LoginTyped ==
  ASSUME TypeOK, NEW x \in Sessions, SendGet(x)
  PROVE  note' \in [Sessions -> SUBSET {"nil", "close"}]
<1>1. note \in [Sessions -> SUBSET {"nil", "close"}] /\ login \in Sessions \cup {NoSession}
  BY DEF TypeOK
<1>2. CASE note' = note
  BY <1>1, <1>2
<1>3. CASE login # NoSession /\ note' = [note EXCEPT ![login] = @ \cup {"close"}]
  <2>1. login \in Sessions
    BY <1>1, <1>3
  <2>2. QED
    BY <1>3, <2>1, NoteTyped
<1>4. QED
  BY <1>2, <1>3 DEF SendGet

(* What is fetched are messages, and the last of them can be acknowledged. *)
LEMMA UpToTyped ==
  ASSUME TypeOK, NEW n \in mail
  PROVE  n \in 0..MaxMessages /\ UpTo(n) \in SUBSET Messages
<1>1. mail \subseteq Messages
  BY DEF TypeOK
<1>2. n \in 1..MaxMessages
  BY <1>1 DEF Messages
<1>3. UpTo(n) \subseteq Messages
  BY <1>1 DEF UpTo
<1>4. QED
  BY <1>2, <1>3, BoundsAssumption

(* One message is handled at a time. *)
LEMMA FirstUnique ==
  ASSUME TypeOK, NEW x \in Sessions, NEW m \in First(x), NEW k \in First(x)
  PROVE  m \in Messages /\ m \in batch[x] /\ k = m
<1>1. batch[x] \subseteq Messages
  BY DEF TypeOK
<1>2. m \in batch[x] /\ k \in batch[x] /\ m <= k /\ k <= m
  BY DEF First
<1>3. m \in Nat /\ k \in Nat
  BY <1>1, <1>2 DEF Messages
<1>4. QED
  BY <1>1, <1>2, <1>3

(* What on_slate may do with message m: the thread goes on to answer it, or is
   through with it; and what becomes of the wallet's lock. *)
Effect(x, m) ==
    /\ \/ /\ outcome[m] # "Received"
          /\ outcome' = [outcome EXCEPT ![m] = "Received"]
          /\ th' = [th EXCEPT ![x] = "Reply"]
          /\ UNCHANGED batch
       \/ /\ outcome' \in { [outcome EXCEPT ![m] = "Received"],
                           [outcome EXCEPT ![m] = IF @ = "None" THEN "Dropped" ELSE @],
                           [outcome EXCEPT ![m] = IF @ = "None" THEN "NoWallet" ELSE @] }
          /\ batch' = [batch EXCEPT ![x] = @ \ {m}]
          /\ UNCHANGED th
    /\ \/ UNCHANGED <<locked, lockedUnder>>
       \/ locked' = FALSE /\ UNCHANGED lockedUnder
       \/ locked' = TRUE /\ lockedUnder' = TRUE
    /\ outcome' = [outcome EXCEPT ![m] = IF @ = "None" THEN "NoWallet" ELSE @] =>
          \/ outcome' = outcome
          \/ locked /\ UNCHANGED <<locked, lockedUnder>>
          \/ lockedUnder' = TRUE

(* on_slate has one of these effects, on the first message of the batch. *)
LEMMA HandleEffect ==
  ASSUME TypeOK, NEW x \in Sessions, HandleMessage(x)
  PROVE  /\ th[x] = "Process"
         /\ UNCHANGED <<delTo, mail, sent, replied>>
         /\ \E m \in First(x) :
               Effect(x, m) /\ err' \in {err, [err EXCEPT ![x] = @ \/ m \in Malformed]}
<1>1. th[x] = "Process" /\ UNCHANGED <<delTo, mail, sent, replied>>
  BY DEF HandleMessage, relayVars
<1>2. PICK m \in First(x) :
        \/ SkipMessage(x, m)
        \/ /\ \/ ReceiveSlate(x, m) \/ ReceiveSilently(x, m)
              \/ RefuseSlate(x, m) \/ FindNoWallet(x, m)
           /\ UNCHANGED err
  BY DEF HandleMessage
<1>3. m \in Messages /\ outcome \in [Messages -> Outcomes]
  BY FirstUnique DEF TypeOK
<1>4. CASE SkipMessage(x, m) \/ RefuseSlate(x, m)
  <2>1. /\ outcome' = [outcome EXCEPT ![m] = IF @ = "None" THEN "Dropped" ELSE @]
        /\ batch' = [batch EXCEPT ![x] = @ \ {m}] /\ UNCHANGED th
        /\ UNCHANGED lockedUnder /\ (locked' = locked \/ locked' = FALSE)
    BY <1>4 DEF SkipMessage, RefuseSlate, Turned
  <2>2. outcome[m] = "None" => outcome'[m] = "Dropped"
    BY <1>3, <2>1
  <2>3. outcome[m] # "None" => outcome' = outcome
    BY <1>3, <2>1
  <2>4. outcome' = [outcome EXCEPT ![m] = IF @ = "None" THEN "NoWallet" ELSE @] =>
          outcome' = outcome
    BY <1>3, <2>2, <2>3
  <2>5. Effect(x, m)
    BY <2>1, <2>4 DEF Effect
  <2>6. QED
    BY <1>1, <1>2, <1>4, <2>5 DEF SkipMessage
<1>5. CASE ReceiveSlate(x, m) \/ ReceiveSilently(x, m)
  <2>1. outcome'[m] = "Received" /\ outcome[m] # "Received"
    BY <1>3, <1>5 DEF ReceiveSlate, ReceiveSilently
  <2>2. outcome' # [outcome EXCEPT ![m] = IF @ = "None" THEN "NoWallet" ELSE @]
    BY <1>3, <2>1
  <2>3. Effect(x, m)
    <3>1. CASE ReceiveSlate(x, m)
      BY <2>2, <3>1 DEF ReceiveSlate, Effect, Goto
    <3>2. CASE ReceiveSilently(x, m)
      BY <2>2, <3>2 DEF ReceiveSilently, UnlockFails, Effect
    <3>3. QED
      BY <1>5, <3>1, <3>2
  <2>4. err' \in {err, [err EXCEPT ![x] = @ \/ m \in Malformed]}
    BY <1>2, <1>4, <2>2, <1>3 DEF SkipMessage, Turned
  <2>5. QED
    BY <1>1, <2>3, <2>4
<1>6. CASE FindNoWallet(x, m)
  <2>1. Effect(x, m)
    BY <1>6 DEF FindNoWallet, UnlockFails, Turned, Effect
  <2>2. err' \in {err, [err EXCEPT ![x] = @ \/ m \in Malformed]}
    BY <1>2 DEF SkipMessage
  <2>3. QED
    BY <1>1, <2>1, <2>2
<1>7. QED
  BY <1>2, <1>4, <1>5, <1>6

(* Every step keeps the types. *)
LEMMA TypeStep ==
  ASSUME TypeOK, SentInv, [Next]_vars
  PROVE  TypeOK'
<1>n. \A x \in Sessions :
        /\ \A k \in {"nil", "close"} :
              /\ [note EXCEPT ![x] = @ \ {k}] \in [Sessions -> SUBSET {"nil", "close"}]
              /\ [note EXCEPT ![x] = @ \cup {k}] \in [Sessions -> SUBSET {"nil", "close"}]
        /\ [err EXCEPT ![x] = TRUE] \in [Sessions -> BOOLEAN]
  BY NoteTyped
<1>l. \A x \in Sessions : SendGet(x) => note' \in [Sessions -> SUBSET {"nil", "close"}]
  BY LoginTyped
<1>d. \A x \in Sessions : DropLocals(x) =>
        /\ err' \in [Sessions -> BOOLEAN] /\ first' \in [Sessions -> BOOLEAN]
        /\ delTo' \in [Sessions -> 0..MaxMessages] /\ batch' \in [Sessions -> SUBSET Messages]
  BY DropTyped
<1>e. \A x \in Sessions : End(x) =>
        /\ th' \in [Sessions -> Places] /\ inner' \in [Sessions -> BOOLEAN]
        /\ err' \in [Sessions -> BOOLEAN] /\ first' \in [Sessions -> BOOLEAN]
        /\ delTo' \in [Sessions -> 0..MaxMessages] /\ batch' \in [Sessions -> SUBSET Messages]
  BY EndTyped
<1>u. \A n \in mail : n \in 0..MaxMessages /\ UpTo(n) \in SUBSET Messages
  BY UpToTyped
<1> USE BoundsAssumption, NoSessionAssumption
    DEF TypeOK, Places, Alive, Messages, Goto, replVars, sessionVars, relayVars, walletVars
<1>1. CASE Repl
  <2>1. CASE StopPost
    <3>1. \/ note' = note
          \/ login \in Sessions /\ note' = [note EXCEPT ![login] = @ \cup {"nil"}]
      BY <2>1 DEF StopPost
    <3>2. note' \in [Sessions -> SUBSET {"nil", "close"}]
      BY <3>1, NoteSteps
    <3>3. QED
      BY <2>1, <3>2 DEF StopPost
  <2>2. CASE StopInner
    BY <2>2 DEF StopInner
  <2>3. CASE Lock
    <3>1. lockedUnder' \in BOOLEAN /\ locked' \in BOOLEAN
      BY <2>3, Zenon DEF Lock
    <3>2. QED
      BY <2>3, <3>1 DEF Lock
  <2>4. CASE Unlock
    BY <2>4 DEF Unlock
  <2>5. CASE \E x \in Sessions : Listen(x)
    BY <2>5 DEF Listen
  <2>6. QED
    BY <1>1, <2>1, <2>2, <2>3, <2>4, <2>5 DEF Repl
<1>2. ASSUME NEW x \in Sessions, ThreadStep(x) PROVE TypeOK'
  <2>1. CASE Subscribe(x) \/ TimeNow(x) \/ LeaveLoop(x)
    <3>1. CASE End(x)
      BY <2>1, <3>1, <1>e DEF Subscribe, TimeNow, LeaveLoop
    <3>2. CASE ~End(x)
      BY <2>1, <3>2 DEF Subscribe, TimeNow, LeaveLoop
    <3>3. QED
      BY <3>1, <3>2
  <2>2. CASE SendGet(x)
    <3>2. note' \in [Sessions -> SUBSET {"nil", "close"}]
      BY <2>2, <1>l
    <3>3. mail' \in SUBSET Messages /\ login' \in Sessions \cup {NoSession}
      BY <2>2 DEF SendGet
    <3>4. QED
      BY <2>2, <3>2, <3>3 DEF SendGet
  <2>3. CASE SendGetFails(x)
    <3>1. err' \in [Sessions -> BOOLEAN]
      BY <2>3, <1>n, Zenon DEF SendGetFails
    <3>2. QED
      BY <2>3, <3>1 DEF SendGetFails
  <2>4. CASE GetMessages(x)
    <3>1. PICK n \in mail : /\ delTo' = [delTo EXCEPT ![x] = n]
                            /\ batch' = [batch EXCEPT ![x] = UpTo(n)]
      BY <2>4 DEF GetMessages
    <3>2. delTo' \in [Sessions -> 0..MaxMessages] /\ batch' \in [Sessions -> SUBSET Messages]
      <4>1. n \in 0..MaxMessages /\ UpTo(n) \in SUBSET Messages
        BY <1>u, Zenon
      <4>2. delTo \in [Sessions -> 0..MaxMessages] /\ batch \in [Sessions -> SUBSET Messages]
        OBVIOUS
      <4>3. delTo' \in [Sessions -> 0..MaxMessages]
        BY <3>1, <4>1, <4>2
      <4>4. batch' \in [Sessions -> SUBSET Messages]
        BY <3>1, <4>1, <4>2
      <4>5. QED
        BY <4>3, <4>4
    <3>3. note' \in [Sessions -> SUBSET {"nil", "close"}] /\ err' \in [Sessions -> BOOLEAN]
      <4>1. /\ note' = note \/ note' = [note EXCEPT ![x] = @ \ {"close"}]
            /\ err' = err \/ err' = [err EXCEPT ![x] = TRUE]
        BY <2>4 DEF GetMessages
      <4>2. QED
        BY <4>1, <1>n, Zenon
    <3>4. QED
      BY <2>4, <3>2, <3>3 DEF GetMessages
  <2>5. CASE GetClose(x) \/ GetNil(x) \/ CloseInBatch(x)
    <3>1. note' \in [Sessions -> SUBSET {"nil", "close"}]
      <4>1. \/ note' = [note EXCEPT ![x] = @ \ {"close"}]
            \/ note' = [note EXCEPT ![x] = @ \ {"nil"}]
        BY <2>5 DEF GetClose, GetNil, CloseInBatch
      <4>2. QED
        BY <4>1, NoteSteps
    <3>2. CASE GetNil(x)
      BY <3>1, <3>2 DEF GetNil
    <3>3. CASE GetClose(x) \/ CloseInBatch(x)
      BY <3>1, <3>3, <1>e DEF GetClose, CloseInBatch
    <3>4. QED
      BY <2>5, <3>2, <3>3
  <2>6. CASE GetNothing(x)
    <3>1. note' \in [Sessions -> SUBSET {"nil", "close"}] /\ err' \in [Sessions -> BOOLEAN]
      <4>1. /\ note' = note \/ note' = [note EXCEPT ![x] = @ \ {"close"}]
            /\ err' = err \/ err' = [err EXCEPT ![x] = TRUE]
        BY <2>6 DEF GetNothing
      <4>2. QED
        BY <4>1, <1>n, Zenon
    <3>2. QED
      BY <2>6, <3>1 DEF GetNothing
  <2>7. CASE HandleMessage(x)
    <3>1. PICK m \in First(x) :
            Effect(x, m) /\ err' \in {err, [err EXCEPT ![x] = @ \/ m \in Malformed]}
      BY <2>7, HandleEffect
    <3>2. m \in Messages
      BY <3>1 DEF First
    <3>3. err' \in [Sessions -> BOOLEAN]
      <4>1. CASE UNCHANGED err
        BY <4>1
      <4>2. CASE err' = [err EXCEPT ![x] = err[x] \/ m \in Malformed]
        <5>1. (err[x] \/ m \in Malformed) \in BOOLEAN
          BY Zenon
        <5>2. err \in [Sessions -> BOOLEAN]
          OBVIOUS
        <5>3. QED
          BY <4>2, <5>1, <5>2, Zenon
      <4>3. QED
        BY <3>1, <4>1, <4>2
    <3>4. th' \in [Sessions -> Places] /\ batch' \in [Sessions -> SUBSET Messages]
      <4>1. /\ th' = [th EXCEPT ![x] = "Reply"] \/ th' = th
            /\ batch' = [batch EXCEPT ![x] = batch[x] \ {m}] \/ batch' = batch
        BY <3>1 DEF Effect
      <4>2. th \in [Sessions -> Places] /\ batch \in [Sessions -> SUBSET Messages]
        OBVIOUS
      <4>3. th' \in [Sessions -> Places]
        BY <4>1, <4>2
      <4>4. batch' \in [Sessions -> SUBSET Messages]
        BY <4>1, BatchTyped
      <4>5. QED
        BY <4>3, <4>4
    <3>5. outcome' \in [Messages -> Outcomes]
      BY <3>1, <3>2 DEF Effect, Outcomes
    <3>6. locked' \in BOOLEAN /\ lockedUnder' \in BOOLEAN
      <4>1. locked \in BOOLEAN /\ lockedUnder \in BOOLEAN
        BY Zenon
      <4>2. QED
        BY <3>1, <4>1, Zenon DEF Effect
    <3>7. QED
      BY <2>7, <3>3, <3>4, <3>5, <3>6 DEF HandleMessage
  <2>8. CASE BatchDone(x) \/ Reply(x) \/ ReplyPanics(x)
    <3>1. First(x) \subseteq Messages
      BY DEF First
    <3>2. CASE BatchDone(x)
      BY <3>2 DEF BatchDone
    <3>3. CASE Reply(x)
      BY <3>1, <3>3 DEF Reply
    <3>4. CASE ReplyPanics(x)
      BY <3>1, <3>4, <1>d DEF ReplyPanics
    <3>5. QED
      BY <2>8, <3>2, <3>3, <3>4
  <2>9. QED
    BY <1>2, <2>1, <2>2, <2>3, <2>4, <2>5, <2>6, <2>7, <2>8 DEF ThreadStep
<1>3. CASE Send
  BY <1>3 DEF Send
<1>4. CASE Restart
  BY <1>4 DEF Restart
<1>5. CASE UNCHANGED vars
  BY <1>5 DEF vars
<1>6. QED
  BY <1>1, <1>2, <1>3, <1>4, <1>5 DEF Next

(* `delTo' of a GET names what was handled. *)
LEMMA SendGetStep ==
  ASSUME MqInv, TypeOK', NEW x \in Sessions, SendGet(x)
  PROVE  MqInv'
<1>1. /\ th \in [Sessions -> Places] /\ delTo \in [Sessions -> 0..MaxMessages] /\ sent \in Nat
      /\ mail \subseteq Messages
  BY BoundsAssumption DEF MqInv, TypeOK
<1>2. /\ th[x] = "Loop" /\ th' = [th EXCEPT ![x] = "Wait"]
      /\ mail' = {m \in mail : m > delTo[x]}
      /\ UNCHANGED <<locked, lockedUnder, delTo, batch, sent, outcome, replied>>
  BY DEF SendGet, Goto, replVars, walletVars
<1>3. DeletedWasHandled'
  <2> SUFFICES ASSUME NEW m \in 1..sent, m \notin mail' PROVE outcome[m] # "None"
    BY <1>2 DEF DeletedWasHandled
  <2>1. CASE m \notin mail
    BY <2>1 DEF MqInv, DeletedWasHandled
  <2>2. CASE m \in mail
    <3>1. m \in 1..delTo[x]
      BY <1>1, <1>2, <2>2
    <3>2. QED
      BY <1>2, <3>1 DEF MqInv, AckInv
  <2>3. QED
    BY <2>1, <2>2
<1>4. SentInv'
  BY <1>1, <1>2 DEF MqInv, SentInv
<1>5. AckInv'
  BY <1>1, <1>2 DEF MqInv, AckInv
<1>6. ReplyInv'
  BY <1>1, <1>2 DEF MqInv, ReplyInv, AnsweredOnce, First
<1>7. LockInv'
  BY <1>1, <1>2 DEF MqInv, LockInv, NoWalletOnlyIfLockedUnder, Alive
<1>8. QED
  BY <1>3, <1>4, <1>5, <1>6, <1>7 DEF MqInv

(* A batch holds everything not handled up to the id that is acknowledged. *)
LEMMA GetMessagesStep ==
  ASSUME MqInv, TypeOK', NEW x \in Sessions, GetMessages(x)
  PROVE  MqInv'
<1>1. /\ th \in [Sessions -> Places] /\ delTo \in [Sessions -> 0..MaxMessages] /\ sent \in Nat
      /\ batch \in [Sessions -> SUBSET Messages] /\ mail \subseteq 1..sent
  BY BoundsAssumption DEF MqInv, TypeOK, SentInv
<1>2. PICK n \in mail : delTo' = [delTo EXCEPT ![x] = n] /\ batch' = [batch EXCEPT ![x] = UpTo(n)]
  BY DEF GetMessages
<1>3. /\ th[x] = "Wait" /\ th' = [th EXCEPT ![x] = "Process"]
      /\ UNCHANGED <<locked, lockedUnder, mail, sent, outcome, replied>>
  BY DEF GetMessages, Goto, replVars, walletVars
<1>4. DeletedWasHandled'
  BY <1>3 DEF MqInv, DeletedWasHandled
<1>5. SentInv'
  BY <1>1, <1>2, <1>3 DEF MqInv, SentInv
<1>6. AckInv'
  <2> SUFFICES ASSUME NEW y \in Sessions, th'[y] \notin {"Ended", "Dead"},
                      NEW m \in 1..delTo'[y], outcome[m] = "None"
               PROVE  th'[y] \in {"Process", "Reply"} /\ m \in batch'[y]
    BY <1>3 DEF AckInv
  <2>1. CASE y = x
    <3>1. m \in 1..n /\ n \in 1..sent
      BY <1>1, <1>2, <2>1
    <3>2. m \in mail
      BY <1>1, <3>1 DEF MqInv, DeletedWasHandled
    <3>3. m \in UpTo(n)
      BY <3>1, <3>2 DEF UpTo
    <3>4. QED
      BY <1>1, <1>2, <1>3, <2>1, <3>3
  <2>2. CASE y # x
    BY <1>1, <1>2, <1>3, <2>2 DEF MqInv, AckInv
  <2>3. QED
    BY <2>1, <2>2
<1>7. ReplyInv'
  <2>1. \A y \in Sessions : th'[y] = "Reply" => th[y] = "Reply" /\ First(y)' = First(y)
    BY <1>1, <1>2, <1>3 DEF First
  <2>2. QED
    BY <1>3, <2>1 DEF MqInv, ReplyInv, AnsweredOnce
<1>8. LockInv'
  BY <1>1, <1>3 DEF MqInv, LockInv, NoWalletOnlyIfLockedUnder, Alive
<1>9. QED
  BY <1>4, <1>5, <1>6, <1>7, <1>8 DEF MqInv

(* A slate is received by one thread; the others skip it. *)
LEMMA HandleMessageStep ==
  ASSUME MqInv, TypeOK', NEW x \in Sessions, HandleMessage(x)
  PROVE  MqInv'
<1>1. /\ th \in [Sessions -> Places] /\ delTo \in [Sessions -> 0..MaxMessages]
      /\ batch \in [Sessions -> SUBSET Messages]
      /\ outcome \in [Messages -> Outcomes]
      /\ \A y \in Sessions : \A m \in 1..delTo[y] : m \in Messages
      /\ \A m \in 1..sent : m \in Messages
      /\ replied \subseteq Messages
  BY BoundsAssumption, SMTT(30) DEF MqInv, TypeOK, Messages
<1>2. th[x] = "Process" /\ UNCHANGED <<delTo, mail, sent, replied>>
  BY HandleEffect DEF MqInv
<1>3. PICK m \in First(x) : Effect(x, m)
  BY HandleEffect DEF MqInv
<1>4. m \in Messages /\ m \in batch[x] /\ \A k \in First(x) : k = m
  BY FirstUnique DEF MqInv
<1>5. /\ \A k \in Messages : outcome[k] # "None" => outcome'[k] # "None"
      /\ \A k \in Messages : outcome[k] = "Received" => outcome'[k] = "Received"
      /\ outcome'[m] # "None"
  BY <1>1, <1>3, <1>4 DEF Effect
<1>6. DeletedWasHandled' /\ SentInv'
  BY <1>1, <1>2, <1>5 DEF MqInv, DeletedWasHandled, SentInv
<1>7. AckInv'
  <2> SUFFICES ASSUME NEW y \in Sessions, th'[y] \notin {"Ended", "Dead"},
                      NEW k \in 1..delTo[y], outcome'[k] = "None"
               PROVE  th'[y] \in {"Process", "Reply"} /\ k \in batch'[y]
    BY <1>2 DEF AckInv
  <2>1. k \in Messages /\ outcome[k] = "None" /\ k # m
    BY <1>1, <1>5
  <2>2. th[y] \notin {"Ended", "Dead"}
    BY <1>1, <1>2, <1>3 DEF Effect
  <2>3. th[y] \in {"Process", "Reply"} /\ k \in batch[y]
    BY <2>1, <2>2 DEF MqInv, AckInv
  <2>4. QED
    BY <1>1, <1>3, <2>1, <2>3 DEF Effect
<1>8. ReplyInv'
  <2>1. CASE th' = [th EXCEPT ![x] = "Reply"] /\ UNCHANGED batch /\ outcome[m] # "Received"
             /\ outcome'[m] = "Received"
    <3>1. \A y \in Sessions : First(y)' = First(y)
      BY <2>1 DEF First
    <3>2. \A y \in Sessions \ {x} : th'[y] = th[y] /\ (th[y] = "Reply" => m \notin First(y))
      BY <1>1, <2>1 DEF MqInv, ReplyInv
    <3>3. m \notin replied
      BY <2>1 DEF MqInv, ReplyInv
    <3>4. \A k \in replied : outcome'[k] = "Received"
      BY <1>1, <1>5 DEF MqInv, ReplyInv
    <3>5. \A y \in Sessions : First(y) \subseteq Messages
      BY <1>1 DEF First
    <3>6. \A y \in Sessions : th'[y] = "Reply" => \A k \in First(y) : outcome'[k] = "Received"
      BY <1>4, <1>5, <2>1, <3>2, <3>5 DEF MqInv, ReplyInv
    <3>7. AnsweredOnce'
      <4>1. \A y \in Sessions : th'[y] = "Reply" => First(y) \cap replied = {}
        BY <1>4, <3>2, <3>3 DEF MqInv, ReplyInv, AnsweredOnce
      <4>2. \A y, z \in Sessions :
              th'[y] = "Reply" /\ th'[z] = "Reply" /\ y # z => First(y) \cap First(z) = {}
        BY <1>4, <3>2 DEF MqInv, ReplyInv, AnsweredOnce
      <4>3. QED
        BY <1>2, <3>1, <4>1, <4>2 DEF AnsweredOnce
    <3>8. QED
      BY <1>2, <3>1, <3>4, <3>6, <3>7 DEF ReplyInv
  <2>2. CASE UNCHANGED th /\ batch' = [batch EXCEPT ![x] = @ \ {m}]
    <3>1. \A y \in Sessions : th[y] = "Reply" => First(y)' = First(y) /\ First(y) \subseteq Messages
      BY <1>1, <1>2, <2>2 DEF First
    <3>2. QED
      BY <1>1, <1>2, <1>5, <2>2, <3>1 DEF MqInv, ReplyInv, AnsweredOnce
  <2>3. QED
    BY <1>1, <1>3, <1>4, <2>1, <2>2 DEF Effect
<1>9. LockInv'
  <2>1. th[x] \in Alive /\ (~lockedUnder => ~locked)
    BY <1>2 DEF MqInv, LockInv, Alive
  <2>2. lockedUnder => lockedUnder'
    BY <1>3 DEF Effect
  <2>3. ~lockedUnder' => ~locked'
    BY <1>3, <2>1 DEF Effect
  <2>4. \A k \in Messages : outcome'[k] = "NoWallet" => outcome[k] = "NoWallet" \/ lockedUnder'
    <3>1. CASE outcome' = [outcome EXCEPT ![m] = IF @ = "None" THEN "NoWallet" ELSE @]
      BY <1>3, <2>1, <3>1 DEF Effect
    <3>2. CASE outcome' \in { [outcome EXCEPT ![m] = "Received"],
                              [outcome EXCEPT ![m] = IF @ = "None" THEN "Dropped" ELSE @] }
      BY <1>1, <1>4, <3>2
    <3>3. QED
      BY <1>3, <3>1, <3>2 DEF Effect
  <2>5. QED
    BY <2>2, <2>3, <2>4 DEF MqInv, LockInv, NoWalletOnlyIfLockedUnder
<1>10. QED
  BY <1>6, <1>7, <1>8, <1>9 DEF MqInv

(* The end of an answer, and of a batch. *)
LEMMA ReplyStep ==
  ASSUME MqInv, TypeOK', NEW x \in Sessions, Reply(x) \/ ReplyPanics(x) \/ BatchDone(x)
  PROVE  MqInv'
<1>1. /\ th \in [Sessions -> Places] /\ batch \in [Sessions -> SUBSET Messages]
      /\ delTo \in [Sessions -> 0..MaxMessages]
  BY DEF MqInv, TypeOK
<1>2. /\ \A y \in Sessions \ {x} : th'[y] = th[y] /\ batch'[y] = batch[y]
      /\ UNCHANGED <<locked, lockedUnder, mail, sent, outcome>>
      /\ th[x] \in {"Process", "Reply"} /\ th'[x] \in {"Process", "Loop", "Dead"}
  BY <1>1 DEF Reply, ReplyPanics, BatchDone, DropLocals, Goto, replVars, relayVars, walletVars
<1>d. delTo' = delTo \/ (th'[x] = "Dead" /\ delTo' = [delTo EXCEPT ![x] = 0])
  BY <1>1 DEF Reply, ReplyPanics, BatchDone, DropLocals, Goto
<1>3. DeletedWasHandled' /\ SentInv'
  <2>1. sent \in Nat
    BY BoundsAssumption DEF MqInv, TypeOK
  <2>2. \A y \in Sessions : delTo'[y] \in {delTo[y], 0}
    BY <1>1, <1>d
  <2>3. QED
    BY <1>2, <2>1, <2>2 DEF MqInv, DeletedWasHandled, SentInv
<1>4. AckInv'
  <2> SUFFICES ASSUME th'[x] \notin {"Ended", "Dead"},
                      NEW k \in 1..delTo[x], outcome[k] = "None"
               PROVE  th'[x] \in {"Process", "Reply"} /\ k \in batch'[x]
    BY <1>1, <1>2, <1>d DEF MqInv, AckInv
  <2>1. k \in batch[x]
    BY <1>1, <1>2, <1>d DEF MqInv, AckInv
  <2>2. CASE Reply(x)
    BY <1>1, <2>1, <2>2 DEF Reply, Goto, MqInv, ReplyInv
  <2>3. CASE ReplyPanics(x)
    BY <1>1, <2>3 DEF ReplyPanics, DropLocals, Goto
  <2>4. CASE BatchDone(x)
    BY <2>1, <2>4 DEF BatchDone
  <2>5. QED
    BY <2>2, <2>3, <2>4
<1>5. ReplyInv'
  <2>1. replied' = replied \/ (th[x] = "Reply" /\ replied' = replied \cup First(x))
    BY DEF Reply, ReplyPanics, BatchDone, walletVars
  <2>2. \A y \in Sessions : th'[y] = "Reply" => y # x /\ th[y] = "Reply" /\ First(y)' = First(y)
    BY <1>2 DEF First
  <2>3. \A y \in Sessions : th'[y] = "Reply" => First(y) \cap replied' = {}
    BY <2>1, <2>2 DEF MqInv, ReplyInv, AnsweredOnce
  <2>4. QED
    BY <1>2, <2>1, <2>2, <2>3 DEF MqInv, ReplyInv, AnsweredOnce
<1>6. LockInv'
  BY <1>2 DEF MqInv, LockInv, NoWalletOnlyIfLockedUnder, Alive
<1>7. QED
  BY <1>3, <1>4, <1>5, <1>6 DEF MqInv

(* The other steps of a thread hand nothing to the wallet. *)
LEMMA ThreadQuiet ==
  ASSUME MqInv, TypeOK', NEW x \in Sessions,
         \/ Subscribe(x) \/ TimeNow(x) \/ LeaveLoop(x) \/ SendGetFails(x)
         \/ GetClose(x) \/ GetNil(x) \/ GetNothing(x) \/ CloseInBatch(x)
  PROVE  MqInv'
<1>1. /\ th \in [Sessions -> Places] /\ batch \in [Sessions -> SUBSET Messages]
      /\ delTo \in [Sessions -> 0..MaxMessages]
  BY DEF MqInv, TypeOK
<1>2. /\ UNCHANGED <<locked, lockedUnder, sent, mail, walletVars>>
      /\ UNCHANGED <<delTo, batch>> \/ End(x)
  BY DEF Subscribe, TimeNow, LeaveLoop, SendGetFails, GetClose, GetNil, GetNothing,
         CloseInBatch, replVars, relayVars
<1>e. \A y \in Sessions : \/ delTo'[y] = delTo[y] /\ batch'[y] = batch[y]
                          \/ th'[y] = "Ended" /\ delTo'[y] = 0
  BY <1>1, <1>2 DEF End, DropLocals, Goto
<1>3. /\ \A y \in Sessions \ {x} : th'[y] = th[y]
      /\ \/ th'[x] = th[x]
         \/ th'[x] = "Ended"
         \/ th[x] \in {"Starting", "Time", "Wait"} /\ th'[x] \in {"Time", "Loop"}
  BY <1>1 DEF Subscribe, TimeNow, LeaveLoop, SendGetFails, GetClose, GetNil, GetNothing,
              CloseInBatch, End, Goto
<1>4. QED
  BY <1>2, <1>3, <1>e, QuietStep

(* `lock', the one command that takes the wallet away from the listener. *)
LEMMA LockStep ==
  ASSUME MqInv, TypeOK', Lock
  PROVE  MqInv'
<1>1. UNCHANGED <<th, delTo, batch, sent, mail, outcome, replied>>
  BY DEF Lock, sessionVars, relayVars, walletVars
<1>2. DeletedWasHandled' /\ SentInv' /\ AckInv' /\ ReplyInv'
  BY <1>1 DEF MqInv, DeletedWasHandled, SentInv, AckInv, ReplyInv, AnsweredOnce, First
<1>3. /\ lockedUnder => lockedUnder'
      /\ ~lockedUnder' => \A x \in Sessions : th[x] \notin Alive
  BY DEF Lock
<1>4. LockInv'
  BY <1>1, <1>3 DEF MqInv, LockInv, NoWalletOnlyIfLockedUnder
<1>5. QED
  BY <1>2, <1>4 DEF MqInv

(* The other commands of the REPL. *)
LEMMA ReplStep ==
  ASSUME MqInv, TypeOK', Repl
  PROVE  MqInv'
<1>1. CASE Lock
  BY <1>1, LockStep
<1>2. ASSUME NEW x \in Sessions, Listen(x) PROVE MqInv'
  <2>1. th \in [Sessions -> Places]
    BY DEF MqInv, TypeOK
  <2>2. /\ ~locked' /\ UNCHANGED <<lockedUnder, delTo, batch, sent, mail, walletVars>>
        /\ th[x] = "None" /\ th' = [th EXCEPT ![x] = "Starting"]
    BY <1>2 DEF Listen, relayVars
  <2>3. QED
    BY <2>1, <2>2, QuietStep
<1>3. CASE StopPost \/ StopInner \/ Unlock
  <2>1. /\ locked' => locked
        /\ UNCHANGED <<th, lockedUnder, delTo, batch, sent, mail, outcome, replied>>
    BY <1>3 DEF StopPost, StopInner, Unlock, sessionVars, relayVars, walletVars
  <2>2. DeletedWasHandled' /\ SentInv' /\ AckInv' /\ ReplyInv'
    BY <2>1 DEF MqInv, DeletedWasHandled, SentInv, AckInv, ReplyInv, AnsweredOnce, First
  <2>3. LockInv'
    BY <2>1 DEF MqInv, LockInv, NoWalletOnlyIfLockedUnder
  <2>4. QED
    BY <2>2, <2>3 DEF MqInv
<1>4. QED
  BY <1>1, <1>2, <1>3 DEF Repl

(* A new message is in the relay's hands. *)
LEMMA SendStep ==
  ASSUME MqInv, TypeOK', Send
  PROVE  MqInv'
<1>1. /\ sent \in Nat /\ sent' = sent + 1 /\ mail' = mail \cup {sent + 1}
      /\ delTo \in [Sessions -> 0..MaxMessages]
      /\ UNCHANGED <<locked, lockedUnder, th, delTo, batch, outcome, replied>>
  BY BoundsAssumption DEF MqInv, TypeOK, Send, replVars, sessionVars, walletVars
<1>2. DeletedWasHandled'
  BY <1>1 DEF MqInv, DeletedWasHandled
<1>3. SentInv'
  BY <1>1, BoundsAssumption DEF MqInv, SentInv
<1>4. AckInv' /\ ReplyInv'
  BY <1>1 DEF MqInv, AckInv, ReplyInv, AnsweredOnce, First
<1>5. LockInv'
  BY <1>1 DEF MqInv, LockInv, NoWalletOnlyIfLockedUnder
<1>6. QED
  BY <1>2, <1>3, <1>4, <1>5 DEF MqInv

(* A restart ends the sessions; the relay still has what was not acknowledged. *)
LEMMA RestartStep ==
  ASSUME MqInv, TypeOK', Restart
  PROVE  MqInv'
<1>1. /\ \A x \in Sessions : th'[x] \in {"None", "Ended"} /\ (th'[x] = "None" => th[x] = "None")
      /\ \A x \in Sessions : delTo'[x] = 0
      /\ UNCHANGED <<lockedUnder, sent, mail, outcome, replied>>
  BY DEF Restart, relayVars, walletVars
<1>2. DeletedWasHandled' /\ SentInv'
  <2>1. sent \in Nat
    BY BoundsAssumption DEF MqInv, TypeOK
  <2>2. QED
    BY <1>1, <2>1 DEF MqInv, DeletedWasHandled, SentInv
<1>3. AckInv'
  BY <1>1 DEF AckInv
<1>4. ReplyInv'
  BY <1>1 DEF MqInv, ReplyInv, AnsweredOnce
<1>5. LockInv'
  BY <1>1 DEF MqInv, LockInv, NoWalletOnlyIfLockedUnder, Alive
<1>6. QED
  BY <1>2, <1>3, <1>4, <1>5 DEF MqInv

LEMMA NextMq == MqInv /\ [Next]_vars => MqInv'
<1> SUFFICES ASSUME MqInv, [Next]_vars PROVE MqInv'
  OBVIOUS
<1>1. TypeOK'
  BY TypeStep DEF MqInv
<1>2. CASE Repl
  BY <1>1, <1>2, ReplStep
<1>3. ASSUME NEW x \in Sessions, ThreadStep(x) PROVE MqInv'
  BY <1>1, <1>3, SendGetStep, GetMessagesStep, HandleMessageStep, ReplyStep, ThreadQuiet
     DEF ThreadStep
<1>4. CASE Send
  BY <1>1, <1>4, SendStep
<1>5. CASE Restart
  BY <1>1, <1>5, RestartStep
<1>6. CASE UNCHANGED vars
  BY <1>6 DEF vars, replVars, sessionVars, relayVars, walletVars, MqInv, TypeOK,
              DeletedWasHandled, SentInv, AckInv, ReplyInv, AnsweredOnce, First, LockInv,
              NoWalletOnlyIfLockedUnder
<1>7. QED
  BY <1>2, <1>3, <1>4, <1>5, <1>6 DEF Next

LEMMA SpecMq == Spec => []MqInv
BY InitMq, NextMq, PTL DEF Spec

(* Everything the sessions, the relay and the REPL keep has its type. *)
THEOREM SessionsTyped == Spec => []TypeOK
<1>1. MqInv => TypeOK
  BY DEF MqInv
<1>2. QED
  BY <1>1, SpecMq, PTL

(* For any number of sessions and messages the relay deletes, on the delTo of
   a GET, only slates that a thread has handed to the wallet: a crash, a stop
   or a panic in the middle of a batch loses none of the rest. *)
THEOREM RelayKeepsUnhandled == Spec => []DeletedWasHandled
<1>1. MqInv => DeletedWasHandled
  BY DEF MqInv
<1>2. QED
  BY <1>1, SpecMq, PTL

(* No two sessions answer one slate, and none answers it again, although the
   relay hands it out until it is acknowledged. *)
THEOREM SlatesAnsweredOnce == Spec => []AnsweredOnce
<1>1. MqInv => AnsweredOnce
  BY DEF MqInv, ReplyInv
<1>2. QED
  BY <1>1, SpecMq, PTL

(* For any number of sessions and messages a slate finds no wallet only if it
   was locked while a listener's thread was alive: by `lock', which does not
   check for mwcmqs, or by set-recv failing to open an account. *)
THEOREM LossNeedsLock == Spec => []NoWalletOnlyIfLockedUnder
<1>1. MqInv => NoWalletOnlyIfLockedUnder
  BY DEF MqInv, LockInv
<1>2. QED
  BY <1>1, SpecMq, PTL
-----------------------------------------------------------------------------
(* Relay and listener are a mailbox. *)

(* Threads hold, and the wallet has looked at, only what was sent. *)
CarriedInv ==
    /\ \A x \in Sessions : batch[x] \subseteq 1..sent
    /\ \A m \in Messages : outcome[m] # "None" => m \in 1..sent

(* Batches come from the relay, and the wallet looks at what is in one. *)
LEMMA CarrySteps ==
  ASSUME MqInv, [Next]_vars
  PROVE  /\ sent' \in {sent, sent + 1}
         /\ \A y \in Sessions : batch'[y] \subseteq batch[y] \cup mail
         /\ \A m \in Messages : outcome'[m] # outcome[m] => \E x \in Sessions : m \in batch[x]
<1>0. /\ batch \in [Sessions -> SUBSET Messages] /\ outcome \in [Messages -> Outcomes]
  BY DEF MqInv, TypeOK
<1>1. CASE Repl \/ Restart \/ Send \/ UNCHANGED vars
  <2>1. /\ outcome' = outcome /\ sent' \in {sent, sent + 1}
        /\ batch' = batch \/ \A y \in Sessions : batch'[y] = {}
    BY <1>1 DEF Repl, Listen, StopPost, StopInner, Lock, Unlock, Restart, Send, vars,
                replVars, sessionVars, relayVars, walletVars
  <2>2. QED
    BY <2>1
<1>2. ASSUME NEW x \in Sessions, GetMessages(x)
      PROVE  /\ sent' = sent /\ outcome' = outcome
             /\ \A y \in Sessions : batch'[y] \subseteq batch[y] \cup mail
  BY <1>0, <1>2 DEF GetMessages, UpTo, walletVars
<1>3. ASSUME NEW x \in Sessions, HandleMessage(x)
      PROVE  /\ sent' = sent /\ \A y \in Sessions : batch'[y] \subseteq batch[y]
             /\ \A m \in Messages : outcome'[m] # outcome[m] => m \in batch[x]
  <2>1. PICK m \in First(x) :
          /\ batch' \in {batch, [batch EXCEPT ![x] = @ \ {m}]}
          /\ \A k \in Messages \ {m} : outcome'[k] = outcome[k]
    <3>1. PICK m \in First(x) : Effect(x, m)
      BY <1>3, HandleEffect DEF MqInv
    <3>2. batch' \in {batch, [batch EXCEPT ![x] = @ \ {m}]}
      BY <3>1 DEF Effect
    <3>3. \A k \in Messages \ {m} : outcome'[k] = outcome[k]
      BY <1>0, <3>1 DEF Effect
    <3>4. QED
      BY <3>2, <3>3
  <2>2. m \in batch[x]
    BY DEF First
  <2>3. sent' = sent
    BY <1>3 DEF HandleMessage, relayVars
  <2>4. QED
    BY <1>0, <2>1, <2>2, <2>3
<1>4. ASSUME NEW x \in Sessions, Reply(x)
      PROVE  /\ UNCHANGED <<sent, outcome>> /\ \A y \in Sessions : batch'[y] \subseteq batch[y]
  BY <1>0, <1>4 DEF Reply, relayVars
<1>5. ASSUME NEW x \in Sessions,
             \/ Subscribe(x) \/ TimeNow(x) \/ LeaveLoop(x) \/ SendGetFails(x) \/ SendGet(x)
             \/ GetClose(x) \/ GetNil(x) \/ GetNothing(x) \/ CloseInBatch(x)
             \/ BatchDone(x) \/ ReplyPanics(x)
      PROVE  /\ UNCHANGED <<sent, outcome>> /\ \A y \in Sessions : batch'[y] \subseteq batch[y]
  <2>1. /\ UNCHANGED <<sent, outcome>>
        /\ batch' = batch \/ DropLocals(x)
    BY <1>5 DEF Subscribe, TimeNow, LeaveLoop, SendGetFails, SendGet, GetClose, GetNil,
                GetNothing, CloseInBatch, BatchDone, ReplyPanics, End, relayVars, walletVars
  <2>2. QED
    BY <1>0, <2>1 DEF DropLocals
<1>6. QED
  BY <1>1, <1>2, <1>3, <1>4, <1>5 DEF Next, ThreadStep

LEMMA CarriedStep == MqInv /\ CarriedInv /\ [Next]_vars => CarriedInv'
<1> SUFFICES ASSUME MqInv, CarriedInv, [Next]_vars PROVE CarriedInv'
  OBVIOUS
<1>1. /\ sent \in Nat /\ mail \subseteq 1..sent
      /\ sent' \in {sent, sent + 1}
  BY CarrySteps, BoundsAssumption DEF MqInv, TypeOK, SentInv
<1>2. 1..sent \subseteq 1..sent'
  BY <1>1
<1>3. \A y \in Sessions : batch'[y] \subseteq 1..sent'
  BY <1>1, <1>2, CarrySteps DEF CarriedInv
<1>4. \A m \in Messages : outcome'[m] # "None" => m \in 1..sent'
  BY <1>2, CarrySteps DEF CarriedInv
<1>5. QED
  BY <1>3, <1>4 DEF CarriedInv

LEMMA SpecCarried == Spec => [](MqInv /\ CarriedInv)
<1>1. Init => CarriedInv
  BY DEF Init, CarriedInv
<1>2. QED
  BY <1>1, InitMq, NextMq, CarriedStep, PTL DEF Spec

(* The fates of a message, apart from one another. *)
LEMMA Fates ==
  ASSUME MqInv, CarriedInv, NEW m \in Messages
  PROVE  /\ Fate(m) = "Unsent" <=> m > sent
         /\ Fate(m) = "Waiting" <=> m \in 1..sent /\ outcome[m] = "None"
         /\ Fate(m) = "Refused" <=> outcome[m] \in {"Dropped", "NoWallet"}
         /\ Fate(m) = "Received" <=> outcome[m] = "Received" /\ m \notin replied
         /\ Fate(m) = "Answered" <=> m \in replied
<1>1. /\ outcome[m] \in Outcomes /\ sent \in Nat
      /\ m \in Nat /\ m >= 1 /\ m \in 1..sent <=> ~(m > sent)
  BY BoundsAssumption DEF MqInv, TypeOK, Messages
<1>2. /\ m \in replied => outcome[m] = "Received"
      /\ outcome[m] # "None" => m \in 1..sent
  BY DEF MqInv, ReplyInv, CarriedInv
<1>3. QED
  BY <1>1, <1>2 DEF Fate, Outcomes

(* A step that changes the fate of one message is a step of the mailbox. *)
LEMMA OneMoves ==
  ASSUME NEW m \in Messages, \A k \in Messages \ {m} : Fate(k)' = Fate(k)
  PROVE  [k \in Messages |-> Fate(k)'] = [[k \in Messages |-> Fate(k)] EXCEPT ![m] = Fate(m)']
OBVIOUS

LEMMA InitBox == Init => Box!Init
<1> SUFFICES ASSUME Init PROVE Box!Init
  OBVIOUS
<1>1. \A m \in Messages : m > 0
  BY BoundsAssumption DEF Messages
<1>2. \A m \in Messages : Fate(m) = "Unsent"
  BY <1>1 DEF Init, Fate
<1>3. QED
  BY <1>2 DEF Init, Box!Init

(* Polling, answers without slates, the ends of sessions and all commands. *)
LEMMA StaysBox ==
  ASSUME UNCHANGED <<sent, mail, outcome, replied>>
  PROVE  UNCHANGED Box!vars
BY DEF Box!vars, Fate

(* The wallet looks at a slate: Receive, Refuse, or nothing new. *)
LEMMA HandleBox ==
  ASSUME MqInv, CarriedInv, MqInv', CarriedInv', NEW x \in Sessions, HandleMessage(x)
  PROVE  Box!Next \/ UNCHANGED Box!vars
<1>1. PICK m \in First(x) : Effect(x, m)
  BY HandleEffect DEF MqInv
<1>2. m \in Messages /\ m \in 1..sent
  BY FirstUnique DEF MqInv, CarriedInv
<1>3. /\ UNCHANGED <<sent, mail, replied>>
      /\ outcome \in [Messages -> Outcomes]
  BY HandleEffect DEF MqInv, TypeOK
<1>4. \A k \in Messages \ {m} : Fate(k)' = Fate(k)
  BY <1>1, <1>2, <1>3 DEF Fate, Effect
<1>5. [k \in Messages |-> Fate(k)'] = [[k \in Messages |-> Fate(k)] EXCEPT ![m] = Fate(m)']
  BY <1>2, <1>4, OneMoves
<1>6. CASE outcome[m] # "Received" /\ outcome'[m] = "Received"
  <2>1. Fate(m) \in {"Waiting", "Refused"} /\ Fate(m)' = "Received"
    <3>1. m \notin replied
      BY <1>6 DEF MqInv, ReplyInv
    <3>2. outcome[m] \in {"None", "Dropped", "NoWallet"}
      BY <1>2, <1>3, <1>6 DEF Outcomes
    <3>3. QED
      BY <1>2, <1>3, <1>6, <3>1, <3>2, Fates DEF Fate
  <2>2. Box!Receive(m)
    BY <1>2, <1>3, <1>5, <2>1 DEF Box!Receive, Box!Becomes
  <2>3. QED
    BY <1>2, <2>2 DEF Box!Next
<1>7. CASE outcome[m] = "None" /\ outcome'[m] \in {"Dropped", "NoWallet"}
  <2>1. Fate(m) = "Waiting" /\ Fate(m)' = "Refused"
    BY <1>2, <1>3, <1>7, Fates DEF Fate, MqInv, ReplyInv
  <2>2. Box!Refuse(m)
    BY <1>2, <1>3, <1>5, <2>1 DEF Box!Refuse, Box!Becomes
  <2>3. QED
    BY <1>2, <2>2 DEF Box!Next
<1>8. CASE outcome' = outcome
  BY <1>3, <1>8, StaysBox
<1>9. QED
  BY <1>1, <1>2, <1>3, <1>6, <1>7, <1>8 DEF Effect

(* The answer the relay takes is the first one: Answer. *)
LEMMA ReplyBox ==
  ASSUME MqInv, CarriedInv, NEW x \in Sessions, Reply(x) \/ ReplyPanics(x)
  PROVE  Box!Next \/ UNCHANGED Box!vars
<1>1. /\ th[x] = "Reply" /\ UNCHANGED <<sent, mail, outcome>>
      /\ replied' \in {replied, replied \cup First(x)}
  BY DEF Reply, ReplyPanics, relayVars
<1>2. CASE replied' = replied
  BY <1>1, <1>2, StaysBox
<1>3. ASSUME NEW m \in First(x), replied' = replied \cup First(x)
      PROVE  Box!Next
  <2>1. m \in Messages /\ First(x) = {m} /\ outcome[m] = "Received" /\ m \notin replied
    BY <1>1, <1>3, FirstUnique DEF MqInv, ReplyInv, AnsweredOnce
  <2>2. m \in 1..sent /\ sent \in Nat
    BY <2>1, BoundsAssumption DEF CarriedInv, MqInv, TypeOK
  <2>3. Fate(m) = "Received" /\ Fate(m)' = "Answered"
    BY <1>1, <1>3, <2>1, <2>2, Fates DEF Fate
  <2>4. \A k \in Messages \ {m} : Fate(k)' = Fate(k)
    BY <1>1, <1>3, <2>1 DEF Fate
  <2>5. [k \in Messages |-> Fate(k)'] = [[k \in Messages |-> Fate(k)] EXCEPT ![m] = Fate(m)']
    BY <2>1, <2>4, OneMoves
  <2>6. Box!Answer(m)
    BY <1>1, <2>1, <2>3, <2>5 DEF Box!Answer, Box!Becomes
  <2>7. QED
    BY <2>1, <2>6 DEF Box!Next
<1>4. QED
  BY <1>1, <1>2, <1>3

(* The delTo of a GET: Delete. *)
LEMMA DeleteBox ==
  ASSUME MqInv, CarriedInv, MqInv', NEW x \in Sessions, SendGet(x)
  PROVE  Box!Next
<1>1. mail' \subseteq mail /\ UNCHANGED <<sent, outcome, replied>>
  BY DEF SendGet, walletVars
<1> DEFINE S == mail \ mail'
<1>2. ASSUME NEW m \in S PROVE [k \in Messages |-> Fate(k)][m] # "Waiting"
  <2>1. m \in 1..sent /\ m \in Messages
    BY DEF MqInv, SentInv, TypeOK
  <2>2. outcome[m] # "None"
    BY <1>1, <2>1 DEF MqInv, DeletedWasHandled
  <2>3. QED
    BY <2>1, <2>2, Fates
<1>3. [k \in Messages |-> Fate(k)'] = [k \in Messages |-> Fate(k)]
  BY <1>1 DEF Fate
<1>4. Box!Delete(S)
  BY <1>1, <1>2, <1>3 DEF Box!Delete
<1>5. QED
  BY <1>4 DEF Box!Next

(* Another wallet posts a slate: Send. *)
LEMMA SendBox ==
  ASSUME MqInv, CarriedInv, Send
  PROVE  Box!Next
<1> PICK m : m = sent + 1
  OBVIOUS
<1>1. /\ sent \in Nat /\ m \in Messages /\ sent' = m /\ mail' = mail \cup {m}
      /\ UNCHANGED <<outcome, replied>>
  BY BoundsAssumption DEF Send, MqInv, TypeOK, Messages, walletVars
<1>2. m \notin 1..sent
  BY <1>1
<1>3. outcome[m] = "None" /\ m \notin replied
  BY <1>1, <1>2 DEF CarriedInv, MqInv, ReplyInv
<1>4. Fate(m) = "Unsent" /\ Fate(m)' = "Waiting"
  BY <1>1, <1>3 DEF Fate
<1>5. \A k \in Messages \ {m} : Fate(k)' = Fate(k)
  <2>1. \A k \in Messages \ {m} : k \in Nat /\ (k > sent <=> k > sent')
    BY <1>1, BoundsAssumption DEF Messages
  <2>2. QED
    BY <1>1, <2>1 DEF Fate
<1>6. [k \in Messages |-> Fate(k)'] = [[k \in Messages |-> Fate(k)] EXCEPT ![m] = Fate(m)']
  BY <1>1, <1>5, OneMoves
<1>7. Box!Send(m)
  BY <1>1, <1>4, <1>6 DEF Box!Send, Box!Becomes
<1>8. QED
  BY <1>1, <1>7 DEF Box!Next

LEMMA StepBox ==
  MqInv /\ CarriedInv /\ MqInv' /\ CarriedInv' /\ [Next]_vars => [Box!Next]_(Box!vars)
<1> SUFFICES ASSUME MqInv, CarriedInv, MqInv', CarriedInv', [Next]_vars
             PROVE  Box!Next \/ UNCHANGED Box!vars
  OBVIOUS
<1>1. CASE Repl \/ Restart \/ UNCHANGED vars
  <2>1. UNCHANGED <<sent, mail, outcome, replied>>
    BY <1>1 DEF Repl, Listen, StopPost, StopInner, Lock, Unlock, Restart, vars,
                relayVars, walletVars
  <2>2. QED
    BY <2>1, StaysBox
<1>2. CASE Send
  BY <1>2, SendBox
<1>3. ASSUME NEW x \in Sessions, ThreadStep(x)
      PROVE  Box!Next \/ UNCHANGED Box!vars
  <2>1. CASE HandleMessage(x) \/ Reply(x) \/ ReplyPanics(x) \/ SendGet(x)
    BY <2>1, HandleBox, ReplyBox, DeleteBox
  <2>2. CASE \/ Subscribe(x) \/ TimeNow(x) \/ LeaveLoop(x) \/ SendGetFails(x)
             \/ GetMessages(x) \/ GetClose(x) \/ GetNil(x) \/ GetNothing(x)
             \/ CloseInBatch(x) \/ BatchDone(x)
    <3>1. UNCHANGED <<sent, mail, outcome, replied>>
      BY <2>2 DEF Subscribe, TimeNow, LeaveLoop, SendGetFails, GetMessages, GetClose, GetNil,
                  GetNothing, CloseInBatch, BatchDone, relayVars, walletVars
    <3>2. QED
      BY <3>1, StaysBox
  <2>3. QED
    BY <1>3, <2>1, <2>2 DEF ThreadStep
<1>4. QED
  BY <1>1, <1>2, <1>3 DEF Next

(* For any number of sessions and messages, the relay and the listener threads
   of broker/mwcmq.rs implement a mailbox: a slate is kept until the wallet has
   looked at it, what was received stays received, and it is answered once. *)
THEOREM ListenerImplementsMailbox == Spec => ImplementsMailbox
BY InitBox, StepBox, SpecCarried, PTL DEF Spec, ImplementsMailbox, Box!Spec
=============================================================================
