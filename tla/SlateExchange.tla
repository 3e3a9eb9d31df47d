--------------------------- MODULE SlateExchange ---------------------------
(***************************************************************************)
(* One wallet's side of the slate exchange of mwc713.                      *)
(*                                                                         *)
(* Command threads (the REPL and the owner API workers) and the listener   *)
(* thread share Arc<Mutex<Wallet>>; the wallet-updater thread touches the  *)
(* same database without that mutex.  A send selects inputs and saves a    *)
(* private context, hands the slate to a relay, locks the inputs, and is   *)
(* finalized when the peer's reply comes back, unless it was cancelled.    *)
(* An invoice is paid by the listener: inputs are selected and locked, the *)
(* slate goes back, and the peer posts the transaction.                    *)
(*                                                                         *)
(* Slates in transit may be duplicated, delayed, reordered and lost; a     *)
(* post that reports an error may have been delivered; the process may     *)
(* crash and restart between any two steps.                                *)
(***************************************************************************)
EXTENDS Naturals, FiniteSets

CONSTANTS
    Slates,      \* slate ids
    Invoices,    \* the slates that peers issue as invoices to this wallet
    Acceptable,  \* the invoices with amount <= max_auto_accept_invoice
    Outputs,     \* outputs this wallet owns at the start
    Threads,     \* command threads: the REPL and the owner API workers
    Listener,    \* the listener thread, running Controller::on_slate
    Nobody,      \* the mutex is free
    NoSlate,     \* a thread works on no slate
    Lossy,       \* TRUE: the relay may lose slates
    Crashes      \* TRUE: the process may die and be started again

Workers == Threads \cup {Listener}
Sends   == Slates \ Invoices

ASSUME SlatesAssumption ==
    /\ Acceptable \subseteq Invoices
    /\ Invoices \subseteq Slates
    /\ NoSlate \notin Slates
ASSUME ThreadsAssumption ==
    /\ Listener \notin Threads
    /\ Nobody \notin Workers
ASSUME FaultsAssumption == Lossy \in BOOLEAN /\ Crashes \in BOOLEAN

VARIABLES
    mutex,    \* the holder of Arc<Mutex<Wallet>>, or Nobody
    pc,       \* pc[w]: where thread w is in its command or handler
    cur,      \* cur[w]: the slate it works on
    inputs,   \* inputs[s]: the inputs in the private context of s
    ctx,      \* ctx[s]: the private context of s in the database
    txlog,    \* txlog[s]: the type of the TxLogEntry of s, as TxSent side
    stored,   \* slates whose finalized transaction is stored
    status,   \* status[o]: OutputData::status
    result,   \* result[s]: what the send command told the user before locking
    dropped,  \* slates turned away: replies to what the wallet does not know
              \* as sent, and invoices it does not pay
    relay,    \* relay[s]: slates in transit: "Slate" (first pass), "Reply"
    peer,     \* peer[s]: what the other wallet did with s
    chain     \* chain[s]: the node's view of the transaction

dbVars     == <<inputs, ctx, txlog, stored, status>>
threadVars == <<mutex, pc, cur>>
vars == <<threadVars, dbVars, result, dropped, relay, peer, chain>>

(* Places at which a thread owns the mutex guard. *)
Holding ==
    {"Send", "Select", "Post", "Lock", "HttpsLock", "Finalize", "PostTx",
     "Cancel", "CancelTx", "Invoice", "InvoiceSelect", "InvoiceLock"}
Waiting == {"GotReply", "GotInvoice"}
Places == Holding \cup Waiting \cup {"Idle", "InvoiceReply", "Dead"}

TypeOK ==
    /\ mutex \in Workers \cup {Nobody}
    /\ pc \in [Workers -> Places]
    /\ cur \in [Workers -> Slates \cup {NoSlate}]
    /\ inputs \in [Slates -> SUBSET Outputs]
    /\ ctx \in [Slates -> {"None", "Saved", "Deleted"}]
    /\ txlog \in [Slates -> {"None", "TxSent", "Confirmed", "Cancelled"}]
    /\ stored \in SUBSET Slates
    /\ status \in [Outputs -> {"Unspent", "Locked", "Spent"}]
    /\ result \in [Slates -> {"None", "Sent", "Unsent"}]
    /\ dropped \in SUBSET Slates
    /\ relay \in [Slates -> SUBSET {"Slate", "Reply"}]
    /\ peer \in [Slates -> {"None", "Received", "Issued"}]
    /\ chain \in [Slates -> {"None", "Pool", "Confirmed"}]

Init ==
    /\ mutex = Nobody
    /\ pc = [w \in Workers |-> "Idle"]
    /\ cur = [w \in Workers |-> NoSlate]
    /\ inputs = [s \in Slates |-> {}]
    /\ ctx = [s \in Slates |-> "None"]
    /\ txlog = [s \in Slates |-> "None"]
    /\ stored = {}
    /\ status = [o \in Outputs |-> "Unspent"]
    /\ result = [s \in Slates |-> "None"]
    /\ dropped = {}
    /\ relay = [s \in Slates |-> {}]
    /\ peer = [s \in Slates |-> "None"]
    /\ chain = [s \in Slates |-> "None"]

-----------------------------------------------------------------------------
(* Helpers on threads and on the database. *)

Goto(w, place) == pc' = [pc EXCEPT ![w] = place]

(* wallet.lock(): the guard is taken for slate s. *)
Acquire(w, place, s) ==
    /\ mutex = Nobody
    /\ mutex' = w
    /\ Goto(w, place)
    /\ cur' = [cur EXCEPT ![w] = s]

(* The handler returns and its guard is dropped. *)
Return(w) ==
    /\ mutex' = Nobody
    /\ Goto(w, "Idle")
    /\ cur' = [cur EXCEPT ![w] = NoSlate]

(* A thread keeps the guard and goes on to its next call. *)
Continue(w, place) ==
    /\ Goto(w, place)
    /\ UNCHANGED <<mutex, cur>>

Unspent == {o \in Outputs : status[o] = "Unspent"}

(* Transactions that own their inputs: sent and not cancelled. *)
Live(s) == txlog[s] \in {"TxSent", "Confirmed"}

ChainSpent == UNION {inputs[s] : s \in {r \in Slates : chain[r] = "Confirmed"}}

(* libwallet update_wallet_state with a node that answers: spent outputs
   and confirmed transactions are recorded. *)
UpdateWalletState ==
    /\ status' = [o \in Outputs |->
                    IF o \in ChainSpent THEN "Spent" ELSE status[o]]
    /\ txlog' = [s \in Slates |->
                   IF txlog[s] = "TxSent" /\ chain[s] = "Confirmed"
                   THEN "Confirmed" ELSE txlog[s]]

(* libwallet lock_tx_context: the inputs of the context become Locked,
   whatever they were, and a TxSent entry is created. *)
LockTxContext(s) ==
    /\ status' = [o \in Outputs |->
                    IF o \in inputs[s] THEN "Locked" ELSE status[o]]
    /\ txlog' = [txlog EXCEPT ![s] = "TxSent"]

(* libwallet cancel_tx_and_outputs. *)
CancelTxAndOutputs(s) ==
    /\ status' = [o \in Outputs |->
                    IF o \in inputs[s] /\ status[o] = "Locked"
                    THEN "Unspent" ELSE status[o]]
    /\ txlog' = [txlog EXCEPT ![s] = "Cancelled"]

(* libwallet finalize_tx succeeds: the context is there and the log has a
   TxSent entry for the slate. *)
CanFinalize(s) == ctx[s] = "Saved" /\ txlog[s] = "TxSent"

(* The node accepts a transaction that conflicts with no other it knows. *)
NodeAccepts(s) ==
    \A r \in Slates \ {s} : chain[r] # "None" => inputs[r] \cap inputs[s] = {}

ToPool(s) ==
    chain' = [chain EXCEPT ![s] = IF @ = "None" THEN "Pool" ELSE @]

Put(s, m)  == [relay EXCEPT ![s] = @ \cup {m}]
Take(s, m) == {relay, [relay EXCEPT ![s] = @ \ {m}]}

-----------------------------------------------------------------------------
(* Sending: `send` of the REPL and issue_send_tx of the owner API. *)

(* The guard is taken before initiate_send_tx and kept to the end. *)
BeginSend(t) ==
    /\ pc[t] = "Idle"
    /\ Acquire(t, "Send", NoSlate)
    /\ UNCHANGED <<dbVars, result, dropped, relay, peer, chain>>

(* update_wallet_state at the start of initiate_tx, invoice_tx and cancel_tx.
   A node that does not answer (Ok(false)) stops only cancel_tx. *)
RefreshNext(place) ==
    CASE place = "Send"    -> "Select"
      [] place = "Invoice" -> "InvoiceSelect"
      [] place = "Cancel"  -> "CancelTx"

Refresh(w) ==
    /\ pc[w] \in {"Send", "Invoice", "Cancel"}
    /\ \/ UpdateWalletState /\ Continue(w, RefreshNext(pc[w]))
       \/ /\ pc[w] # "Cancel"
          /\ Continue(w, RefreshNext(pc[w]))
          /\ UNCHANGED <<status, txlog>>
    /\ UNCHANGED <<inputs, ctx, stored, result, dropped, relay, peer, chain>>

(* init_send_tx: a new slate id, inputs among the unspent outputs, and a
   saved context; the outputs are not locked yet. *)
SelectInputs(w, s, I, place) ==
    /\ I # {}
    /\ I \subseteq Unspent
    /\ inputs' = [inputs EXCEPT ![s] = I]
    /\ ctx' = [ctx EXCEPT ![s] = "Saved"]
    /\ cur' = [cur EXCEPT ![w] = s]
    /\ Goto(w, place)
    /\ UNCHANGED <<mutex, stored>>

(* Mutant: the outputs are locked and logged as soon as they are selected. *)
InitiateSendTxLocks(t) ==
    /\ pc[t] = "Select"
    /\ \E s \in Sends, I \in SUBSET Outputs :
          /\ ctx[s] = "None"
          /\ SelectInputs(t, s, I, "Post")
          /\ status' = [o \in Outputs |-> IF o \in I THEN "Locked" ELSE status[o]]
          /\ txlog' = [txlog EXCEPT ![s] = "TxSent"]
    /\ UNCHANGED <<result, dropped, relay, peer, chain>>

InitiateSendTx(t) ==
    /\ pc[t] = "Select"
    /\ \E s \in Sends, I \in SUBSET Outputs :
          ctx[s] = "None" /\ SelectInputs(t, s, I, "Post")
    /\ UNCHANGED <<status, txlog, result, dropped, relay, peer, chain>>

(* Not enough funds, a locked wallet or a database error: nothing is left. *)
InitiateSendTxFails(t) ==
    /\ pc[t] \in {"Send", "Select"}
    /\ Return(t)
    /\ UNCHANGED <<dbVars, result, dropped, relay, peer, chain>>

(* Mutant: the guard is dropped once the slate is out, and the outputs are
   locked without it. *)
PostSlateUnguarded(t) ==
    /\ pc[t] = "Post"
    /\ relay' = Put(cur[t], "Slate")
    /\ mutex' = Nobody
    /\ Goto(t, "Lock")
    /\ UNCHANGED <<cur, dbVars, result, dropped, peer, chain>>

(* post_slate returned Ok. *)
PostSlate(t) ==
    /\ pc[t] = "Post"
    /\ relay' = Put(cur[t], "Slate")
    /\ Continue(t, "Lock")
    /\ UNCHANGED <<dbVars, result, dropped, peer, chain>>

(* post_slate returned an error: the relay has the slate or has not. *)
PostSlateFails(t) ==
    /\ pc[t] = "Post"
    /\ relay' \in {relay, Put(cur[t], "Slate")}
    /\ result' = [result EXCEPT ![cur[t]] = "Unsent"]
    /\ Return(t)
    /\ UNCHANGED <<dbVars, dropped, peer, chain>>

(* https destination: the peer's receive_tx answers with the reply. *)
PostHttps(t) ==
    /\ pc[t] = "Post"
    /\ peer' = [peer EXCEPT ![cur[t]] = "Received"]
    /\ Continue(t, "HttpsLock")
    /\ UNCHANGED <<dbVars, result, dropped, relay, chain>>

(* No answer, or an error answer; the peer has handled the slate or not.
   The owner API then looks the slate id up and cancels it, which finds no
   log entry and changes nothing. *)
PostHttpsFails(t) ==
    /\ pc[t] = "Post"
    /\ peer' \in {peer, [peer EXCEPT ![cur[t]] = "Received"]}
    /\ result' = [result EXCEPT ![cur[t]] = "Unsent"]
    /\ Return(t)
    /\ UNCHANGED <<dbVars, dropped, relay, chain>>

(* tx_lock_outputs after the slate went out; with an https destination the
   reply is in hand and is finalized under the same guard, unless get_id, for
   the message to the user, fails first. *)
TxLockOutputs(t) ==
    /\ pc[t] \in {"Lock", "HttpsLock"}
    /\ LockTxContext(cur[t])
    /\ result' = [result EXCEPT ![cur[t]] = "Sent"]
    /\ \/ Return(t)
       \/ pc[t] = "HttpsLock" /\ Continue(t, "Finalize")
    /\ UNCHANGED <<inputs, ctx, stored, dropped, relay, peer, chain>>

(* Mutant: the outputs are written before the log entry fails. *)
TxLockOutputsHalfDone(t) ==
    /\ pc[t] \in {"Lock", "HttpsLock"}
    /\ status' = [o \in Outputs |->
                    IF o \in inputs[cur[t]] THEN "Locked" ELSE status[o]]
    /\ result' = [result EXCEPT ![cur[t]] = "Unsent"]
    /\ Return(t)
    /\ UNCHANGED <<inputs, ctx, txlog, stored, dropped, relay, peer, chain>>

(* An error of tx_lock_outputs comes before the batch is committed. *)
TxLockOutputsFails(t) ==
    /\ pc[t] \in {"Lock", "HttpsLock"}
    /\ result' = [result EXCEPT ![cur[t]] = "Unsent"]
    /\ Return(t)
    /\ UNCHANGED <<dbVars, dropped, relay, peer, chain>>

-----------------------------------------------------------------------------
(* Finalizing: the listener's replies, `finalize` and the owner API. *)

(* `finalize` of a reply file, or finalize_tx of the owner API. *)
BeginFinalize(t, s) ==
    /\ pc[t] = "Idle"
    /\ s \in Sends
    /\ "Reply" \in relay[s]
    /\ Acquire(t, "Finalize", s)
    /\ UNCHANGED <<dbVars, result, dropped, relay, peer, chain>>

(* finalize_tx: the context is used up and the transaction stored; a slate
   without context or log entry is turned away.  After an error the listener
   tries finalize_invoice_slate, which fails too; the reply is gone. *)
FinalizeSlate(w) ==
    /\ pc[w] = "Finalize"
    /\ IF CanFinalize(cur[w])
       THEN /\ ctx' = [ctx EXCEPT ![cur[w]] = "Deleted"]
            /\ stored' = stored \cup {cur[w]}
            /\ Continue(w, "PostTx")
            /\ UNCHANGED dropped
       ELSE /\ dropped' = dropped \cup {cur[w]}
            /\ Return(w)
            /\ UNCHANGED <<ctx, stored>>
    /\ UNCHANGED <<inputs, txlog, status, result, relay, peer, chain>>

(* Mutant: the second attempt takes the mutex again, and the guard of the first
   is alive to the end of the match. *)
FinalizeFailsRelocks(w) ==
    /\ pc[w] = "Finalize"
    /\ IF w = Listener THEN Continue(w, "GotReply") ELSE Return(w)
    /\ UNCHANGED <<dbVars, result, dropped, relay, peer, chain>>

(* finalize_slate fails whatever the slate is: the wallet is locked, the
   messages of the slate do not verify, or the database fails, which may be
   after the transaction was stored and before the context is deleted. *)
FinalizeFails(w) ==
    /\ pc[w] = "Finalize"
    /\ \/ UNCHANGED stored
       \/ CanFinalize(cur[w]) /\ stored' = stored \cup {cur[w]}
    /\ Return(w)
    /\ UNCHANGED <<inputs, ctx, txlog, status, result, dropped, relay, peer, chain>>

(* post_tx to the node, which may refuse, or accept and not answer; it is not
   reached when store_tx_proof fails.  After an error the listener tries
   finalize_invoice_slate, which finds no context. *)
PostTx(w) ==
    /\ pc[w] = "PostTx"
    /\ \/ NodeAccepts(cur[w]) /\ ToPool(cur[w])
       \/ UNCHANGED chain
    /\ Return(w)
    /\ UNCHANGED <<dbVars, result, dropped, relay, peer>>

(* `submit` of a stored transaction, post_tx of the owner API. *)
BeginSubmit(t, s) ==
    /\ pc[t] = "Idle"
    /\ s \in stored
    /\ Acquire(t, "PostTx", s)
    /\ UNCHANGED <<dbVars, result, dropped, relay, peer, chain>>

-----------------------------------------------------------------------------
(* Cancelling. *)

BeginCancel(t, s) ==
    /\ pc[t] = "Idle"
    /\ txlog[s] # "None"
    /\ Acquire(t, "Cancel", s)
    /\ UNCHANGED <<dbVars, result, dropped, relay, peer, chain>>

(* The node did not answer update_wallet_state, the wallet is locked or the
   database fails: nothing is cancelled. *)
CancelFails(t) ==
    /\ pc[t] \in {"Cancel", "CancelTx"}
    /\ Return(t)
    /\ UNCHANGED <<dbVars, result, dropped, relay, peer, chain>>

(* Only an unconfirmed TxSent entry can be cancelled. *)
CancelTx(t) ==
    /\ pc[t] = "CancelTx"
    /\ IF txlog[cur[t]] = "TxSent"
       THEN CancelTxAndOutputs(cur[t])
       ELSE UNCHANGED <<status, txlog>>
    /\ Return(t)
    /\ UNCHANGED <<inputs, ctx, stored, result, dropped, relay, peer, chain>>

-----------------------------------------------------------------------------
(* The listener. *)

(* on_slate is called with a reply; the relay may deliver it again later. *)
OnReply(s) ==
    /\ pc[Listener] = "Idle"
    /\ s \in Sends
    /\ "Reply" \in relay[s]
    /\ relay' \in Take(s, "Reply")
    /\ Goto(Listener, "GotReply")
    /\ cur' = [cur EXCEPT ![Listener] = s]
    /\ UNCHANGED <<mutex, dbVars, result, dropped, peer, chain>>

OnInvoice(s) ==
    /\ pc[Listener] = "Idle"
    /\ s \in Invoices
    /\ "Slate" \in relay[s]
    /\ relay' \in Take(s, "Slate")
    /\ Goto(Listener, "GotInvoice")
    /\ cur' = [cur EXCEPT ![Listener] = s]
    /\ UNCHANGED <<mutex, dbVars, result, dropped, peer, chain>>

(* process_incoming_slate takes the mutex. *)
ListenerLock ==
    /\ pc[Listener] \in Waiting
    /\ Acquire(Listener,
               IF pc[Listener] = "GotReply" THEN "Finalize" ELSE "Invoice",
               cur[Listener])
    /\ UNCHANGED <<dbVars, result, dropped, relay, peer, chain>>

(* process_receiver_initiated_slate refuses: invoices are not accepted, the
   amount is over the limit, the slate is known, or there are no funds. *)
RejectInvoice ==
    /\ \/ pc[Listener] = "Invoice" /\ cur[Listener] \notin Acceptable
       \/ pc[Listener] = "InvoiceSelect"
    /\ dropped' = dropped \cup {cur[Listener]}
    /\ Return(Listener)
    /\ UNCHANGED <<dbVars, result, relay, peer, chain>>

RefreshForInvoice ==
    /\ pc[Listener] = "Invoice" => cur[Listener] \in Acceptable
    /\ Refresh(Listener)

(* invoice_tx: inputs are selected for a slate not seen before. *)
InvoiceTx ==
    /\ pc[Listener] = "InvoiceSelect"
    /\ txlog[cur[Listener]] = "None"
    /\ \E I \in SUBSET Outputs :
          SelectInputs(Listener, cur[Listener], I, "InvoiceLock")
    /\ UNCHANGED <<status, txlog, result, dropped, relay, peer, chain>>

(* tx_lock_outputs with participant 1; the guard is dropped before the reply
   is posted. *)
InvoiceLock ==
    /\ pc[Listener] = "InvoiceLock"
    /\ LockTxContext(cur[Listener])
    /\ mutex' = Nobody
    /\ Goto(Listener, "InvoiceReply")
    /\ UNCHANGED <<cur, inputs, ctx, stored, result, dropped, relay, peer, chain>>

InvoiceLockFails ==
    /\ pc[Listener] = "InvoiceLock"
    /\ dropped' = dropped \cup {cur[Listener]}
    /\ Return(Listener)
    /\ UNCHANGED <<dbVars, result, relay, peer, chain>>

(* publisher.post_slate(..).expect(..): an error kills the listener thread. *)
ReplyToInvoice ==
    /\ pc[Listener] = "InvoiceReply"
    /\ \/ relay' = Put(cur[Listener], "Reply") /\ Goto(Listener, "Idle")
       \/ relay' \in {relay, Put(cur[Listener], "Reply")} /\ Goto(Listener, "Dead")
    /\ cur' = [cur EXCEPT ![Listener] = NoSlate]
    /\ UNCHANGED <<mutex, dbVars, result, dropped, peer, chain>>

-----------------------------------------------------------------------------
(* Everything else: updater thread, peer, relay, node, crash. *)

(* The wallet-updater thread holds only the backend's own mutex. *)
Updater ==
    /\ UpdateWalletState
    /\ UNCHANGED <<threadVars, inputs, ctx, stored, result, dropped, relay,
                   peer, chain>>

(* The peer's listener: a slate it has seen is refused, a new one is
   received and answered, and the answer may get lost. *)
PeerReceive(s) ==
    /\ s \in Sends
    /\ "Slate" \in relay[s]
    /\ \E rest \in Take(s, "Slate") :
          relay' \in IF peer[s] = "None"
                     THEN {rest, [rest EXCEPT ![s] = @ \cup {"Reply"}]}
                     ELSE {rest}
    /\ peer' = [peer EXCEPT ![s] = "Received"]
    /\ UNCHANGED <<threadVars, dbVars, result, dropped, chain>>

PeerIssueInvoice(s) ==
    /\ s \in Invoices
    /\ peer[s] = "None"
    /\ peer' = [peer EXCEPT ![s] = "Issued"]
    /\ relay' = Put(s, "Slate")
    /\ UNCHANGED <<threadVars, dbVars, result, dropped, chain>>

(* The invoice's issuer finalizes the reply and posts the transaction. *)
PeerPostInvoice(s) ==
    /\ s \in Invoices
    /\ "Reply" \in relay[s]
    /\ relay' \in Take(s, "Reply")
    /\ NodeAccepts(s)
    /\ ToPool(s)
    /\ UNCHANGED <<threadVars, dbVars, result, dropped, peer>>

RelayLoses(s) ==
    /\ Lossy
    /\ \E m \in relay[s] : relay' = [relay EXCEPT ![s] = @ \ {m}]
    /\ UNCHANGED <<threadVars, dbVars, result, dropped, peer, chain>>

Mine(s) ==
    /\ chain[s] = "Pool"
    /\ chain' = [chain EXCEPT ![s] = "Confirmed"]
    /\ UNCHANGED <<threadVars, dbVars, result, dropped, relay, peer>>

(* The process dies and is started again: the database stays, a command in
   progress has not reported success. *)
Restart ==
    /\ Crashes
    /\ \E w \in Workers : pc[w] # "Idle"
    /\ mutex' = Nobody
    /\ pc' = [w \in Workers |-> "Idle"]
    /\ cur' = [w \in Workers |-> NoSlate]
    /\ result' = [s \in Slates |->
                    IF \E t \in Threads :
                          cur[t] = s /\ pc[t] \in {"Post", "Lock", "HttpsLock"}
                    THEN "Unsent" ELSE result[s]]
    /\ UNCHANGED <<dbVars, dropped, relay, peer, chain>>

-----------------------------------------------------------------------------
(* The steps that end a send, a finalization or a cancellation that holds
   the mutex. *)
CommandStep(t) ==
    \/ Refresh(t) \/ InitiateSendTx(t) \/ InitiateSendTxFails(t)
    \/ PostSlate(t) \/ PostSlateFails(t) \/ PostHttps(t) \/ PostHttpsFails(t)
    \/ TxLockOutputs(t) \/ TxLockOutputsFails(t)
    \/ FinalizeSlate(t) \/ FinalizeFails(t) \/ PostTx(t)
    \/ CancelFails(t) \/ CancelTx(t)

BeginCommand(t) ==
    \/ BeginSend(t)
    \/ \E s \in Slates :
          BeginFinalize(t, s) \/ BeginSubmit(t, s) \/ BeginCancel(t, s)

ListenerStep ==
    \/ FinalizeSlate(Listener) \/ FinalizeFails(Listener) \/ PostTx(Listener)
    \/ RejectInvoice \/ RefreshForInvoice \/ InvoiceTx
    \/ InvoiceLock \/ InvoiceLockFails \/ ReplyToInvoice

Environment ==
    \/ Updater
    \/ Restart
    \/ \E s \in Slates :
          \/ PeerReceive(s) \/ PeerIssueInvoice(s) \/ PeerPostInvoice(s)
          \/ RelayLoses(s) \/ Mine(s)

Next ==
    \/ \E t \in Threads : BeginCommand(t) \/ CommandStep(t)
    \/ \E s \in Slates : OnReply(s) \/ OnInvoice(s)
    \/ ListenerLock
    \/ ListenerStep
    \/ Environment

Spec == Init /\ [][Next]_vars

(* Commands and the listener keep running; a thread that waits for the
   parking_lot mutex, and a reply that waits for the listener, get their turn
   if the opportunity keeps coming back. *)
Fairness ==
    /\ \A t \in Threads : WF_vars(CommandStep(t))
    /\ WF_vars(ListenerStep)
    /\ SF_vars(ListenerLock)
    /\ \A s \in Slates : SF_vars(OnReply(s))

FairSpec == Spec /\ Fairness

-----------------------------------------------------------------------------
(* The inductive invariant behind LiveInputsDisjoint. *)

(* A thread is at a place that needs the guard exactly when it owns it. *)
MutexOK == \A w \in Workers : pc[w] \in Holding <=> mutex = w

(* Between selecting inputs and locking them. *)
InHand == {"Post", "Lock", "HttpsLock", "InvoiceLock"}

(* The slate in hand has a context and no log entry yet, and its inputs
   belong to no live transaction: nobody locked them since they were selected. *)
InHandFree ==
    \A w \in Workers : pc[w] \in InHand =>
        /\ ctx[cur[w]] # "None"
        /\ txlog[cur[w]] = "None"
        /\ \A r \in Slates : Live(r) => inputs[r] \cap inputs[cur[w]] = {}

(* Threads past their first call work on a slate. *)
CurOK ==
    \A w \in Workers :
        pc[w] \notin {"Idle", "Dead", "Send", "Select"} => cur[w] \in Slates

(* A transaction is logged only after its context was saved. *)
LoggedAfterSaved == \A s \in Slates : ctx[s] = "None" => txlog[s] = "None"

-----------------------------------------------------------------------------
(* Properties. *)

(* No output of a transaction that was sent and not cancelled can be selected
   again, whichever other transaction that once had the output is cancelled,
   reported as failed or lost in a restart, and whatever the updater does. *)
LiveReserved ==
    \A s \in Slates : Live(s) => \A o \in inputs[s] : status[o] # "Unspent"

(* Two transactions that were sent and not cancelled never spend the same
   output: docs/usage.md:313, "the outputs (UTXOs) used become locked and
   cannot be used until the transaction is finalized".  tx_lock_outputs does
   not look whether an input is already locked, so this rests on the guard
   that `send` keeps from initiate_send_tx to tx_lock_outputs. *)
LiveInputsDisjoint ==
    \A s, r \in Slates :
        s # r /\ Live(s) /\ Live(r) => inputs[s] \cap inputs[r] = {}

(* The strengthening of LiveInputsDisjoint that every step preserves. *)
IInv ==
    /\ TypeOK
    /\ MutexOK
    /\ CurOK
    /\ InHandFree
    /\ LoggedAfterSaved
    /\ LiveReserved
    /\ LiveInputsDisjoint

(* No failed send, refused invoice, cancellation or crash leaves an output
   locked that no live transaction owns. *)
NoOrphanLock ==
    \A o \in Outputs :
        status[o] = "Locked" => \E s \in Slates : txlog[s] = "TxSent" /\ o \in inputs[s]

(* A reply turned away because its transaction has no context or no TxSent
   entry belongs to a send that failed, was cancelled or is already finalized:
   no reply overtakes tx_lock_outputs of its send.  Other errors of
   finalize_slate (FinalizeFails) may meet the reply to any send. *)
NoEarlyReply ==
    \A s \in dropped \cap Sends :
        result[s] = "Unsent" \/ txlog[s] = "Cancelled" \/ s \in stored

(* A send that ended in an error before its outputs were locked never reaches
   the node, even when the relay delivered the slate and the peer replied. *)
UnsentNeverPosted ==
    \A s \in Slates : result[s] = "Unsent" => chain[s] = "None"

(* A reply that waits in the relay for a sent transaction is handed to
   finalize_slate, whatever errors the replies before it ended in and whoever
   holds the mutex meanwhile, unless the transaction is finalized or cancelled
   first or the listener thread died answering an invoice. *)
ReplyReachesWallet ==
    \A s \in Sends :
        ("Reply" \in relay[s] /\ txlog[s] = "TxSent")
            ~> \/ \E w \in Workers : pc[w] = "Finalize" /\ cur[w] = s
               \/ s \in stored \/ txlog[s] = "Cancelled" \/ pc[Listener] = "Dead"

(* The wallet implements the reservation of outputs. *)
Ledger == INSTANCE Reservations WITH
    held   <- [s \in Slates |-> IF Live(s) THEN inputs[s] ELSE {}],
    closed <- {s \in Slates : txlog[s] = "Cancelled"}

(* Every step of the wallet reserves free outputs for one transaction, gives
   the outputs of one cancelled transaction back, or leaves reservations be. *)
ImplementsReservations == Ledger!Spec

=============================================================================
