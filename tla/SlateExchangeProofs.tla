------------------------ MODULE SlateExchangeProofs ------------------------
(* Proofs about SlateExchange for any sets of slates, outputs and threads. *)
EXTENDS SlateExchange, TLAPS

(* A thread is never the value that stands for a free mutex. *)
LEMMA WorkerNotNobody == Nobody \notin Workers /\ Listener \in Workers /\ Threads \subseteq Workers
BY ThreadsAssumption DEF Workers

(* The slates this wallet initiates are slates; NoSlate is none. *)
LEMMA SendsAreSlates == Sends \subseteq Slates /\ NoSlate \notin Slates
BY SlatesAssumption DEF Sends

(* The initial state satisfies the inductive invariant. *)
LEMMA InitIInv == Init => IInv
<1> SUFFICES ASSUME Init PROVE IInv
  OBVIOUS
<1> USE WorkerNotNobody
<1>1. TypeOK
  BY DEF Init, TypeOK, Places
<1>2. MutexOK
  BY DEF Init, MutexOK, Holding
<1>3. CurOK
  BY DEF Init, CurOK
<1>4. InHandFree
  BY DEF Init, InHandFree, InHand
<1>5. LoggedAfterSaved
  BY DEF Init, LoggedAfterSaved
<1>6. LiveReserved /\ LiveInputsDisjoint
  BY DEF Init, LiveReserved, LiveInputsDisjoint, Live
<1> QED
  BY <1>1, <1>2, <1>3, <1>4, <1>5, <1>6 DEF IInv

(* Steps that take the guard. *)
LEMMA AcquireIInv ==
  ASSUME IInv, NEW w \in Workers, NEW place \in Holding \ InHand, NEW s,
         place \notin {"Send", "Select"} => s \in Slates,
         s \in Slates \cup {NoSlate},
         Acquire(w, place, s),
         UNCHANGED <<dbVars, result, dropped, relay, peer, chain>>
  PROVE  IInv'
<1> USE WorkerNotNobody DEF Acquire, Goto, dbVars
<1>1. TypeOK'
  BY DEF IInv, TypeOK, Places
<1>2. MutexOK'
  BY DEF IInv, TypeOK, MutexOK
<1>3. CurOK'
  BY DEF IInv, TypeOK, CurOK
<1>4. InHandFree'
  BY DEF IInv, TypeOK, InHandFree, Live
<1>5. LoggedAfterSaved' /\ LiveReserved' /\ LiveInputsDisjoint'
  BY DEF IInv, LoggedAfterSaved, LiveReserved, LiveInputsDisjoint, Live
<1> QED
  BY <1>1, <1>2, <1>3, <1>4, <1>5 DEF IInv

(* Only the owner of the guard is at a place that needs it. *)
LEMMA OneHolder ==
  ASSUME IInv, NEW w \in Workers, NEW v \in Workers,
         pc[w] \in Holding, pc[v] \in Holding
  PROVE  v = w
BY DEF IInv, MutexOK

(* Steps that drop the guard and leave inputs, log and outputs alone. *)
LEMMA ReturnIInv ==
  ASSUME IInv, NEW w \in Workers, pc[w] \in Holding, Return(w),
         TypeOK',
         UNCHANGED <<inputs, txlog, status>>,
         \A s \in Slates : ctx'[s] = "None" => ctx[s] = "None"
  PROVE  IInv'
<1> USE WorkerNotNobody DEF Return, Goto
<1>1. MutexOK'
  BY DEF IInv, TypeOK, MutexOK, Holding
<1>2. CurOK'
  BY DEF IInv, TypeOK, CurOK
<1>3. InHandFree'
  BY DEF IInv, TypeOK, InHandFree, Live, InHand, CurOK
<1>4. LoggedAfterSaved' /\ LiveReserved' /\ LiveInputsDisjoint'
  BY DEF IInv, LoggedAfterSaved, LiveReserved, LiveInputsDisjoint, Live
<1> QED
  BY <1>1, <1>2, <1>3, <1>4 DEF IInv

(* Steps that keep the guard, go to a place without inputs in hand, and leave
   inputs, log and outputs alone. *)
LEMMA ContinueIInv ==
  ASSUME IInv, NEW w \in Workers, pc[w] \in Holding,
         NEW place \in Holding \ {"InvoiceLock"},
         place \in InHand => pc[w] \in InHand,
         place # "Select" => cur[w] \in Slates,
         Continue(w, place),
         TypeOK',
         UNCHANGED <<inputs, txlog, status>>,
         \A s \in Slates : ctx'[s] = "None" => ctx[s] = "None"
  PROVE  IInv'
<1> USE WorkerNotNobody DEF Continue, Goto
<1>1. MutexOK'
  BY DEF IInv, TypeOK, MutexOK
<1>2. CurOK'
  BY DEF IInv, TypeOK, CurOK
<1>3. InHandFree'
  BY DEF IInv, TypeOK, InHandFree, Live, InHand, CurOK
<1>4. LoggedAfterSaved' /\ LiveReserved' /\ LiveInputsDisjoint'
  BY DEF IInv, LoggedAfterSaved, LiveReserved, LiveInputsDisjoint, Live
<1> QED
  BY <1>1, <1>2, <1>3, <1>4 DEF IInv

(* A node's answer turns TxSent into Confirmed and outputs into Spent: what
   is live stays live, and nothing becomes selectable. *)
LEMMA UpdateKeepsLive ==
  ASSUME TypeOK, UpdateWalletState, UNCHANGED <<inputs, ctx>>
  PROVE  /\ \A s \in Slates : Live(s)' <=> Live(s)
         /\ \A s \in Slates : txlog[s] = "None" <=> txlog'[s] = "None"
         /\ \A o \in Outputs : status'[o] = "Unspent" => status[o] = "Unspent"
         /\ LiveReserved => LiveReserved'
         /\ LiveInputsDisjoint => LiveInputsDisjoint'
         /\ LoggedAfterSaved => LoggedAfterSaved'
         /\ txlog' \in [Slates -> {"None", "TxSent", "Confirmed", "Cancelled"}]
         /\ status' \in [Outputs -> {"Unspent", "Locked", "Spent"}]
<1>1. \A s \in Slates : Live(s)' <=> Live(s)
  BY DEF TypeOK, UpdateWalletState, Live
<1>2. \A s \in Slates : txlog[s] = "None" <=> txlog'[s] = "None"
  BY DEF TypeOK, UpdateWalletState
<1>3. \A o \in Outputs : status'[o] = "Unspent" => status[o] = "Unspent"
  BY DEF TypeOK, UpdateWalletState
<1>4. LiveReserved => LiveReserved'
  BY <1>1, <1>3 DEF TypeOK, LiveReserved
<1>5. LiveInputsDisjoint => LiveInputsDisjoint'
  BY <1>1 DEF LiveInputsDisjoint
<1>6. LoggedAfterSaved => LoggedAfterSaved'
  BY <1>2 DEF LoggedAfterSaved
<1>7. txlog' \in [Slates -> {"None", "TxSent", "Confirmed", "Cancelled"}]
  BY DEF TypeOK, UpdateWalletState
<1>8. status' \in [Outputs -> {"Unspent", "Locked", "Spent"}]
  BY DEF TypeOK, UpdateWalletState
<1> QED
  BY <1>1, <1>2, <1>3, <1>4, <1>5, <1>6, <1>7, <1>8

(* Refreshing from the node, by a command, the listener or the updater. *)
LEMMA UpdaterIInv == IInv /\ Updater => IInv'
<1> SUFFICES ASSUME IInv, Updater PROVE IInv'
  OBVIOUS
<1> USE DEF Updater, threadVars
<1>1. TypeOK'
  BY UpdateKeepsLive DEF IInv, TypeOK
<1>2. MutexOK' /\ CurOK'
  BY DEF IInv, MutexOK, CurOK
<1>3. InHandFree'
  BY UpdateKeepsLive DEF IInv, InHandFree, CurOK, InHand
<1> QED
  BY <1>1, <1>2, <1>3, UpdateKeepsLive DEF IInv

(* update_wallet_state at the start of initiate_tx, invoice_tx and cancel_tx
   keeps the guard and the inductive invariant. *)
LEMMA RefreshIInv ==
  ASSUME IInv, NEW w \in Workers, Refresh(w)
  PROVE  IInv'
<1> DEFINE place == RefreshNext(pc[w])
<1>0. /\ pc[w] \in Holding
      /\ place \in {"Select", "InvoiceSelect", "CancelTx"}
      /\ place # "Select" => cur[w] \in Slates
  BY DEF Refresh, RefreshNext, Holding, IInv, CurOK
<1>a. place \in Holding \ {"InvoiceLock"} /\ place \notin InHand
  BY <1>0 DEF Holding, InHand
<1>1. CASE UpdateWalletState /\ Continue(w, place)
  <2> USE <1>1 DEF Refresh
  <2>1. TypeOK'
    BY UpdateKeepsLive, <1>a DEF IInv, TypeOK, Continue, Goto, Places
  <2>2. MutexOK'
    BY <1>0, <1>a DEF IInv, TypeOK, MutexOK, Continue, Goto
  <2>3. CurOK'
    BY <1>0 DEF IInv, TypeOK, CurOK, Continue, Goto
  <2>4. InHandFree'
    BY UpdateKeepsLive, <1>0, <1>a, OneHolder
       DEF IInv, TypeOK, InHandFree, InHand, Holding, Continue, Goto, CurOK
  <2> QED
    BY <2>1, <2>2, <2>3, <2>4, UpdateKeepsLive DEF IInv
<1>2. CASE Continue(w, place) /\ UNCHANGED <<status, txlog>>
  <2>1. TypeOK'
    BY <1>2, <1>a DEF Refresh, IInv, TypeOK, Continue, Goto, Places
  <2> QED
    BY <1>0, <1>a, <1>2, <2>1, ContinueIInv DEF Refresh
<1> QED
  BY <1>1, <1>2 DEF Refresh

(* Selecting inputs: they are unspent, so they belong to no live transaction. *)
LEMMA SelectIInv ==
  ASSUME IInv, NEW w \in Workers, pc[w] \in Holding,
         NEW s \in Slates, txlog[s] = "None",
         NEW I \in SUBSET Outputs,
         NEW place \in InHand,
         SelectInputs(w, s, I, place),
         UNCHANGED <<status, txlog, result, dropped, relay, peer, chain>>
  PROVE  IInv'
<1> USE DEF SelectInputs, Goto
<1>0. place \in Holding
  BY DEF InHand, Holding
<1>1. TypeOK'
  BY <1>0 DEF IInv, TypeOK, Places
<1>2. MutexOK'
  BY <1>0 DEF IInv, TypeOK, MutexOK
<1>3. CurOK'
  BY DEF IInv, TypeOK, CurOK
<1>4. \A r \in Slates : Live(r)' <=> Live(r)
  BY DEF Live
<1>5. ~Live(s)
  BY DEF Live
<1>6. \A r \in Slates : Live(r) => inputs'[r] = inputs[r] /\ inputs[r] \cap I = {}
  BY <1>5 DEF IInv, TypeOK, LiveReserved, Unspent
<1>7. InHandFree'
  <2> SUFFICES ASSUME NEW v \in Workers, pc'[v] \in InHand
               PROVE  /\ ctx'[cur'[v]] # "None"
                      /\ txlog'[cur'[v]] = "None"
                      /\ \A r \in Slates : Live(r)' => inputs'[r] \cap inputs'[cur'[v]] = {}
    BY DEF InHandFree
  <2>1. v = w
    BY OneHolder DEF IInv, TypeOK, InHand, Holding
  <2>2. cur'[v] = s /\ inputs'[s] = I /\ ctx'[s] = "Saved"
    BY <2>1 DEF IInv, TypeOK
  <2> QED
    BY <2>2, <1>4, <1>6
<1>8. LoggedAfterSaved'
  BY DEF IInv, TypeOK, LoggedAfterSaved
<1>9. LiveReserved'
  BY <1>4, <1>6 DEF IInv, LiveReserved
<1>10. LiveInputsDisjoint'
  BY <1>4, <1>6 DEF IInv, LiveInputsDisjoint
<1> QED
  BY <1>1, <1>2, <1>3, <1>7, <1>8, <1>9, <1>10 DEF IInv

(* Locking the inputs in hand makes one more transaction live; they were free
   of every other one. *)
LEMMA LockFacts ==
  ASSUME IInv, NEW w \in Workers, pc[w] \in InHand,
         LockTxContext(cur[w]), UNCHANGED inputs
  PROVE  /\ cur[w] \in Slates
         /\ \A r \in Slates : Live(r)' <=> (r = cur[w] \/ Live(r))
         /\ LiveReserved'
         /\ LiveInputsDisjoint'
         /\ txlog' \in [Slates -> {"None", "TxSent", "Confirmed", "Cancelled"}]
         /\ status' \in [Outputs -> {"Unspent", "Locked", "Spent"}]
<1> DEFINE s == cur[w]
<1>1. s \in Slates
  BY DEF IInv, CurOK, InHand
<1>2. \A r \in Slates : Live(r)' <=> (r = s \/ Live(r))
  BY <1>1 DEF IInv, TypeOK, Live, LockTxContext
<1>3. LiveReserved'
  BY <1>1, <1>2 DEF IInv, TypeOK, LiveReserved, LockTxContext
<1>4. \A r \in Slates : Live(r) => inputs[r] \cap inputs[s] = {}
  BY DEF IInv, InHandFree
<1>5. LiveInputsDisjoint'
  BY <1>1, <1>2, <1>4 DEF IInv, LiveInputsDisjoint
<1>6. txlog' \in [Slates -> {"None", "TxSent", "Confirmed", "Cancelled"}]
  BY <1>1 DEF IInv, TypeOK, LockTxContext
<1>7. status' \in [Outputs -> {"Unspent", "Locked", "Spent"}]
  BY DEF IInv, TypeOK, LockTxContext
<1> QED
  BY <1>1, <1>2, <1>3, <1>5, <1>6, <1>7

(* tx_lock_outputs of a send: the inputs in hand become those of a live
   transaction. *)
LEMMA TxLockOutputsIInv ==
  ASSUME IInv, NEW t \in Threads, TxLockOutputs(t)
  PROVE  IInv'
<1> USE WorkerNotNobody
<1>0. t \in Workers /\ pc[t] \in InHand /\ pc[t] \in Holding
  BY DEF TxLockOutputs, InHand, Holding
<1>1. /\ cur[t] \in Slates
      /\ LiveReserved' /\ LiveInputsDisjoint'
      /\ txlog' \in [Slates -> {"None", "TxSent", "Confirmed", "Cancelled"}]
      /\ status' \in [Outputs -> {"Unspent", "Locked", "Spent"}]
  BY <1>0, LockFacts DEF TxLockOutputs
<1>a. /\ mutex' \in Workers \cup {Nobody}
      /\ pc' \in [Workers -> Places]
      /\ cur' \in [Workers -> Slates \cup {NoSlate}]
  <2>1. CASE Return(t)
    BY <1>0, <2>1 DEF Return, Goto, IInv, TypeOK, Places
  <2>2. CASE Continue(t, "Finalize")
    BY <1>0, <2>2 DEF Continue, Goto, IInv, TypeOK, Places, Holding
  <2> QED
    BY <2>1, <2>2 DEF TxLockOutputs
<1>2. TypeOK'
  BY <1>1, <1>a DEF TxLockOutputs, IInv, TypeOK
<1>3. MutexOK'
  BY <1>0 DEF TxLockOutputs, IInv, TypeOK, MutexOK, Return, Continue, Goto, Holding
<1>4. CurOK'
  BY <1>1 DEF TxLockOutputs, IInv, TypeOK, CurOK, Return, Continue, Goto
<1>5. InHandFree'
  BY <1>0, OneHolder
     DEF TxLockOutputs, IInv, TypeOK, InHandFree, Return, Continue, Goto, InHand, Holding
<1>6. LoggedAfterSaved'
  BY <1>0 DEF TxLockOutputs, LockTxContext, IInv, TypeOK, LoggedAfterSaved, InHandFree
<1> QED
  BY <1>1, <1>2, <1>3, <1>4, <1>5, <1>6 DEF IInv

(* tx_lock_outputs of an invoice, after which the guard is dropped. *)
LEMMA InvoiceLockIInv == IInv /\ InvoiceLock => IInv'
<1> SUFFICES ASSUME IInv, InvoiceLock PROVE IInv'
  OBVIOUS
<1> USE WorkerNotNobody
<1>0. pc[Listener] \in InHand /\ pc[Listener] \in Holding
  BY DEF InvoiceLock, InHand, Holding
<1>1. /\ cur[Listener] \in Slates
      /\ LiveReserved' /\ LiveInputsDisjoint'
      /\ txlog' \in [Slates -> {"None", "TxSent", "Confirmed", "Cancelled"}]
      /\ status' \in [Outputs -> {"Unspent", "Locked", "Spent"}]
  BY <1>0, LockFacts DEF InvoiceLock
<1>2. TypeOK'
  BY <1>1 DEF InvoiceLock, IInv, TypeOK, Goto, Places
<1>3. MutexOK'
  BY <1>0 DEF InvoiceLock, IInv, TypeOK, MutexOK, Goto, Holding
<1>4. CurOK'
  BY <1>1 DEF InvoiceLock, IInv, TypeOK, CurOK, Goto
<1>5. InHandFree'
  BY <1>0, OneHolder DEF InvoiceLock, IInv, TypeOK, InHandFree, Goto, InHand, Holding
<1>6. LoggedAfterSaved'
  BY <1>0 DEF InvoiceLock, LockTxContext, IInv, TypeOK, LoggedAfterSaved, InHandFree
<1> QED
  BY <1>1, <1>2, <1>3, <1>4, <1>5, <1>6 DEF IInv

(* Cancelling frees only outputs that no other live transaction owns. *)
LEMMA CancelTxIInv ==
  ASSUME IInv, NEW t \in Threads, CancelTx(t)
  PROVE  IInv'
<1> DEFINE s == cur[t]
<1> USE WorkerNotNobody
<1>0. t \in Workers /\ pc[t] \in Holding /\ s \in Slates
  BY DEF CancelTx, Holding, IInv, CurOK
<1>1. CASE txlog[s] = "TxSent"
  <2> USE <1>1 DEF CancelTx, CancelTxAndOutputs
  <2>1. TypeOK'
    BY <1>0 DEF IInv, TypeOK, Return, Goto, Places
  <2>2. MutexOK'
    BY <1>0 DEF IInv, TypeOK, MutexOK, Return, Goto, Holding
  <2>3. CurOK'
    BY DEF IInv, TypeOK, CurOK, Return, Goto
  <2>4. InHandFree'
    BY <1>0, OneHolder DEF IInv, TypeOK, InHandFree, Return, Goto, InHand, Holding
  <2>5. \A r \in Slates : Live(r)' <=> (r # s /\ Live(r))
    BY <1>0 DEF IInv, TypeOK, Live
  <2>6. LiveInputsDisjoint'
    BY <2>5 DEF IInv, LiveInputsDisjoint
  <2>7. \A r \in Slates : r # s /\ Live(r) => inputs[r] \cap inputs[s] = {}
    BY <1>0 DEF IInv, LiveInputsDisjoint, Live
  <2>8. LiveReserved'
    BY <2>5, <2>7 DEF IInv, TypeOK, LiveReserved
  <2>9. LoggedAfterSaved'
    BY <1>0 DEF IInv, TypeOK, LoggedAfterSaved
  <2> QED
    BY <2>1, <2>2, <2>3, <2>4, <2>6, <2>8, <2>9 DEF IInv
<1>2. CASE txlog[s] # "TxSent"
  <2>1. TypeOK'
    BY <1>0, <1>2 DEF CancelTx, IInv, TypeOK, Return, Goto, Places
  <2> QED
    BY <1>0, <1>2, <2>1, ReturnIInv DEF CancelTx
<1> QED
  BY <1>1, <1>2

(* Finalizing uses the context up and touches neither log nor outputs. *)
LEMMA FinalizeSlateIInv ==
  ASSUME IInv, NEW w \in Workers, FinalizeSlate(w)
  PROVE  IInv'
<1>0. pc[w] \in Holding /\ cur[w] \in Slates
  BY DEF FinalizeSlate, Holding, IInv, CurOK
<1>1. TypeOK'
  BY <1>0, WorkerNotNobody
     DEF FinalizeSlate, IInv, TypeOK, Return, Continue, Goto, Places, Holding
<1>2. \A s \in Slates : ctx'[s] = "None" => ctx[s] = "None"
  BY <1>0 DEF FinalizeSlate, IInv, TypeOK
<1>3. "PostTx" \in Holding \ {"InvoiceLock"} /\ "PostTx" \notin InHand
  BY DEF Holding, InHand
<1> QED
  BY <1>0, <1>1, <1>2, <1>3, ReturnIInv, ContinueIInv DEF FinalizeSlate

(* An error of finalize_slate changes neither log nor outputs. *)
LEMMA FinalizeFailsIInv ==
  ASSUME IInv, NEW w \in Workers, FinalizeFails(w)
  PROVE  IInv'
<1>0. pc[w] \in Holding /\ cur[w] \in Slates
  BY DEF FinalizeFails, Holding, IInv, CurOK
<1>1. TypeOK'
  BY <1>0 DEF FinalizeFails, IInv, TypeOK, Return, Goto, Places
<1> QED
  BY <1>0, <1>1, ReturnIInv DEF FinalizeFails

(* Posting to the node changes neither the log nor the outputs. *)
LEMMA PostTxIInv ==
  ASSUME IInv, NEW w \in Workers, PostTx(w)
  PROVE  IInv'
<1>0. pc[w] \in Holding /\ cur[w] \in Slates
  BY DEF PostTx, Holding, IInv, CurOK
<1>1. TypeOK'
  BY <1>0, WorkerNotNobody DEF PostTx, ToPool, dbVars, IInv, TypeOK, Return, Goto, Places
<1> QED
  BY <1>0, <1>1, ReturnIInv DEF PostTx, dbVars

(* The steps of a send, a finalization or a cancellation. *)
LEMMA CommandStepIInv ==
  ASSUME IInv, NEW t \in Threads, CommandStep(t)
  PROVE  IInv'
<1> USE WorkerNotNobody
<1>0. t \in Workers
  OBVIOUS
<1>1. CASE Refresh(t)
  BY <1>0, <1>1, RefreshIInv
<1>2. CASE InitiateSendTx(t)
  <2>1. PICK s \in Sends, I \in SUBSET Outputs :
           ctx[s] = "None" /\ SelectInputs(t, s, I, "Post")
    BY <1>2 DEF InitiateSendTx
  <2>2. s \in Slates /\ txlog[s] = "None"
    BY <2>1, SendsAreSlates DEF IInv, LoggedAfterSaved
  <2>3. pc[t] \in Holding /\ "Post" \in InHand
    BY <1>2 DEF InitiateSendTx, Holding, InHand
  <2> QED
    BY <1>0, <1>2, <2>1, <2>2, <2>3, SelectIInv DEF InitiateSendTx
<1>3. CASE InitiateSendTxFails(t)
  <2>1. pc[t] \in Holding
    BY <1>3 DEF InitiateSendTxFails, Holding
  <2>2. TypeOK'
    BY <1>3 DEF InitiateSendTxFails, dbVars, IInv, TypeOK, Return, Goto, Places
  <2> QED
    BY <1>0, <1>3, <2>1, <2>2, ReturnIInv DEF InitiateSendTxFails, dbVars
<1>4. CASE PostSlate(t)
  <2>1. /\ pc[t] \in Holding /\ pc[t] \in InHand
        /\ "Lock" \in Holding \ {"InvoiceLock"}
        /\ cur[t] \in Slates
    BY <1>4 DEF PostSlate, Holding, InHand, IInv, CurOK
  <2>2. TypeOK'
    BY <1>4, <2>1 DEF PostSlate, Put, dbVars, IInv, TypeOK, Continue, Goto, Places
  <2> QED
    BY <1>0, <1>4, <2>1, <2>2, ContinueIInv DEF PostSlate, dbVars
<1>5. CASE PostSlateFails(t)
  <2>1. pc[t] \in Holding /\ cur[t] \in Slates
    BY <1>5 DEF PostSlateFails, Holding, IInv, CurOK
  <2>2. TypeOK'
    BY <1>5, <2>1 DEF PostSlateFails, Put, dbVars, IInv, TypeOK, Return, Goto, Places
  <2> QED
    BY <1>0, <1>5, <2>1, <2>2, ReturnIInv DEF PostSlateFails, dbVars
<1>6. CASE PostHttps(t)
  <2>1. /\ pc[t] \in Holding /\ pc[t] \in InHand
        /\ "HttpsLock" \in Holding \ {"InvoiceLock"}
        /\ cur[t] \in Slates
    BY <1>6 DEF PostHttps, Holding, InHand, IInv, CurOK
  <2>2. TypeOK'
    BY <1>6, <2>1 DEF PostHttps, dbVars, IInv, TypeOK, Continue, Goto, Places
  <2> QED
    BY <1>0, <1>6, <2>1, <2>2, ContinueIInv DEF PostHttps, dbVars
<1>7. CASE PostHttpsFails(t)
  <2>1. pc[t] \in Holding /\ cur[t] \in Slates
    BY <1>7 DEF PostHttpsFails, Holding, IInv, CurOK
  <2>2. TypeOK'
    BY <1>7, <2>1 DEF PostHttpsFails, dbVars, IInv, TypeOK, Return, Goto, Places
  <2> QED
    BY <1>0, <1>7, <2>1, <2>2, ReturnIInv DEF PostHttpsFails, dbVars
<1>8. CASE TxLockOutputs(t)
  BY <1>8, TxLockOutputsIInv
<1>9. CASE TxLockOutputsFails(t)
  <2>1. pc[t] \in Holding /\ cur[t] \in Slates
    BY <1>9 DEF TxLockOutputsFails, Holding, IInv, CurOK
  <2>2. TypeOK'
    BY <1>9, <2>1 DEF TxLockOutputsFails, dbVars, IInv, TypeOK, Return, Goto, Places
  <2> QED
    BY <1>0, <1>9, <2>1, <2>2, ReturnIInv DEF TxLockOutputsFails, dbVars
<1>10. CASE FinalizeSlate(t) \/ FinalizeFails(t)
  BY <1>0, <1>10, FinalizeSlateIInv, FinalizeFailsIInv
<1>11. CASE PostTx(t)
  BY <1>0, <1>11, PostTxIInv
<1>12. CASE CancelFails(t)
  <2>1. pc[t] \in Holding
    BY <1>12 DEF CancelFails, Holding
  <2>2. TypeOK'
    BY <1>12 DEF CancelFails, dbVars, IInv, TypeOK, Return, Goto, Places
  <2> QED
    BY <1>0, <1>12, <2>1, <2>2, ReturnIInv DEF CancelFails, dbVars
<1>13. CASE CancelTx(t)
  BY <1>13, CancelTxIInv
<1> QED
  BY <1>1, <1>2, <1>3, <1>4, <1>5, <1>6, <1>7, <1>8, <1>9, <1>10, <1>11, <1>12, <1>13
     DEF CommandStep

(* Starting a command. *)
LEMMA BeginCommandIInv ==
  ASSUME IInv, NEW t \in Threads, BeginCommand(t)
  PROVE  IInv'
<1> USE WorkerNotNobody, SendsAreSlates
<1>0. {"Send", "Finalize", "PostTx", "Cancel"} \subseteq Holding \ InHand
  BY DEF Holding, InHand
<1>1. CASE BeginSend(t)
  BY <1>0, <1>1, AcquireIInv DEF BeginSend
<1>2. CASE \E s \in Slates : BeginFinalize(t, s) \/ BeginSubmit(t, s) \/ BeginCancel(t, s)
  <2>1. PICK s \in Slates : BeginFinalize(t, s) \/ BeginSubmit(t, s) \/ BeginCancel(t, s)
    BY <1>2
  <2>2. CASE BeginFinalize(t, s)
    BY <1>0, <2>2, AcquireIInv DEF BeginFinalize
  <2>3. CASE BeginSubmit(t, s)
    BY <1>0, <2>3, AcquireIInv DEF BeginSubmit
  <2>4. CASE BeginCancel(t, s)
    BY <1>0, <2>4, AcquireIInv DEF BeginCancel
  <2> QED
    BY <2>1, <2>2, <2>3, <2>4
<1> QED
  BY <1>1, <1>2 DEF BeginCommand

(* The listener's steps that hold the guard, and its reply to an invoice. *)
LEMMA ListenerStepIInv == IInv /\ ListenerStep => IInv'
<1> SUFFICES ASSUME IInv, ListenerStep PROVE IInv'
  OBVIOUS
<1> USE WorkerNotNobody
<1>1. CASE FinalizeSlate(Listener) \/ FinalizeFails(Listener) \/ PostTx(Listener)
  BY <1>1, FinalizeSlateIInv, FinalizeFailsIInv, PostTxIInv
<1>2. CASE RejectInvoice
  <2>1. pc[Listener] \in Holding /\ cur[Listener] \in Slates
    BY <1>2 DEF RejectInvoice, Holding, IInv, CurOK
  <2>2. TypeOK'
    BY <1>2, <2>1 DEF RejectInvoice, dbVars, IInv, TypeOK, Return, Goto, Places
  <2> QED
    BY <1>2, <2>1, <2>2, ReturnIInv DEF RejectInvoice, dbVars
<1>3. CASE RefreshForInvoice
  BY <1>3, RefreshIInv DEF RefreshForInvoice
<1>4. CASE InvoiceTx
  <2>1. PICK I \in SUBSET Outputs :
           SelectInputs(Listener, cur[Listener], I, "InvoiceLock")
    BY <1>4 DEF InvoiceTx
  <2>2. /\ pc[Listener] \in Holding /\ "InvoiceLock" \in InHand
        /\ cur[Listener] \in Slates
    BY <1>4 DEF InvoiceTx, Holding, InHand, IInv, CurOK
  <2> QED
    BY <1>4, <2>1, <2>2, SelectIInv DEF InvoiceTx
<1>5. CASE InvoiceLock
  BY <1>5, InvoiceLockIInv
<1>6. CASE InvoiceLockFails
  <2>1. pc[Listener] \in Holding /\ cur[Listener] \in Slates
    BY <1>6 DEF InvoiceLockFails, Holding, IInv, CurOK
  <2>2. TypeOK'
    BY <1>6, <2>1 DEF InvoiceLockFails, dbVars, IInv, TypeOK, Return, Goto, Places
  <2> QED
    BY <1>6, <2>1, <2>2, ReturnIInv DEF InvoiceLockFails, dbVars
<1>7. CASE ReplyToInvoice
  <2> USE <1>7 DEF ReplyToInvoice, Goto, Put, dbVars
  <2>1. cur[Listener] \in Slates
    BY DEF IInv, CurOK
  <2>2. TypeOK'
    BY <2>1 DEF IInv, TypeOK, Places
  <2>3. MutexOK'
    BY DEF IInv, TypeOK, MutexOK, Holding
  <2>4. CurOK'
    BY DEF IInv, TypeOK, CurOK
  <2>5. InHandFree'
    BY DEF IInv, TypeOK, InHandFree, InHand, Live
  <2>6. LoggedAfterSaved' /\ LiveReserved' /\ LiveInputsDisjoint'
    BY DEF IInv, LoggedAfterSaved, LiveReserved, LiveInputsDisjoint, Live
  <2> QED
    BY <2>2, <2>3, <2>4, <2>5, <2>6 DEF IInv
<1> QED
  BY <1>1, <1>2, <1>3, <1>4, <1>5, <1>6, <1>7 DEF ListenerStep

(* The listener is handed a slate, and then takes the guard. *)
LEMMA OnSlateIInv ==
  ASSUME IInv, NEW s \in Slates, OnReply(s) \/ OnInvoice(s)
  PROVE  IInv'
<1> USE WorkerNotNobody DEF OnReply, OnInvoice, Goto, Take, dbVars
<1>1. TypeOK'
  BY DEF IInv, TypeOK, Places, Waiting
<1>2. MutexOK'
  BY DEF IInv, TypeOK, MutexOK, Holding
<1>3. CurOK'
  BY DEF IInv, TypeOK, CurOK
<1>4. InHandFree'
  BY DEF IInv, TypeOK, InHandFree, InHand, Live
<1>5. LoggedAfterSaved' /\ LiveReserved' /\ LiveInputsDisjoint'
  BY DEF IInv, LoggedAfterSaved, LiveReserved, LiveInputsDisjoint, Live
<1> QED
  BY <1>1, <1>2, <1>3, <1>4, <1>5 DEF IInv

(* process_incoming_slate takes the guard for the slate it was handed. *)
LEMMA ListenerLockIInv == IInv /\ ListenerLock => IInv'
<1> SUFFICES ASSUME IInv, ListenerLock PROVE IInv'
  OBVIOUS
<1> DEFINE place == IF pc[Listener] = "GotReply" THEN "Finalize" ELSE "Invoice"
<1>1. place \in Holding \ InHand /\ place \notin {"Send", "Select"}
  BY DEF Holding, InHand
<1>2. cur[Listener] \in Slates
  BY WorkerNotNobody DEF ListenerLock, Waiting, IInv, CurOK
<1> QED
  BY <1>1, <1>2, AcquireIInv, WorkerNotNobody DEF ListenerLock

(* The updater, the peer, the relay, the node and a restart. *)
LEMMA EnvironmentIInv == IInv /\ Environment => IInv'
<1> SUFFICES ASSUME IInv, Environment PROVE IInv'
  OBVIOUS
<1>1. CASE Updater
  BY <1>1, UpdaterIInv
<1>2. CASE Restart
  <2> USE <1>2 DEF Restart, dbVars
  <2>1. TypeOK'
    BY DEF IInv, TypeOK, Places
  <2>2. MutexOK' /\ CurOK' /\ InHandFree'
    BY WorkerNotNobody DEF MutexOK, CurOK, InHandFree, InHand, Holding
  <2>3. LoggedAfterSaved' /\ LiveReserved' /\ LiveInputsDisjoint'
    BY DEF IInv, LoggedAfterSaved, LiveReserved, LiveInputsDisjoint, Live
  <2> QED
    BY <2>1, <2>2, <2>3 DEF IInv
<1>3. ASSUME NEW s \in Slates,
             \/ PeerReceive(s) \/ PeerIssueInvoice(s) \/ PeerPostInvoice(s)
             \/ RelayLoses(s) \/ Mine(s)
      PROVE  IInv'
  <2>0. UNCHANGED <<threadVars, dbVars, result, dropped>>
    BY <1>3 DEF PeerReceive, PeerIssueInvoice, PeerPostInvoice, RelayLoses, Mine
  <2>1. /\ relay' \in [Slates -> SUBSET {"Slate", "Reply"}]
        /\ peer' \in [Slates -> {"None", "Received", "Issued"}]
        /\ chain' \in [Slates -> {"None", "Pool", "Confirmed"}]
    <3>1. CASE PeerReceive(s)
      BY <3>1 DEF PeerReceive, Take, IInv, TypeOK
    <3>2. CASE PeerIssueInvoice(s)
      BY <3>2 DEF PeerIssueInvoice, Put, IInv, TypeOK
    <3>3. CASE PeerPostInvoice(s)
      BY <3>3 DEF PeerPostInvoice, Take, ToPool, IInv, TypeOK
    <3>4. CASE RelayLoses(s) \/ Mine(s)
      BY <3>4 DEF RelayLoses, Mine, IInv, TypeOK
    <3> QED
      BY <1>3, <3>1, <3>2, <3>3, <3>4
  <2>2. TypeOK'
    BY <2>0, <2>1 DEF threadVars, dbVars, IInv, TypeOK
  <2>3. MutexOK' /\ CurOK' /\ InHandFree'
    BY <2>0 DEF threadVars, dbVars, IInv, MutexOK, CurOK, InHandFree, Live
  <2>4. LoggedAfterSaved' /\ LiveReserved' /\ LiveInputsDisjoint'
    BY <2>0 DEF dbVars, IInv, LoggedAfterSaved, LiveReserved, LiveInputsDisjoint, Live
  <2> QED
    BY <2>2, <2>3, <2>4 DEF IInv
<1> QED
  BY <1>1, <1>2, <1>3 DEF Environment

(* Every step preserves the inductive invariant. *)
LEMMA NextIInv == IInv /\ [Next]_vars => IInv'
<1> SUFFICES ASSUME IInv, [Next]_vars PROVE IInv'
  OBVIOUS
<1>1. CASE Next
  <2>1. CASE \E t \in Threads : BeginCommand(t) \/ CommandStep(t)
    BY <2>1, BeginCommandIInv, CommandStepIInv
  <2>2. CASE \E s \in Slates : OnReply(s) \/ OnInvoice(s)
    BY <2>2, OnSlateIInv
  <2>3. CASE ListenerLock
    BY <2>3, ListenerLockIInv
  <2>4. CASE ListenerStep
    BY <2>4, ListenerStepIInv
  <2>5. CASE Environment
    BY <2>5, EnvironmentIInv
  <2> QED
    BY <1>1, <2>1, <2>2, <2>3, <2>4, <2>5 DEF Next
<1>2. CASE UNCHANGED vars
  <2> USE <1>2 DEF vars, threadVars, dbVars
  <2>1. TypeOK'
    BY DEF IInv, TypeOK
  <2>2. MutexOK' /\ CurOK' /\ InHandFree'
    BY DEF IInv, MutexOK, CurOK, InHandFree, Live
  <2>3. LoggedAfterSaved' /\ LiveReserved' /\ LiveInputsDisjoint'
    BY DEF IInv, LoggedAfterSaved, LiveReserved, LiveInputsDisjoint, Live
  <2> QED
    BY <2>1, <2>2, <2>3 DEF IInv
<1> QED
  BY <1>1, <1>2

(* The inductive invariant holds in every behaviour of the wallet. *)
THEOREM InductiveInvariant == Spec => []IInv
BY InitIInv, NextIInv, PTL DEF Spec

(* Type correctness of the slate exchange. *)
THEOREM TypeCorrect == Spec => []TypeOK
<1>1. IInv => TypeOK
  BY DEF IInv
<1> QED
  BY <1>1, InductiveInvariant, PTL

(* For any number of threads, slates and outputs, two transactions that were
   sent and not cancelled have no input in common, whatever the relay, the
   node, the updater and crashes do. *)
THEOREM NoDoubleReservation == Spec => []LiveInputsDisjoint
<1>1. IInv => LiveInputsDisjoint
  BY DEF IInv
<1> QED
  BY <1>1, InductiveInvariant, PTL

(* What a step does to inputs, log and outputs: nothing, or one of libwallet's
   four operations on them. *)
LEMMA LedgerSteps ==
  ASSUME IInv, [Next]_vars
  PROVE  \/ UNCHANGED <<inputs, txlog, status>>
         \/ UpdateWalletState /\ UNCHANGED inputs
         \/ \E w \in Workers :
               pc[w] \in InHand /\ LockTxContext(cur[w]) /\ UNCHANGED inputs
         \/ \E s \in Slates :
               txlog[s] = "TxSent" /\ CancelTxAndOutputs(s) /\ UNCHANGED inputs
         \/ \E s \in Slates : \E I \in SUBSET Outputs :
               /\ txlog[s] = "None"
               /\ inputs' = [inputs EXCEPT ![s] = I]
               /\ UNCHANGED <<txlog, status>>
<1> DEFINE Kept == UNCHANGED <<inputs, txlog, status>>
           Updated == UpdateWalletState /\ UNCHANGED inputs
           Locked == \E w \in Workers :
                        pc[w] \in InHand /\ LockTxContext(cur[w]) /\ UNCHANGED inputs
           Freed == \E s \in Slates :
                       txlog[s] = "TxSent" /\ CancelTxAndOutputs(s) /\ UNCHANGED inputs
           Selected == \E s \in Slates : \E I \in SUBSET Outputs :
                          /\ txlog[s] = "None"
                          /\ inputs' = [inputs EXCEPT ![s] = I]
                          /\ UNCHANGED <<txlog, status>>
<1> SUFFICES Kept \/ Updated \/ Locked \/ Freed \/ Selected
  OBVIOUS
<1>1. ASSUME NEW w \in Workers, Refresh(w) PROVE Kept \/ Updated
  BY <1>1 DEF Refresh
<1>2. ASSUME NEW t \in Threads, BeginCommand(t) PROVE Kept
  BY <1>2 DEF BeginCommand, BeginSend, BeginFinalize, BeginSubmit, BeginCancel, dbVars
<1>3. ASSUME NEW t \in Threads, CommandStep(t)
      PROVE  Kept \/ Updated \/ Locked \/ Freed \/ Selected
  <2>1. CASE InitiateSendTx(t)
    <3>1. PICK s \in Sends, I \in SUBSET Outputs :
             ctx[s] = "None" /\ SelectInputs(t, s, I, "Post")
      BY <2>1 DEF InitiateSendTx
    <3>2. s \in Slates /\ txlog[s] = "None"
      BY <3>1, SendsAreSlates DEF IInv, LoggedAfterSaved
    <3>3. inputs' = [inputs EXCEPT ![s] = I] /\ UNCHANGED <<txlog, status>>
      BY <2>1, <3>1 DEF InitiateSendTx, SelectInputs
    <3> QED
      BY <3>2, <3>3
  <2>2. CASE TxLockOutputs(t)
    <3>1. t \in Workers /\ pc[t] \in InHand /\ LockTxContext(cur[t]) /\ UNCHANGED inputs
      BY <2>2, WorkerNotNobody DEF TxLockOutputs, InHand
    <3> QED
      BY <3>1
  <2>3. CASE CancelTx(t)
    <3>1. cur[t] \in Slates
      BY <2>3, WorkerNotNobody DEF CancelTx, IInv, CurOK
    <3>2. CASE txlog[cur[t]] = "TxSent"
      BY <2>3, <3>1, <3>2 DEF CancelTx
    <3>3. CASE txlog[cur[t]] # "TxSent"
      BY <2>3, <3>3 DEF CancelTx
    <3> QED
      BY <3>2, <3>3
  <2>4. CASE Refresh(t)
    BY <2>4, <1>1, WorkerNotNobody
  <2>5. CASE \/ InitiateSendTxFails(t) \/ PostSlate(t) \/ PostSlateFails(t)
             \/ PostHttps(t) \/ PostHttpsFails(t) \/ TxLockOutputsFails(t)
             \/ FinalizeSlate(t) \/ FinalizeFails(t) \/ PostTx(t) \/ CancelFails(t)
    BY <2>5 DEF InitiateSendTxFails, PostSlate, PostSlateFails, PostHttps,
       PostHttpsFails, TxLockOutputsFails, FinalizeSlate, FinalizeFails, PostTx,
       CancelFails, dbVars
  <2> QED
    BY <1>3, <2>1, <2>2, <2>3, <2>4, <2>5 DEF CommandStep
<1>4. CASE ListenerStep
  <2>1. CASE InvoiceTx
    <3>1. PICK I \in SUBSET Outputs :
             SelectInputs(Listener, cur[Listener], I, "InvoiceLock")
      BY <2>1 DEF InvoiceTx
    <3>2. cur[Listener] \in Slates /\ txlog[cur[Listener]] = "None"
      BY <2>1, WorkerNotNobody DEF InvoiceTx, IInv, CurOK
    <3>3. /\ inputs' = [inputs EXCEPT ![cur[Listener]] = I]
          /\ UNCHANGED <<txlog, status>>
      BY <2>1, <3>1 DEF InvoiceTx, SelectInputs
    <3> QED
      BY <3>2, <3>3
  <2>2. CASE InvoiceLock
    <3>1. /\ Listener \in Workers /\ pc[Listener] \in InHand
          /\ LockTxContext(cur[Listener]) /\ UNCHANGED inputs
      BY <2>2, WorkerNotNobody DEF InvoiceLock, InHand
    <3> QED
      BY <3>1
  <2>3. CASE RefreshForInvoice
    BY <2>3, <1>1, WorkerNotNobody DEF RefreshForInvoice
  <2>4. CASE \/ FinalizeSlate(Listener) \/ FinalizeFails(Listener) \/ PostTx(Listener)
             \/ RejectInvoice \/ InvoiceLockFails \/ ReplyToInvoice
    BY <2>4 DEF FinalizeSlate, FinalizeFails, PostTx, RejectInvoice, InvoiceLockFails,
       ReplyToInvoice, dbVars
  <2> QED
    BY <1>4, <2>1, <2>2, <2>3, <2>4 DEF ListenerStep
<1>5. CASE ListenerLock \/ \E s \in Slates : OnReply(s) \/ OnInvoice(s)
  BY <1>5 DEF ListenerLock, OnReply, OnInvoice, dbVars
<1>6. CASE Environment
  <2>1. CASE Updater
    BY <2>1 DEF Updater
  <2>2. CASE ~Updater
    BY <1>6, <2>2 DEF Environment, Restart, PeerReceive, PeerIssueInvoice,
       PeerPostInvoice, RelayLoses, Mine, dbVars
  <2> QED
    BY <2>1, <2>2
<1>7. CASE UNCHANGED vars
  BY <1>7 DEF vars, dbVars
<1> QED
  BY <1>2, <1>3, <1>4, <1>5, <1>6, <1>7 DEF Next

(* Reservations seen through the refinement mapping. *)
LEMMA LockReserves ==
  ASSUME IInv, NEW w \in Workers, pc[w] \in InHand,
         LockTxContext(cur[w]), UNCHANGED inputs
  PROVE  Ledger!Next
<1> DEFINE s == cur[w]
<1>1. /\ s \in Slates
      /\ \A r \in Slates : Live(r)' <=> (r = s \/ Live(r))
  BY LockFacts
<1>2. ~Live(s) /\ txlog[s] # "Cancelled"
  BY <1>1 DEF IInv, InHandFree, Live
<1>3. \A r \in Slates : Live(r) => inputs[r] \cap inputs[s] = {}
  BY <1>1 DEF IInv, InHandFree
<1>4. \A r \in Slates : (txlog'[r] = "Cancelled") <=> (txlog[r] = "Cancelled")
  BY <1>1, <1>2 DEF IInv, TypeOK, LockTxContext
<1>5. Ledger!Reserve(s, inputs[s])
  BY <1>1, <1>2, <1>3, <1>4 DEF Ledger!Reserve
<1>6. inputs[s] \in SUBSET Outputs
  BY <1>1 DEF IInv, TypeOK
<1> QED
  BY <1>1, <1>5, <1>6 DEF Ledger!Next, Ledger!Reserve

(* A cancellation is a Release of the abstract specification. *)
LEMMA CancelReleases ==
  ASSUME IInv, NEW s \in Slates, txlog[s] = "TxSent", CancelTxAndOutputs(s),
         UNCHANGED inputs
  PROVE  Ledger!Next
<1>1. \A r \in Slates : Live(r)' <=> (r # s /\ Live(r))
  BY DEF CancelTxAndOutputs, IInv, TypeOK, Live
<1>2. \A r \in Slates : (txlog'[r] = "Cancelled") <=> (r = s \/ txlog[r] = "Cancelled")
  BY DEF CancelTxAndOutputs, IInv, TypeOK
<1>3. Ledger!Release(s)
  BY <1>1, <1>2 DEF Ledger!Release
<1> QED
  BY <1>3 DEF Ledger!Next, Ledger!Release

(* Steps after which the same transactions are live, with the same inputs, and
   the same ones cancelled, change no reservation. *)
LEMMA ReservationsKept ==
  ASSUME \A r \in Slates : Live(r)' <=> Live(r),
         \A r \in Slates : Live(r) => inputs'[r] = inputs[r],
         \A r \in Slates : (txlog'[r] = "Cancelled") <=> (txlog[r] = "Cancelled")
  PROVE  UNCHANGED Ledger!vars
BY DEF Ledger!vars

(* A node answer confirms transactions and changes no reservation. *)
LEMMA UpdateKeepsReservations ==
  ASSUME TypeOK, UpdateWalletState, UNCHANGED inputs
  PROVE  UNCHANGED Ledger!vars
<1>1. \A r \in Slates : (txlog'[r] = "Cancelled") <=> (txlog[r] = "Cancelled")
  BY DEF TypeOK, UpdateWalletState
<1>2. \A r \in Slates : Live(r)' <=> Live(r)
  BY DEF TypeOK, UpdateWalletState, Live
<1> QED
  BY <1>1, <1>2, ReservationsKept

(* Selected inputs are reserved only once they are locked. *)
LEMMA SelectKeepsReservations ==
  ASSUME IInv, NEW s \in Slates, NEW I \in SUBSET Outputs, txlog[s] = "None",
         inputs' = [inputs EXCEPT ![s] = I], UNCHANGED txlog
  PROVE  UNCHANGED Ledger!vars
<1>1. \A r \in Slates : Live(r)' <=> Live(r)
  BY DEF Live
<1>2. \A r \in Slates : Live(r) => inputs'[r] = inputs[r]
  BY DEF Live, IInv, TypeOK
<1> QED
  BY <1>1, <1>2, ReservationsKept

(* Every step of the wallet is a step of Reservations or changes nothing. *)
LEMMA StepRefines == IInv /\ [Next]_vars => [Ledger!Next]_(Ledger!vars)
<1> SUFFICES ASSUME IInv, [Next]_vars PROVE Ledger!Next \/ UNCHANGED Ledger!vars
  OBVIOUS
<1>1. CASE UNCHANGED <<inputs, txlog, status>>
  BY <1>1, ReservationsKept DEF Live
<1>2. CASE UpdateWalletState /\ UNCHANGED inputs
  BY <1>2, UpdateKeepsReservations DEF IInv
<1>3. CASE \E w \in Workers :
             pc[w] \in InHand /\ LockTxContext(cur[w]) /\ UNCHANGED inputs
  BY <1>3, LockReserves
<1>4. CASE \E s \in Slates :
             txlog[s] = "TxSent" /\ CancelTxAndOutputs(s) /\ UNCHANGED inputs
  BY <1>4, CancelReleases
<1>5. CASE \E s \in Slates : \E I \in SUBSET Outputs :
             /\ txlog[s] = "None"
             /\ inputs' = [inputs EXCEPT ![s] = I]
             /\ UNCHANGED <<txlog, status>>
  BY <1>5, SelectKeepsReservations
<1> QED
  BY <1>1, <1>2, <1>3, <1>4, <1>5, LedgerSteps

(* The wallet, with its threads, relay, node and crashes, implements the
   reservation of outputs that Reservations specifies. *)
THEOREM WalletImplementsReservations == Spec => ImplementsReservations
<1>1. Init => Ledger!Init
  BY DEF Init, Ledger!Init, Live
<1> QED
  BY <1>1, StepRefines, InductiveInvariant, PTL
     DEF Spec, ImplementsReservations, Ledger!Spec

-----------------------------------------------------------------------------
(* What the database, the results and the replies have to do with each other. *)

(* Outputs and log change together, so a lock keeps its transaction. *)
LEMMA StepNoOrphanLock == IInv /\ NoOrphanLock /\ [Next]_vars => NoOrphanLock'
<1> SUFFICES ASSUME IInv, NoOrphanLock, [Next]_vars, NEW o \in Outputs, status'[o] = "Locked"
             PROVE  \E s \in Slates : txlog'[s] = "TxSent" /\ o \in inputs'[s]
  BY DEF NoOrphanLock
<1> USE DEF TypeOK
<1>0. TypeOK
  BY DEF IInv
<1>1. CASE UNCHANGED <<inputs, txlog, status>>
  BY <1>1 DEF NoOrphanLock
<1>2. CASE UpdateWalletState /\ UNCHANGED inputs
  <2>1. o \notin ChainSpent /\ status[o] = "Locked"
    BY <1>0, <1>2 DEF UpdateWalletState
  <2>2. PICK s \in Slates : txlog[s] = "TxSent" /\ o \in inputs[s]
    BY <2>1 DEF NoOrphanLock
  <2>3. chain[s] # "Confirmed"
    BY <2>1, <2>2 DEF ChainSpent
  <2>4. txlog'[s] = "TxSent"
    BY <1>2, <2>2, <2>3 DEF UpdateWalletState
  <2> QED
    BY <1>2, <2>2, <2>4
<1>3. ASSUME NEW w \in Workers, pc[w] \in InHand, LockTxContext(cur[w]), UNCHANGED inputs
      PROVE  \E s \in Slates : txlog'[s] = "TxSent" /\ o \in inputs'[s]
  <2>1. cur[w] \in Slates
    BY <1>3 DEF IInv, CurOK, InHand
  <2>2. txlog'[cur[w]] = "TxSent" /\ \A r \in Slates \ {cur[w]} : txlog'[r] = txlog[r]
    BY <1>0, <1>3, <2>1 DEF LockTxContext
  <2>3. CASE o \in inputs[cur[w]]
    BY <1>3, <2>1, <2>2, <2>3
  <2>4. CASE o \notin inputs[cur[w]]
    <3>1. status[o] = "Locked"
      BY <1>3, <2>4 DEF LockTxContext
    <3> QED
      BY <1>3, <2>2, <3>1 DEF NoOrphanLock
  <2> QED
    BY <2>3, <2>4
<1>4. ASSUME NEW s \in Slates, txlog[s] = "TxSent", CancelTxAndOutputs(s), UNCHANGED inputs
      PROVE  \E r \in Slates : txlog'[r] = "TxSent" /\ o \in inputs'[r]
  <2>1. o \notin inputs[s] /\ status[o] = "Locked"
    BY <1>0, <1>4 DEF CancelTxAndOutputs
  <2>2. PICK r \in Slates : txlog[r] = "TxSent" /\ o \in inputs[r]
    BY <2>1 DEF NoOrphanLock
  <2>3. txlog'[r] = "TxSent"
    BY <1>0, <1>4, <2>1, <2>2 DEF CancelTxAndOutputs
  <2> QED
    BY <1>4, <2>2, <2>3
<1>5. ASSUME NEW s \in Slates, NEW I \in SUBSET Outputs, txlog[s] = "None",
             inputs' = [inputs EXCEPT ![s] = I], UNCHANGED <<txlog, status>>
      PROVE  \E r \in Slates : txlog'[r] = "TxSent" /\ o \in inputs'[r]
  <2>1. PICK r \in Slates : txlog[r] = "TxSent" /\ o \in inputs[r]
    BY <1>5 DEF NoOrphanLock
  <2>2. r # s /\ inputs'[r] = inputs[r]
    BY <1>0, <1>5, <2>1
  <2> QED
    BY <1>5, <2>1, <2>2
<1> QED
  BY <1>1, <1>2, <1>3, <1>4, <1>5, LedgerSteps

(* No failed send, refused invoice, cancellation, refresh or crash leaves an
   output locked that no unconfirmed transaction owns: tx_lock_outputs and
   cancel_tx write outputs and log entry in one batch (main.rs:1831,
   wallet/api/api.rs:794-808, 856-877). *)
THEOREM LocksAreOwned == Spec => []NoOrphanLock
<1>1. Init => NoOrphanLock
  BY DEF Init, NoOrphanLock
<1> QED
  BY <1>1, StepNoOrphanLock, InductiveInvariant, PTL DEF Spec

-----------------------------------------------------------------------------
(* Replies, results and the node: the inductive invariant behind NoEarlyReply
   and UnsentNeverPosted. *)

(* Between init_send_tx and tx_lock_outputs of a send. *)
SendInHand == {"Post", "Lock", "HttpsLock"}

InvoicePlaces == {"GotInvoice", "Invoice", "InvoiceSelect", "InvoiceLock", "InvoiceReply"}

(* Slate s suits a thread at this place. *)
Suits(place, s) ==
    /\ place \in SendInHand => s \in Sends /\ result[s] = "None"
    /\ place \in InvoicePlaces => s \in Invoices
    /\ place \in {"GotReply", "Finalize"} => s \in Sends /\ ctx[s] # "None"
    /\ place = "PostTx" => s \in stored

PlaceOK == \A w \in Workers : Suits(pc[w], cur[w])

(* Only a send has a result, and one told to have failed was never logged. *)
ResultOK ==
    \A s \in Slates :
        /\ ctx[s] = "None" => result[s] = "None"
        /\ result[s] # "None" => s \in Sends
        /\ result[s] = "Unsent" => txlog[s] = "None"

(* What is stored was logged; a context is used up by storing; and what of a
   send is known outside of the wallet came from it. *)
StoredOK ==
    \A s \in Slates :
        /\ s \in stored => txlog[s] # "None"
        /\ ctx[s] = "Deleted" => s \in stored
        /\ s \in Sends =>
              /\ chain[s] # "None" \/ txlog[s] = "Confirmed" => s \in stored
              /\ relay[s] # {} => ctx[s] # "None"

(* A send with a context and no log entry is in a thread's hands or failed. *)
UnloggedOK ==
    \A s \in Sends :
        ctx[s] = "Saved" /\ txlog[s] = "None" =>
            result[s] = "Unsent" \/ \E t \in Threads : pc[t] \in SendInHand /\ cur[t] = s

ReplyInv == PlaceOK /\ ResultOK /\ StoredOK /\ UnloggedOK /\ NoEarlyReply

(* Nothing is in a thread's hands, logged or replied to at the start. *)
LEMMA InitReplyInv == Init => ReplyInv
<1> SUFFICES ASSUME Init PROVE ReplyInv
  OBVIOUS
<1>1. PlaceOK
  BY DEF Init, PlaceOK, Suits, SendInHand, InvoicePlaces
<1>2. ResultOK /\ UnloggedOK /\ NoEarlyReply
  BY SendsAreSlates DEF Init, ResultOK, UnloggedOK, NoEarlyReply
<1>3. StoredOK
  BY DEF Init, StoredOK
<1> QED
  BY <1>1, <1>2, <1>3 DEF ReplyInv

(* Slates and invoices. *)
LEMMA SlateKinds ==
  /\ Sends \subseteq Slates /\ Invoices \subseteq Slates /\ Sends \cap Invoices = {}
  /\ Slates = Sends \cup Invoices
BY SlatesAssumption DEF Sends

(* One thread moves.  The others wait, or hold no guard, and what their places
   ask of contexts and stored transactions is never taken back. *)
LEMMA MoveKeepsPlaces ==
  ASSUME IInv, PlaceOK, NEW w \in Workers, NEW place, NEW s,
         pc' = [pc EXCEPT ![w] = place], cur' = [cur EXCEPT ![w] = s],
         Suits(place, s)',
         pc[w] \in Holding \/ UNCHANGED result,
         stored \subseteq stored',
         \A r \in Slates : ctx[r] # "None" => ctx'[r] # "None"
  PROVE  PlaceOK'
<1> SUFFICES ASSUME NEW v \in Workers PROVE Suits(pc[v], cur[v])'
  BY DEF PlaceOK
<1>1. CASE v = w
  <2>1. pc'[w] = place /\ cur'[w] = s
    BY DEF IInv, TypeOK
  <2> QED
    BY <1>1, <2>1 DEF Suits
<1>2. CASE v # w
  <2>1. pc'[v] = pc[v] /\ cur'[v] = cur[v] /\ Suits(pc[v], cur[v])
    BY <1>2 DEF IInv, TypeOK, PlaceOK
  <2>2. pc[v] \in SendInHand => UNCHANGED result
    BY <1>2, OneHolder DEF SendInHand, Holding
  <2> QED
    BY <2>1, <2>2, SlateKinds DEF Suits
<1> QED
  BY <1>1, <1>2

(* A thread moves; database, results and node stay as they are. *)
LEMMA MoveReplyInv ==
  ASSUME IInv, ReplyInv, NEW w \in Workers, NEW place, NEW s,
         pc' = [pc EXCEPT ![w] = place], cur' = [cur EXCEPT ![w] = s],
         Suits(place, s),
         pc[w] \in SendInHand => place \in SendInHand /\ s = cur[w],
         UNCHANGED <<dbVars, result, dropped, chain>>,
         \A r \in Sends : relay'[r] # {} => ctx[r] # "None"
  PROVE  ReplyInv'
<1> USE DEF dbVars
<1>1. PlaceOK'
  <2>1. Suits(place, s)'
    BY DEF Suits
  <2> QED
    BY <2>1, MoveKeepsPlaces DEF ReplyInv
<1>2. ResultOK' /\ NoEarlyReply'
  BY DEF ReplyInv, ResultOK, NoEarlyReply
<1>3. StoredOK'
  BY DEF ReplyInv, StoredOK
<1>4. UnloggedOK'
  <2> SUFFICES ASSUME NEW r \in Sends, ctx[r] = "Saved", txlog[r] = "None", result[r] # "Unsent"
               PROVE  \E t \in Threads : pc'[t] \in SendInHand /\ cur'[t] = r
    BY DEF UnloggedOK
  <2>1. PICK t \in Threads : pc[t] \in SendInHand /\ cur[t] = r
    BY DEF ReplyInv, UnloggedOK
  <2>2. pc'[t] \in SendInHand /\ cur'[t] = r
    BY <2>1, WorkerNotNobody DEF IInv, TypeOK
  <2> QED
    BY <2>2
<1> QED
  BY <1>1, <1>2, <1>3, <1>4 DEF ReplyInv

(* post_slate or tx_lock_outputs fails: the send is reported as failed while
   its slate is not logged. *)
LEMMA SendFailsReplyInv ==
  ASSUME IInv, ReplyInv, NEW t \in Threads, pc[t] \in SendInHand, Return(t),
         result' = [result EXCEPT ![cur[t]] = "Unsent"],
         UNCHANGED <<dbVars, dropped, chain>>,
         \A r \in Sends : relay'[r] # {} => ctx[r] # "None"
  PROVE  ReplyInv'
<1> USE DEF dbVars
<1>0. /\ t \in Workers /\ pc[t] \in Holding
      /\ cur[t] \in Sends /\ cur[t] \in Slates
      /\ ctx[cur[t]] # "None" /\ txlog[cur[t]] = "None"
  BY WorkerNotNobody, SlateKinds
     DEF SendInHand, Holding, ReplyInv, PlaceOK, Suits, IInv, InHandFree, InHand
<1>a. /\ result'[cur[t]] = "Unsent"
      /\ \A r \in Slates \ {cur[t]} : result'[r] = result[r]
  BY <1>0 DEF IInv, TypeOK
<1>1. PlaceOK'
  <2>1. Suits("Idle", NoSlate)'
    BY DEF Suits, SendInHand, InvoicePlaces
  <2> QED
    BY <1>0, <2>1, MoveKeepsPlaces DEF Return, Goto, ReplyInv
<1>2. ResultOK'
  BY <1>0, <1>a DEF ReplyInv, ResultOK
<1>3. NoEarlyReply'
  BY <1>0, <1>a, SlateKinds DEF ReplyInv, NoEarlyReply
<1>4. StoredOK'
  BY DEF ReplyInv, StoredOK
<1>5. UnloggedOK'
  <2> SUFFICES ASSUME NEW r \in Sends, ctx[r] = "Saved", txlog[r] = "None", result'[r] # "Unsent"
               PROVE  \E v \in Threads : pc'[v] \in SendInHand /\ cur'[v] = r
    BY DEF UnloggedOK
  <2>1. r # cur[t] /\ result[r] # "Unsent"
    BY <1>a, SlateKinds
  <2>2. PICK v \in Threads : pc[v] \in SendInHand /\ cur[v] = r
    BY <2>1 DEF ReplyInv, UnloggedOK
  <2>3. pc'[v] \in SendInHand /\ cur'[v] = r
    BY <2>1, <2>2, WorkerNotNobody DEF IInv, TypeOK, Return, Goto
  <2> QED
    BY <2>3
<1> QED
  BY <1>1, <1>2, <1>3, <1>4, <1>5 DEF ReplyInv

(* Threads that keep out of a send's hands leave the slates there alone. *)
LEMMA InHandStays ==
  ASSUME IInv, UnloggedOK, NEW w \in Workers, NEW place, NEW s,
         pc' = [pc EXCEPT ![w] = place], cur' = [cur EXCEPT ![w] = s],
         pc[w] \notin SendInHand,
         NEW r \in Sends, ctx[r] = "Saved", txlog[r] = "None", result[r] # "Unsent"
  PROVE  \E t \in Threads : pc'[t] \in SendInHand /\ cur'[t] = r
<1>1. PICK t \in Threads : pc[t] \in SendInHand /\ cur[t] = r
  BY DEF UnloggedOK
<1>2. pc'[t] \in SendInHand /\ cur'[t] = r
  BY <1>1, WorkerNotNobody DEF IInv, TypeOK
<1> QED
  BY <1>2

(* What a node's answer changes in the log. *)
LEMMA UpdateReplyFacts ==
  ASSUME IInv, ReplyInv, UpdateWalletState,
         UNCHANGED <<inputs, ctx, stored, result, dropped, relay, peer, chain>>
  PROVE  /\ ResultOK' /\ StoredOK' /\ NoEarlyReply'
         /\ \A s \in Slates : txlog[s] = "None" <=> txlog'[s] = "None"
<1>1. \A s \in Slates :
         \/ txlog'[s] = txlog[s]
         \/ txlog[s] = "TxSent" /\ txlog'[s] = "Confirmed" /\ chain[s] = "Confirmed"
  BY DEF IInv, TypeOK, UpdateWalletState
<1>2. \A s \in Slates : txlog[s] = "None" <=> txlog'[s] = "None"
  BY <1>1
<1>3. ResultOK'
  BY <1>2 DEF ReplyInv, ResultOK
<1>4. StoredOK'
  BY <1>1, <1>2 DEF ReplyInv, StoredOK
<1>5. NoEarlyReply'
  BY <1>1, SlateKinds DEF ReplyInv, NoEarlyReply
<1> QED
  BY <1>2, <1>3, <1>4, <1>5

(* The wallet-updater thread. *)
LEMMA UpdaterReplyInv == ASSUME IInv, ReplyInv, Updater PROVE ReplyInv'
<1> USE DEF Updater, threadVars
<1>1. PlaceOK'
  BY DEF ReplyInv, PlaceOK, Suits
<1>2. UnloggedOK'
  BY UpdateReplyFacts, SlateKinds DEF ReplyInv, UnloggedOK
<1> QED
  BY <1>1, <1>2, UpdateReplyFacts DEF ReplyInv

(* update_wallet_state at the start of initiate_tx, invoice_tx and cancel_tx. *)
LEMMA RefreshReplyInv ==
  ASSUME IInv, ReplyInv, NEW w \in Workers, Refresh(w)
  PROVE  ReplyInv'
<1>0. PICK place, c : place = RefreshNext(pc[w]) /\ c = cur[w]
  OBVIOUS
<1>1. /\ pc[w] \notin SendInHand
      /\ Suits(place, c)
      /\ place \notin SendInHand
  BY <1>0 DEF Refresh, RefreshNext, ReplyInv, PlaceOK, Suits, SendInHand, InvoicePlaces
<1>2. /\ pc' = [pc EXCEPT ![w] = place]
      /\ cur' = [cur EXCEPT ![w] = c]
  BY <1>0 DEF Refresh, Continue, Goto, IInv, TypeOK
<1>3. CASE UpdateWalletState
  <2>1. PlaceOK'
    <3>1. Suits(place, c)'
      BY <1>1 DEF Suits, Refresh
    <3> QED
      BY <1>2, <3>1, MoveKeepsPlaces DEF Refresh, ReplyInv
  <2>2. UnloggedOK'
    <3> SUFFICES ASSUME NEW r \in Sends, ctx[r] = "Saved", txlog'[r] = "None", result[r] # "Unsent"
                 PROVE  \E t \in Threads : pc'[t] \in SendInHand /\ cur'[t] = r
      BY DEF UnloggedOK, Refresh
    <3>1. txlog[r] = "None"
      BY <1>3, UpdateReplyFacts, SlateKinds DEF Refresh
    <3> QED
      BY <1>1, <1>2, <3>1, InHandStays DEF ReplyInv
  <2> QED
    BY <1>3, <2>1, <2>2, UpdateReplyFacts DEF Refresh, ReplyInv
<1>4. CASE UNCHANGED <<status, txlog>>
  <2>1. \A r \in Sends : relay'[r] # {} => ctx[r] # "None"
    BY SlateKinds DEF Refresh, ReplyInv, StoredOK
  <2> QED
    BY <1>1, <1>2, <1>4, <2>1, MoveReplyInv DEF Refresh, dbVars
<1> QED
  BY <1>3, <1>4 DEF Refresh

(* tx_lock_outputs of a send: the first log entry of the slate in hand, of
   which no reply was turned away. *)
LEMMA TxLockOutputsReplyInv ==
  ASSUME IInv, ReplyInv, NEW t \in Threads, TxLockOutputs(t)
  PROVE  ReplyInv'
<1> USE DEF TxLockOutputs
<1> PICK s : s = cur[t]
  OBVIOUS
<1>0. PICK place, c : /\ pc' = [pc EXCEPT ![t] = place] /\ cur' = [cur EXCEPT ![t] = c]
                      /\ place = "Idle" \/ (place = "Finalize" /\ c = s)
  <2>1. CASE Return(t)
    BY <2>1 DEF Return, Goto
  <2>2. CASE Continue(t, "Finalize")
    <3>1. pc' = [pc EXCEPT ![t] = "Finalize"] /\ cur' = [cur EXCEPT ![t] = s]
      BY <2>2 DEF Continue, Goto, IInv, TypeOK
    <3> QED
      BY <3>1
  <2> QED
    BY <2>1, <2>2
<1>1. /\ t \in Workers /\ pc[t] \in Holding
      /\ s \in Sends /\ s \in Slates /\ result[s] = "None"
      /\ ctx[s] # "None" /\ txlog[s] = "None"
  BY <1>0, WorkerNotNobody, SlateKinds
     DEF SendInHand, Holding, ReplyInv, PlaceOK, Suits, IInv, InHandFree, InHand
<1>2. /\ txlog'[s] = "TxSent" /\ result'[s] = "Sent"
      /\ \A r \in Slates \ {s} : txlog'[r] = txlog[r] /\ result'[r] = result[r]
  BY <1>0, <1>1 DEF LockTxContext, IInv, TypeOK
<1>3. s \notin stored /\ s \notin dropped
  BY <1>1 DEF ReplyInv, StoredOK, NoEarlyReply
<1>4. PlaceOK'
  <2>1. Suits(place, c)'
    BY <1>0, <1>1 DEF Suits, SendInHand, InvoicePlaces
  <2> QED
    BY <1>0, <1>1, <2>1, MoveKeepsPlaces DEF ReplyInv
<1>5. ResultOK'
  BY <1>1, <1>2 DEF ReplyInv, ResultOK
<1>6. StoredOK'
  BY <1>1, <1>2, <1>3 DEF ReplyInv, StoredOK
<1>7. NoEarlyReply'
  BY <1>2, <1>3, SlateKinds DEF ReplyInv, NoEarlyReply
<1>8. UnloggedOK'
  <2> SUFFICES ASSUME NEW r \in Sends, ctx[r] = "Saved", txlog'[r] = "None", result'[r] # "Unsent"
               PROVE  \E v \in Threads : pc'[v] \in SendInHand /\ cur'[v] = r
    BY DEF UnloggedOK
  <2>1. r # s /\ txlog[r] = "None" /\ result[r] # "Unsent"
    BY <1>2, SlateKinds
  <2>2. PICK v \in Threads : pc[v] \in SendInHand /\ cur[v] = r
    BY <2>1 DEF ReplyInv, UnloggedOK
  <2>3. pc'[v] \in SendInHand /\ cur'[v] = r
    BY <1>0, <2>1, <2>2, WorkerNotNobody DEF IInv, TypeOK
  <2> QED
    BY <2>3
<1> QED
  BY <1>4, <1>5, <1>6, <1>7, <1>8 DEF ReplyInv

(* Logging or cancelling a transaction that no send has in hand. *)
LEMMA LogChangeReplyInv ==
  ASSUME IInv, ReplyInv, NEW w \in Workers, NEW place, NEW c, NEW s \in Slates,
         NEW type \in {"TxSent", "Cancelled"},
         pc' = [pc EXCEPT ![w] = place], cur' = [cur EXCEPT ![w] = c],
         pc[w] \notin SendInHand, Suits(place, c), place \notin SendInHand,
         s \in Sends => txlog[s] = "TxSent" /\ type = "Cancelled",
         txlog' = [txlog EXCEPT ![s] = type],
         UNCHANGED <<ctx, stored, result, dropped, relay, chain>>
  PROVE  ReplyInv'
<1>1. /\ txlog'[s] = type
      /\ \A r \in Slates \ {s} : txlog'[r] = txlog[r]
  BY DEF IInv, TypeOK
<1>2. PlaceOK'
  <2>1. Suits(place, c)'
    BY DEF Suits
  <2> QED
    BY <2>1, MoveKeepsPlaces DEF ReplyInv
<1>3. ResultOK'
  BY <1>1 DEF ReplyInv, ResultOK
<1>4. StoredOK'
  BY <1>1 DEF ReplyInv, StoredOK
<1>5. NoEarlyReply'
  BY <1>1, SlateKinds DEF ReplyInv, NoEarlyReply
<1>6. UnloggedOK'
  <2> SUFFICES ASSUME NEW r \in Sends, ctx[r] = "Saved", txlog'[r] = "None", result[r] # "Unsent"
               PROVE  \E v \in Threads : pc'[v] \in SendInHand /\ cur'[v] = r
    BY DEF UnloggedOK
  <2>1. txlog[r] = "None"
    BY <1>1, SlateKinds
  <2> QED
    BY <2>1, InHandStays DEF ReplyInv
<1> QED
  BY <1>2, <1>3, <1>4, <1>5, <1>6 DEF ReplyInv

(* The listener logs an invoice. *)
LEMMA InvoiceLockReplyInv == ASSUME IInv, ReplyInv, InvoiceLock PROVE ReplyInv'
<1>0. PICK c : c = cur[Listener]
  OBVIOUS
<1>1. c \in Slates /\ c \in Invoices /\ c \notin Sends
  BY <1>0, WorkerNotNobody, SlateKinds
     DEF InvoiceLock, ReplyInv, PlaceOK, Suits, InvoicePlaces
<1>2. /\ pc' = [pc EXCEPT ![Listener] = "InvoiceReply"]
      /\ cur' = [cur EXCEPT ![Listener] = c]
      /\ pc[Listener] \notin SendInHand
  BY <1>0 DEF InvoiceLock, Goto, SendInHand, IInv, TypeOK
<1>3. Suits("InvoiceReply", c) /\ "InvoiceReply" \notin SendInHand
  BY <1>1 DEF Suits, SendInHand, InvoicePlaces
<1> QED
  BY <1>0, <1>1, <1>2, <1>3, WorkerNotNobody, LogChangeReplyInv
     DEF InvoiceLock, LockTxContext

(* A transaction is cancelled, or found to be past cancelling. *)
LEMMA CancelTxReplyInv ==
  ASSUME IInv, ReplyInv, NEW t \in Threads, CancelTx(t)
  PROVE  ReplyInv'
<1>1. /\ pc' = [pc EXCEPT ![t] = "Idle"] /\ cur' = [cur EXCEPT ![t] = NoSlate]
      /\ t \in Workers /\ cur[t] \in Slates /\ pc[t] \notin SendInHand
  BY WorkerNotNobody DEF CancelTx, Return, Goto, IInv, CurOK, SendInHand
<1>2. Suits("Idle", NoSlate) /\ "Idle" \notin SendInHand
  BY DEF Suits, SendInHand, InvoicePlaces
<1>3. CASE txlog[cur[t]] = "TxSent"
  BY <1>1, <1>2, <1>3, LogChangeReplyInv DEF CancelTx, CancelTxAndOutputs
<1>4. CASE txlog[cur[t]] # "TxSent"
  <2>1. \A r \in Sends : relay'[r] # {} => ctx[r] # "None"
    BY SlateKinds DEF CancelTx, ReplyInv, StoredOK
  <2> QED
    BY <1>1, <1>2, <1>4, <2>1, MoveReplyInv DEF CancelTx, dbVars
<1> QED
  BY <1>3, <1>4

(* Inputs are selected and a context saved: for a new send, which is then in
   hand, or for an invoice. *)
LEMMA SelectReplyInv ==
  ASSUME IInv, ReplyInv, NEW w \in Workers, NEW place \in InHand, NEW s \in Slates,
         NEW I \in SUBSET Outputs,
         SelectInputs(w, s, I, place), pc[w] \in Holding, pc[w] \notin SendInHand,
         txlog[s] = "None",
         s \in Sends => w \in Threads /\ place \in SendInHand /\ ctx[s] = "None",
         s \in Invoices => place = "InvoiceLock",
         UNCHANGED <<status, txlog, result, dropped, relay, peer, chain>>
  PROVE  ReplyInv'
<1> USE DEF SelectInputs, Goto
<1>1. ctx'[s] = "Saved" /\ \A r \in Slates \ {s} : ctx'[r] = ctx[r]
  BY DEF IInv, TypeOK
<1>2. s \in Sends => result[s] = "None"
  BY DEF ReplyInv, ResultOK
<1>3. PlaceOK'
  <2>1. Suits(place, s)'
    BY <1>2, SlateKinds DEF Suits, InHand, SendInHand, InvoicePlaces
  <2> QED
    BY <1>1, <2>1, MoveKeepsPlaces DEF ReplyInv
<1>4. ResultOK' /\ NoEarlyReply'
  BY <1>1 DEF ReplyInv, ResultOK, NoEarlyReply
<1>5. StoredOK'
  BY <1>1 DEF ReplyInv, StoredOK
<1>6. UnloggedOK'
  <2> SUFFICES ASSUME NEW r \in Sends, ctx'[r] = "Saved", txlog[r] = "None", result[r] # "Unsent"
               PROVE  \E v \in Threads : pc'[v] \in SendInHand /\ cur'[v] = r
    BY DEF UnloggedOK
  <2>1. CASE r = s
    BY <2>1 DEF IInv, TypeOK
  <2>2. CASE r # s
    <3>1. ctx[r] = "Saved"
      BY <1>1, <2>2, SlateKinds
    <3> QED
      BY <3>1, InHandStays DEF ReplyInv
  <2> QED
    BY <2>1, <2>2
<1> QED
  BY <1>3, <1>4, <1>5, <1>6 DEF ReplyInv

(* A reply that cannot be finalized is one of a send that failed, was cancelled
   or is finalized: whoever finalizes owns the guard, so no send is in hand. *)
LEMMA TurnedAway ==
  ASSUME IInv, ReplyInv, NEW w \in Workers, pc[w] = "Finalize", ~CanFinalize(cur[w])
  PROVE  result[cur[w]] = "Unsent" \/ txlog[cur[w]] = "Cancelled" \/ cur[w] \in stored
<1> PICK s : s = cur[w]
  OBVIOUS
<1>1. s \in Sends /\ s \in Slates /\ ctx[s] # "None"
  BY SlateKinds DEF ReplyInv, PlaceOK, Suits
<1>2. \A t \in Threads : pc[t] \notin SendInHand
  BY OneHolder, WorkerNotNobody DEF Holding, SendInHand
<1>3. CASE ctx[s] = "Deleted"
  BY <1>1, <1>3 DEF ReplyInv, StoredOK
<1>4. CASE ctx[s] = "Saved" /\ txlog[s] = "None"
  BY <1>1, <1>2, <1>4 DEF ReplyInv, UnloggedOK
<1>5. CASE txlog[s] = "Confirmed"
  BY <1>1, <1>5 DEF ReplyInv, StoredOK
<1>6. CASE txlog[s] = "Cancelled"
  BY <1>6
<1> QED
  BY <1>1, <1>3, <1>4, <1>5, <1>6 DEF CanFinalize, IInv, TypeOK

(* finalize_tx, by a command or by the listener. *)
LEMMA FinalizeReplyInv ==
  ASSUME IInv, ReplyInv, NEW w \in Workers, FinalizeSlate(w)
  PROVE  ReplyInv'
<1> PICK s : s = cur[w]
  OBVIOUS
<1> USE DEF FinalizeSlate
<1>0. s \in Sends /\ s \in Slates /\ pc[w] \in Holding /\ pc[w] \notin SendInHand
  BY SlateKinds DEF ReplyInv, PlaceOK, Suits, Holding, SendInHand
<1>1. CASE CanFinalize(s)
  <2>1. /\ ctx'[s] = "Deleted" /\ \A r \in Slates \ {s} : ctx'[r] = ctx[r]
        /\ s \in stored' /\ stored \subseteq stored' /\ \A r \in stored' : r = s \/ r \in stored
        /\ txlog[s] = "TxSent" /\ txlog' = txlog /\ dropped' = dropped
        /\ pc' = [pc EXCEPT ![w] = "PostTx"] /\ cur' = [cur EXCEPT ![w] = s]
    BY <1>0, <1>1 DEF CanFinalize, Continue, Goto, IInv, TypeOK
  <2>2. PlaceOK'
    <3>1. Suits("PostTx", s)'
      BY <2>1 DEF Suits, SendInHand, InvoicePlaces
    <3> QED
      BY <1>0, <2>1, <3>1, MoveKeepsPlaces DEF ReplyInv
  <2>3. ResultOK' /\ NoEarlyReply'
    BY <2>1 DEF ReplyInv, ResultOK, NoEarlyReply
  <2>4. StoredOK'
    BY <2>1 DEF ReplyInv, StoredOK
  <2>5. UnloggedOK'
    <3> SUFFICES ASSUME NEW r \in Sends, ctx'[r] = "Saved", txlog[r] = "None", result[r] # "Unsent"
                 PROVE  \E v \in Threads : pc'[v] \in SendInHand /\ cur'[v] = r
      BY <2>1 DEF UnloggedOK
    <3>1. ctx[r] = "Saved"
      BY <2>1, SlateKinds
    <3> QED
      BY <1>0, <2>1, <3>1, InHandStays DEF ReplyInv
  <2> QED
    BY <2>2, <2>3, <2>4, <2>5 DEF ReplyInv
<1>2. CASE ~CanFinalize(s)
  <2>1. /\ dropped' = dropped \cup {s}
        /\ UNCHANGED <<ctx, stored, txlog, result, relay, chain>>
        /\ pc' = [pc EXCEPT ![w] = "Idle"] /\ cur' = [cur EXCEPT ![w] = NoSlate]
    BY <1>2 DEF Return, Goto
  <2>2. PlaceOK'
    <3>1. Suits("Idle", NoSlate)'
      BY DEF Suits, SendInHand, InvoicePlaces
    <3> QED
      BY <1>0, <2>1, <3>1, MoveKeepsPlaces DEF ReplyInv
  <2>3. ResultOK' /\ StoredOK'
    BY <2>1 DEF ReplyInv, ResultOK, StoredOK
  <2>4. NoEarlyReply'
    BY <1>2, <2>1, TurnedAway DEF ReplyInv, NoEarlyReply
  <2>5. UnloggedOK'
    BY <1>0, <2>1, InHandStays DEF ReplyInv, UnloggedOK
  <2> QED
    BY <2>2, <2>3, <2>4, <2>5 DEF ReplyInv
<1> QED
  BY <1>1, <1>2

(* An error of finalize_slate: no context is used up, and what was stored was
   logged as sent. *)
LEMMA FinalizeFailsReplyInv ==
  ASSUME IInv, ReplyInv, NEW w \in Workers, FinalizeFails(w)
  PROVE  ReplyInv'
<1> PICK s : s = cur[w]
  OBVIOUS
<1> USE DEF FinalizeFails
<1>0. s \in Sends /\ s \in Slates /\ pc[w] \in Holding /\ pc[w] \notin SendInHand
  BY SlateKinds DEF ReplyInv, PlaceOK, Suits, Holding, SendInHand
<1>1. /\ stored \subseteq stored'
      /\ \A r \in stored' : r \in stored \/ (r = s /\ txlog[s] = "TxSent")
      /\ pc' = [pc EXCEPT ![w] = "Idle"] /\ cur' = [cur EXCEPT ![w] = NoSlate]
      /\ UNCHANGED <<ctx, txlog, result, dropped, relay, chain>>
  BY DEF Return, Goto, CanFinalize
<1>2. PlaceOK'
  <2>1. Suits("Idle", NoSlate)'
    BY DEF Suits, SendInHand, InvoicePlaces
  <2> QED
    BY <1>0, <1>1, <2>1, MoveKeepsPlaces DEF ReplyInv
<1>3. ResultOK' /\ NoEarlyReply'
  BY <1>1 DEF ReplyInv, ResultOK, NoEarlyReply
<1>4. StoredOK'
  BY <1>1 DEF ReplyInv, StoredOK
<1>5. UnloggedOK'
  BY <1>0, <1>1, InHandStays DEF ReplyInv, UnloggedOK
<1> QED
  BY <1>2, <1>3, <1>4, <1>5 DEF ReplyInv

(* The listener gives an invoice up. *)
LEMMA DropInvoiceReplyInv ==
  ASSUME IInv, ReplyInv, RejectInvoice \/ InvoiceLockFails
  PROVE  ReplyInv'
<1> PICK s : s = cur[Listener]
  OBVIOUS
<1>0. /\ s \in Invoices /\ s \notin Sends
      /\ pc[Listener] \in Holding /\ pc[Listener] \notin SendInHand /\ Listener \in Workers
  BY SlateKinds, WorkerNotNobody DEF RejectInvoice, InvoiceLockFails, ReplyInv, PlaceOK,
     Suits, Holding, SendInHand, InvoicePlaces
<1>1. /\ dropped' = dropped \cup {s}
      /\ UNCHANGED <<ctx, stored, txlog, result, relay, chain>>
      /\ pc' = [pc EXCEPT ![Listener] = "Idle"] /\ cur' = [cur EXCEPT ![Listener] = NoSlate]
  BY DEF RejectInvoice, InvoiceLockFails, Return, Goto, dbVars
<1>2. PlaceOK'
  <2>1. Suits("Idle", NoSlate)'
    BY DEF Suits, SendInHand, InvoicePlaces
  <2> QED
    BY <1>0, <1>1, <2>1, MoveKeepsPlaces DEF ReplyInv
<1>3. ResultOK' /\ StoredOK'
  BY <1>1 DEF ReplyInv, ResultOK, StoredOK
<1>4. NoEarlyReply'
  BY <1>0, <1>1 DEF ReplyInv, NoEarlyReply
<1>5. UnloggedOK'
  BY <1>0, <1>1, InHandStays DEF ReplyInv, UnloggedOK
<1> QED
  BY <1>2, <1>3, <1>4, <1>5 DEF ReplyInv

(* What reaches the node is stored, or was an invoice's, or was there. *)
LEMMA ChainStoredOK ==
  ASSUME StoredOK, UNCHANGED <<ctx, stored, txlog>>,
         \A r \in Sends : chain'[r] # "None" => chain[r] # "None" \/ r \in stored,
         \A r \in Sends : relay'[r] # {} => relay[r] # {}
  PROVE  StoredOK'
BY DEF StoredOK

(* post_tx of a stored transaction. *)
LEMMA PostTxReplyInv ==
  ASSUME IInv, ReplyInv, NEW w \in Workers, PostTx(w)
  PROVE  ReplyInv'
<1> PICK s : s = cur[w]
  OBVIOUS
<1>0. /\ s \in stored /\ pc[w] \in Holding /\ pc[w] \notin SendInHand
      /\ pc' = [pc EXCEPT ![w] = "Idle"] /\ cur' = [cur EXCEPT ![w] = NoSlate]
      /\ UNCHANGED <<ctx, stored, txlog, result, dropped, relay>>
  BY DEF PostTx, Return, Goto, dbVars, ReplyInv, PlaceOK, Suits, Holding, SendInHand
<1>1. PlaceOK'
  <2>1. Suits("Idle", NoSlate)'
    BY DEF Suits, SendInHand, InvoicePlaces
  <2> QED
    BY <1>0, <2>1, MoveKeepsPlaces DEF ReplyInv
<1>2. ResultOK' /\ NoEarlyReply'
  BY <1>0 DEF ReplyInv, ResultOK, NoEarlyReply
<1>3. StoredOK'
  <2>1. \A r \in Sends : chain'[r] # "None" => chain[r] # "None" \/ r \in stored
    BY <1>0, SlateKinds DEF PostTx, ToPool, IInv, TypeOK
  <2> QED
    BY <1>0, <2>1, ChainStoredOK DEF ReplyInv
<1>4. UnloggedOK'
  BY <1>0, InHandStays DEF ReplyInv, UnloggedOK
<1> QED
  BY <1>1, <1>2, <1>3, <1>4 DEF ReplyInv

(* Commands begin: nothing is in their hands yet, a reply has a context, and
   what is submitted is stored. *)
LEMMA BeginReplyInv ==
  ASSUME IInv, ReplyInv, NEW t \in Threads, BeginCommand(t)
  PROVE  ReplyInv'
<1> USE WorkerNotNobody DEF SendInHand, InvoicePlaces
<1>0. \A r \in Sends : relay[r] # {} => ctx[r] # "None"
  BY SlateKinds DEF ReplyInv, StoredOK
<1>1. ASSUME NEW place, NEW s, Acquire(t, place, s), Suits(place, s), pc[t] = "Idle",
             UNCHANGED <<dbVars, result, dropped, relay, peer, chain>>
      PROVE  ReplyInv'
  BY <1>0, <1>1, MoveReplyInv DEF Acquire, Goto
<1>2. CASE BeginSend(t)
  <2>1. Suits("Send", NoSlate)
    BY DEF Suits
  <2> QED
    BY <1>1, <1>2, <2>1 DEF BeginSend
<1>3. ASSUME NEW s \in Slates, BeginFinalize(t, s) PROVE ReplyInv'
  <2>1. Suits("Finalize", s)
    BY <1>0, <1>3 DEF Suits, BeginFinalize
  <2> QED
    BY <1>1, <1>3, <2>1 DEF BeginFinalize
<1>4. ASSUME NEW s \in Slates, BeginSubmit(t, s) PROVE ReplyInv'
  <2>1. Suits("PostTx", s)
    BY <1>4 DEF Suits, BeginSubmit
  <2> QED
    BY <1>1, <1>4, <2>1 DEF BeginSubmit
<1>5. ASSUME NEW s \in Slates, BeginCancel(t, s) PROVE ReplyInv'
  <2>1. Suits("Cancel", s)
    BY DEF Suits
  <2> QED
    BY <1>1, <1>5, <2>1 DEF BeginCancel
<1> QED
  BY <1>2, <1>3, <1>4, <1>5 DEF BeginCommand

(* Steps of a command that has begun. *)
LEMMA CommandReplyInv ==
  ASSUME IInv, ReplyInv, NEW t \in Threads, CommandStep(t)
  PROVE  ReplyInv'
<1> USE WorkerNotNobody
<1>0. \A r \in Sends : relay[r] # {} => ctx[r] # "None"
  BY SlateKinds DEF ReplyInv, StoredOK
<1>a. Suits("Idle", NoSlate)
  BY DEF Suits, SendInHand, InvoicePlaces
<1>b. ASSUME pc[t] = "Post"
      PROVE  /\ cur[t] \in Sends /\ ctx[cur[t]] # "None" /\ result[cur[t]] = "None"
             /\ \A r \in Sends : Put(cur[t], "Slate")[r] # {} => ctx[r] # "None"
  <2>1. cur[t] \in Sends /\ ctx[cur[t]] # "None" /\ result[cur[t]] = "None"
    BY <1>b DEF ReplyInv, PlaceOK, Suits, SendInHand, IInv, InHandFree, InHand
  <2>2. \A r \in Sends : r # cur[t] => Put(cur[t], "Slate")[r] = relay[r]
    BY SlateKinds DEF Put, IInv, TypeOK
  <2> QED
    BY <1>0, <2>1, <2>2
<1>1. CASE Refresh(t)
  BY <1>1, RefreshReplyInv
<1>2. CASE InitiateSendTx(t)
  <2>1. PICK s \in Sends, I \in SUBSET Outputs : ctx[s] = "None" /\ SelectInputs(t, s, I, "Post")
    BY <1>2 DEF InitiateSendTx
  <2>2. s \in Slates /\ s \notin Invoices /\ txlog[s] = "None"
    BY <2>1, SlateKinds DEF IInv, LoggedAfterSaved
  <2>3. /\ "Post" \in InHand /\ "Post" \in SendInHand
        /\ pc[t] \in Holding /\ pc[t] \notin SendInHand
    BY <1>2 DEF InitiateSendTx, InHand, SendInHand, Holding
  <2>4. UNCHANGED <<status, txlog, result, dropped, relay, peer, chain>>
    BY <1>2 DEF InitiateSendTx
  <2> QED
    BY <2>1, <2>2, <2>3, <2>4, SelectReplyInv
<1>3. CASE InitiateSendTxFails(t) \/ CancelFails(t)
  BY <1>0, <1>3, <1>a, MoveReplyInv
     DEF InitiateSendTxFails, CancelFails, Return, Goto, SendInHand
<1>4. CASE PostSlate(t) \/ PostHttps(t)
  <2> PICK s : s = cur[t]
    OBVIOUS
  <2>1. PICK place \in {"Lock", "HttpsLock"} : Continue(t, place)
    BY <1>4 DEF PostSlate, PostHttps
  <2>2. pc' = [pc EXCEPT ![t] = place] /\ cur' = [cur EXCEPT ![t] = s]
    BY <2>1 DEF Continue, Goto, IInv, TypeOK
  <2>3. /\ pc[t] = "Post"
        /\ UNCHANGED <<dbVars, result, dropped, chain>>
        /\ relay' \in {relay, Put(s, "Slate")}
    BY <1>4 DEF PostSlate, PostHttps
  <2>4. Suits(place, s) /\ place \in SendInHand
    BY <1>b, <2>1, <2>3 DEF Suits, SendInHand, InvoicePlaces
  <2> QED
    BY <1>0, <1>b, <2>2, <2>3, <2>4, MoveReplyInv
<1>5. CASE PostSlateFails(t) \/ PostHttpsFails(t)
  <2>1. /\ pc[t] = "Post" /\ Return(t)
        /\ result' = [result EXCEPT ![cur[t]] = "Unsent"]
        /\ UNCHANGED <<dbVars, dropped, chain>>
        /\ relay' \in {relay, Put(cur[t], "Slate")}
    BY <1>5 DEF PostSlateFails, PostHttpsFails
  <2>2. pc[t] \in SendInHand
    BY <2>1 DEF SendInHand
  <2> QED
    BY <1>0, <1>b, <2>1, <2>2, SendFailsReplyInv
<1>6. CASE TxLockOutputs(t)
  BY <1>6, TxLockOutputsReplyInv
<1>7. CASE TxLockOutputsFails(t)
  BY <1>0, <1>7, SendFailsReplyInv DEF TxLockOutputsFails, SendInHand
<1>8. CASE FinalizeSlate(t) \/ FinalizeFails(t)
  BY <1>8, FinalizeReplyInv, FinalizeFailsReplyInv
<1>9. CASE PostTx(t)
  BY <1>9, PostTxReplyInv
<1>10. CASE CancelTx(t)
  BY <1>10, CancelTxReplyInv
<1> QED
  BY <1>1, <1>2, <1>3, <1>4, <1>5, <1>6, <1>7, <1>8, <1>9, <1>10 DEF CommandStep

(* Steps of the listener thread. *)
LEMMA ListenerReplyInv ==
  ASSUME IInv, ReplyInv,
         \/ ListenerStep \/ ListenerLock
         \/ \E s \in Slates : OnReply(s) \/ OnInvoice(s)
  PROVE  ReplyInv'
<1> USE WorkerNotNobody
<1>0. \A r \in Sends : relay[r] # {} => ctx[r] # "None"
  BY SlateKinds DEF ReplyInv, StoredOK
<1>1. CASE FinalizeSlate(Listener) \/ FinalizeFails(Listener) \/ PostTx(Listener)
  BY <1>1, FinalizeReplyInv, FinalizeFailsReplyInv, PostTxReplyInv
<1>2. CASE RejectInvoice \/ InvoiceLockFails
  BY <1>2, DropInvoiceReplyInv
<1>3. CASE RefreshForInvoice
  BY <1>3, RefreshReplyInv DEF RefreshForInvoice
<1>4. CASE InvoiceTx
  <2> PICK s : s = cur[Listener]
    OBVIOUS
  <2>1. PICK I \in SUBSET Outputs : SelectInputs(Listener, s, I, "InvoiceLock")
    BY <1>4 DEF InvoiceTx
  <2>2. s \in Slates /\ s \notin Sends /\ txlog[s] = "None"
    BY <1>4, SlateKinds DEF InvoiceTx, ReplyInv, PlaceOK, Suits, InvoicePlaces
  <2>3. /\ "InvoiceLock" \in InHand
        /\ pc[Listener] \in Holding /\ pc[Listener] \notin SendInHand
    BY <1>4 DEF InvoiceTx, InHand, SendInHand, Holding
  <2>4. UNCHANGED <<status, txlog, result, dropped, relay, peer, chain>>
    BY <1>4 DEF InvoiceTx
  <2> QED
    BY <2>1, <2>2, <2>3, <2>4, SelectReplyInv
<1>5. CASE InvoiceLock
  BY <1>5, InvoiceLockReplyInv
<1>6. CASE ReplyToInvoice
  <2>1. PICK place \in {"Idle", "Dead"} : pc' = [pc EXCEPT ![Listener] = place]
    BY <1>6 DEF ReplyToInvoice, Goto
  <2>2. /\ cur[Listener] \in Invoices /\ pc[Listener] \notin SendInHand
        /\ cur' = [cur EXCEPT ![Listener] = NoSlate]
        /\ relay' \in {relay, Put(cur[Listener], "Reply")}
        /\ UNCHANGED <<dbVars, result, dropped, chain>>
    BY <1>6 DEF ReplyToInvoice, ReplyInv, PlaceOK, Suits, InvoicePlaces, SendInHand
  <2>3. \A r \in Sends : relay'[r] # {} => ctx[r] # "None"
    BY <1>0, <2>2, SlateKinds DEF Put, IInv, TypeOK
  <2>4. Suits(place, NoSlate)
    BY <2>1 DEF Suits, SendInHand, InvoicePlaces
  <2> QED
    BY <2>1, <2>2, <2>3, <2>4, MoveReplyInv
<1>7. CASE ListenerLock
  <2> PICK s : s = cur[Listener]
    OBVIOUS
  <2>1. PICK place \in {"Finalize", "Invoice"} :
           /\ Acquire(Listener, place, s)
           /\ pc[Listener] = IF place = "Finalize" THEN "GotReply" ELSE "GotInvoice"
    BY <1>7 DEF ListenerLock, Waiting
  <2>2. Suits(place, s) /\ pc[Listener] \notin SendInHand
    BY <2>1 DEF ReplyInv, PlaceOK, Suits, SendInHand, InvoicePlaces
  <2>3. UNCHANGED <<dbVars, result, dropped, relay, chain>>
    BY <1>7 DEF ListenerLock
  <2> QED
    BY <1>0, <2>1, <2>2, <2>3, MoveReplyInv DEF Acquire, Goto
<1>8. ASSUME NEW s \in Slates, OnReply(s) \/ OnInvoice(s) PROVE ReplyInv'
  <2>1. PICK place \in {"GotReply", "GotInvoice"} :
           /\ pc' = [pc EXCEPT ![Listener] = place]
           /\ place = "GotReply" => s \in Sends /\ relay[s] # {}
           /\ place = "GotInvoice" => s \in Invoices
    BY <1>8 DEF OnReply, OnInvoice, Goto
  <2>2. /\ pc[Listener] \notin SendInHand
        /\ cur' = [cur EXCEPT ![Listener] = s]
        /\ UNCHANGED <<dbVars, result, dropped, chain>>
        /\ relay' \in Take(s, "Reply") \cup Take(s, "Slate")
    BY <1>8 DEF OnReply, OnInvoice, SendInHand
  <2>3. \A r \in Sends : relay'[r] # {} => ctx[r] # "None"
    BY <1>0, <2>2, SlateKinds DEF Take, IInv, TypeOK
  <2>4. Suits(place, s)
    BY <1>0, <2>1 DEF Suits, SendInHand, InvoicePlaces
  <2> QED
    BY <2>1, <2>2, <2>3, <2>4, MoveReplyInv
<1> QED
  BY <1>1, <1>2, <1>3, <1>4, <1>5, <1>6, <1>7, <1>8 DEF ListenerStep

(* Peer, relay, node and crash. *)
LEMMA EnvironmentReplyInv ==
  ASSUME IInv, ReplyInv, Environment
  PROVE  ReplyInv'
<1> USE WorkerNotNobody
<1>1. CASE Updater
  BY <1>1, UpdaterReplyInv
<1>2. CASE Restart
  <2> USE <1>2 DEF Restart, dbVars
  <2>1. PlaceOK'
    <3> SUFFICES ASSUME NEW v \in Workers PROVE Suits(pc[v], cur[v])'
      BY DEF PlaceOK
    <3>1. pc'[v] = "Idle"
      OBVIOUS
    <3> QED
      BY <3>1 DEF Suits, SendInHand, InvoicePlaces
  <2>2. \A s \in Slates :
           \/ result'[s] = result[s]
           \/ /\ result'[s] = "Unsent" /\ s \in Sends
              /\ ctx[s] # "None" /\ txlog[s] = "None"
    BY DEF ReplyInv, PlaceOK, Suits, SendInHand, IInv, InHandFree, InHand
  <2>3. ResultOK'
    BY <2>2 DEF ReplyInv, ResultOK
  <2>4. StoredOK'
    BY DEF ReplyInv, StoredOK
  <2>5. NoEarlyReply'
    BY <2>2, SlateKinds DEF ReplyInv, NoEarlyReply
  <2>6. UnloggedOK'
    <3> SUFFICES ASSUME NEW r \in Sends, ctx[r] = "Saved", txlog[r] = "None"
                 PROVE  result'[r] = "Unsent"
      BY DEF UnloggedOK
    <3>1. CASE result[r] = "Unsent"
      BY <2>2, <3>1, SlateKinds
    <3>2. CASE \E t \in Threads : pc[t] \in SendInHand /\ cur[t] = r
      BY <3>2, SlateKinds DEF SendInHand
    <3> QED
      BY <3>1, <3>2 DEF ReplyInv, UnloggedOK
  <2> QED
    BY <2>1, <2>3, <2>4, <2>5, <2>6 DEF ReplyInv
<1>3. ASSUME NEW s \in Slates, PeerReceive(s) \/ PeerIssueInvoice(s) \/ RelayLoses(s)
      PROVE  ReplyInv'
  <2>1. \A r \in Sends : relay'[r] # {} => relay[r] # {}
    <3>1. CASE PeerReceive(s)
      BY <3>1, SlateKinds DEF PeerReceive, Take, IInv, TypeOK
    <3>2. CASE PeerIssueInvoice(s)
      BY <3>2, SlateKinds DEF PeerIssueInvoice, Put, IInv, TypeOK
    <3>3. CASE RelayLoses(s)
      BY <3>3, SlateKinds DEF RelayLoses, IInv, TypeOK
    <3> QED
      BY <1>3, <3>1, <3>2, <3>3
  <2>2. UNCHANGED <<threadVars, dbVars, result, dropped, chain>>
    BY <1>3 DEF PeerReceive, PeerIssueInvoice, RelayLoses
  <2>3. \A r \in Sends : relay'[r] # {} => ctx[r] # "None"
    BY <2>1, SlateKinds DEF ReplyInv, StoredOK
  <2>4. PICK place, c : place = pc[Listener] /\ c = cur[Listener]
    OBVIOUS
  <2>5. /\ pc' = [pc EXCEPT ![Listener] = place] /\ cur' = [cur EXCEPT ![Listener] = c]
        /\ Suits(place, c)
    BY <2>2, <2>4 DEF threadVars, IInv, TypeOK, ReplyInv, PlaceOK
  <2> QED
    BY <2>2, <2>3, <2>4, <2>5, MoveReplyInv
<1>4. ASSUME NEW s \in Slates, PeerPostInvoice(s) \/ Mine(s) PROVE ReplyInv'
  <2>1. UNCHANGED <<threadVars, dbVars, result, dropped>>
    BY <1>4 DEF PeerPostInvoice, Mine
  <2>2. \A r \in Sends : chain'[r] # "None" => chain[r] # "None" \/ r \in stored
    BY <1>4, SlateKinds DEF PeerPostInvoice, ToPool, Mine, IInv, TypeOK
  <2>3. \A r \in Sends : relay'[r] # {} => relay[r] # {}
    BY <1>4, SlateKinds DEF PeerPostInvoice, Mine, Take, IInv, TypeOK
  <2>4. StoredOK'
    BY <2>1, <2>2, <2>3, ChainStoredOK DEF dbVars, ReplyInv
  <2>5. PlaceOK' /\ ResultOK' /\ NoEarlyReply' /\ UnloggedOK'
    BY <2>1 DEF threadVars, dbVars, ReplyInv, PlaceOK, Suits, ResultOK, NoEarlyReply, UnloggedOK
  <2> QED
    BY <2>4, <2>5 DEF ReplyInv
<1> QED
  BY <1>1, <1>2, <1>3, <1>4 DEF Environment

(* Every step keeps what is known of replies, results and the node. *)
LEMMA StepReplyInv == IInv /\ ReplyInv /\ [Next]_vars => ReplyInv'
<1> SUFFICES ASSUME IInv, ReplyInv, [Next]_vars PROVE ReplyInv'
  OBVIOUS
<1>1. CASE UNCHANGED vars
  BY <1>1 DEF vars, threadVars, dbVars, ReplyInv, PlaceOK, Suits, ResultOK, StoredOK,
     UnloggedOK, NoEarlyReply
<1> QED
  BY <1>1, BeginReplyInv, CommandReplyInv, ListenerReplyInv, EnvironmentReplyInv DEF Next

(* The inductive invariant behind the theorems below. *)
THEOREM RepliesInvariant == Spec => []ReplyInv
BY InitReplyInv, StepReplyInv, InductiveInvariant, PTL DEF Spec

(* No reply overtakes tx_lock_outputs of its own send: `send` owns the wallet's
   mutex from init_send_tx to the lock (main.rs:1746-1831), so a reply that
   finalize_tx turns away for want of a context or a TxSent entry belongs to a
   send that failed, was cancelled or is finalized, even where earlier replies
   to the same send met a locked wallet, bad messages or a database error. *)
THEOREM RepliesComeAfterLock == Spec => []NoEarlyReply
<1>1. ReplyInv => NoEarlyReply
  BY DEF ReplyInv
<1> QED
  BY <1>1, RepliesInvariant, PTL

(* A send reported as failed never reaches the node, even when the relay has
   delivered its slate and the peer's reply comes in: finalize_tx asks for the
   log entry that tx_lock_outputs would have made. *)
THEOREM FailedSendsStayOffChain == Spec => []UnsentNeverPosted
<1>1. ReplyInv /\ IInv => UnsentNeverPosted
  <2> SUFFICES ASSUME ReplyInv, IInv, NEW s \in Slates, result[s] = "Unsent"
               PROVE  chain[s] = "None"
    BY DEF UnsentNeverPosted
  <2>1. s \in Sends /\ txlog[s] = "None"
    BY DEF ReplyInv, ResultOK
  <2> QED
    BY <2>1 DEF ReplyInv, StoredOK
<1> QED
  BY <1>1, RepliesInvariant, InductiveInvariant, PTL

(* What a live transaction spends stays reserved in the database, by IInv, of
   which it is a part: the outputs of a transaction are freed only by its own
   cancellation, and then no other live one has them. *)
THEOREM LiveStaysReserved == Spec => []LiveReserved
<1>1. IInv => LiveReserved
  BY DEF IInv
<1> QED
  BY <1>1, InductiveInvariant, PTL
=============================================================================
