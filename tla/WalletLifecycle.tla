-------------------------- MODULE WalletLifecycle --------------------------
(***************************************************************************)
(* The Wallet object: locking and unlocking it, its accounts, its updater  *)
(* thread, and the two levels of mutexes around it.                        *)
(*                                                                         *)
(* Every command and handler takes the outer Arc<Mutex<Wallet>> first.     *)
(* The backend, made anew by every unlock, has a mutex of its own, which   *)
(* wallet_lock! takes section by section; the wallet-updater thread takes  *)
(* only that one.  A slate received while set-recv is in force is handled  *)
(* between two unlocks: to the receiving account and back.                 *)
(***************************************************************************)
EXTENDS Naturals, Sequences

CONSTANTS
    Threads,         \* command threads: the REPL and the owner API workers
    Listener,        \* the listener thread, running Controller::on_slate
    Nobody,          \* a mutex is free
    Accounts,        \* account labels
    DefaultAccount,
    NoAccount,
    Backends,        \* backends, each with its mutex and its updater thread
    NoBackend,
    Updating,        \* TRUE: wallet_updater_frequency_sec is set
    SpawnFails,      \* TRUE: the updater thread may fail to start
    RefreshesTxs     \* TRUE: `repost` and retrieve_txs of the owner API are used

Workers == Threads \cup {Listener}

ASSUME WorkersAssumption == Listener \notin Threads /\ Nobody \notin Workers \cup Backends
ASSUME BackendsAssumption == NoBackend \notin Backends /\ Workers \cap Backends = {}
ASSUME AccountsAssumption == DefaultAccount \in Accounts /\ NoAccount \notin Accounts
ASSUME FlagsAssumption ==
    /\ Updating \in BOOLEAN
    /\ SpawnFails \in BOOLEAN
    /\ RefreshesTxs \in BOOLEAN

VARIABLES
    outer,     \* the holder of Arc<Mutex<Wallet>>
    backend,   \* Wallet::backend
    account,   \* Wallet::active_account
    parent,    \* parent[b]: the account backend b was opened with
    inner,     \* inner[b]: the holder of the mutex of b; b is its updater
    running,   \* Wallet::updater_running, one flag for all updaters
    handler,   \* Wallet::updater_handler: the backend of the updater
    up,        \* up[b]: where the updater thread of b is
    recv,      \* RECV_ACCOUNT
    recvGood,  \* RECV_PASS is the wallet's passphrase
    pc,        \* pc[w]: where thread w is
    op,        \* op[w]: what it is doing
    want,      \* want[w]: the account it opens
    good,      \* good[w]: it has the right passphrase for that
    old,       \* old[w]: old_account
    wasOpen,   \* wasOpen[w]: the wallet was unlocked then
    dest,      \* dest[w]: dest_acct_name, the account a slate is booked to
    switched,  \* another thread opened an account since the listener read dest
    todo       \* todo[w]: its sections under the backend's mutex, to come

walletVars  == <<backend, account, parent, switched>>
updaterVars == <<running, handler, up>>
recvVars    == <<recv, recvGood>>
openVars    == <<want, good>>
oldVars     == <<old, wasOpen, dest>>
localVars   == <<op, openVars, oldVars, todo>>
vars == <<outer, walletVars, inner, updaterVars, recvVars, pc, localVars>>

Ops == {"None", "Lock", "Unlock", "Query", "SwapIn", "SwapBack", "Slate"}
Places == {"Idle", "Begin", "Join", "Close", "Open", "Inner", "Process", "After"}

TypeOK ==
    /\ outer \in Workers \cup {Nobody}
    /\ backend \in Backends \cup {NoBackend}
    /\ account \in Accounts
    /\ parent \in [Backends -> Accounts]
    /\ inner \in [Backends -> Workers \cup Backends \cup {Nobody}]
    /\ running \in BOOLEAN
    /\ handler \in Backends \cup {NoBackend}
    /\ up \in [Backends -> {"None", "Check", "Lock", "Update", "Ended"}]
    /\ recv \in Accounts \cup {NoAccount}
    /\ recvGood \in BOOLEAN
    /\ pc \in [Workers -> Places]
    /\ op \in [Workers -> Ops]
    /\ want \in [Workers -> Accounts]
    /\ good \in [Workers -> BOOLEAN]
    /\ old \in [Workers -> Accounts]
    /\ wasOpen \in [Workers -> BOOLEAN]
    /\ dest \in [Workers -> Accounts \cup {NoAccount}]
    /\ switched \in BOOLEAN
    /\ todo \in [Workers -> Seq({"lock", "unlock"})]

Init ==
    /\ outer = Nobody
    /\ backend = NoBackend
    /\ account = DefaultAccount
    /\ parent = [b \in Backends |-> DefaultAccount]
    /\ inner = [b \in Backends |-> Nobody]
    /\ running = FALSE
    /\ handler = NoBackend
    /\ up = [b \in Backends |-> "None"]
    /\ recv = NoAccount
    /\ recvGood = FALSE
    /\ pc = [w \in Workers |-> "Idle"]
    /\ op = [w \in Workers |-> "None"]
    /\ want = [w \in Workers |-> DefaultAccount]
    /\ good = [w \in Workers |-> FALSE]
    /\ old = [w \in Workers |-> DefaultAccount]
    /\ wasOpen = [w \in Workers |-> FALSE]
    /\ dest = [w \in Workers |-> NoAccount]
    /\ switched = FALSE
    /\ todo = [w \in Workers |-> <<>>]

-----------------------------------------------------------------------------
(* Sections under the backend's mutex. *)

(* wallet_lock! to the end of its block. *)
Section == <<"lock", "unlock">>

(* update_wallet_state locks the backend for each of its database accesses. *)
Sync == Section

RetrieveSummaryInfo(refresh) == IF refresh THEN Sync \o Section ELSE Section

RetrieveOutputs(refresh) == IF refresh THEN Sync \o Section ELSE Section

RetrieveTxsWithProofFlag(refresh) == IF refresh THEN Sync \o Section ELSE Section

(* retrieve_txs calls sync inside its own wallet_lock!. *)
RetrieveTxs(refresh) ==
    IF refresh THEN <<"lock">> \o Sync \o <<"unlock">> ELSE Section

(* Without the node the height is that of the newest output. *)
NodeHeight(online) == IF online THEN Section ELSE Section \o RetrieveOutputs(FALSE)

GetId(online) == NodeHeight(online) \o Section

RenameAccountPath == Section \o Section

(* The height: the node's, or the last confirmed one. *)
Height(refresh, online) == IF refresh THEN NodeHeight(online) ELSE Section

Outputs(refresh, online) == Height(refresh, online) \o RetrieveOutputs(refresh)

(* The height, the transactions, the data directory, and the outputs of the
   transaction that was asked for. *)
Txs(refresh, online) ==
    Height(refresh, online) \o RetrieveTxsWithProofFlag(refresh)
        \o Section \o RetrieveOutputs(FALSE)

GetStoredTx == Section

GetClient == Section

Repost == RetrieveTxs(TRUE) \o GetStoredTx \o GetClient

(* The transaction named in the request, and its outputs. *)
HandleRetrieveOutputs(refresh) == RetrieveTxs(FALSE) \o RetrieveOutputs(refresh)

(* What can be asked, with or without a refresh, with the node online or not. *)
Queries(refresh, online) ==
    {Sync, RenameAccountPath, RetrieveSummaryInfo(refresh), GetId(online),
     Outputs(refresh, online), Txs(refresh, online), HandleRetrieveOutputs(refresh)}
    \cup (IF RefreshesTxs THEN {RetrieveTxs(refresh), Repost} ELSE {})

-----------------------------------------------------------------------------
(* Commands: taking the outer mutex and giving it back. *)

Goto(w, place) == pc' = [pc EXCEPT ![w] = place]

(* wallet.lock(), for operation o, going on at a place. *)
Acquire(w, o, place) ==
    /\ pc[w] = "Idle"
    /\ outer = Nobody
    /\ outer' = w
    /\ op' = [op EXCEPT ![w] = o]
    /\ Goto(w, place)

(* The command ends, with or without an error. *)
Return(w) ==
    /\ outer' = Nobody
    /\ op' = [op EXCEPT ![w] = "None"]
    /\ want' = [want EXCEPT ![w] = DefaultAccount]
    /\ good' = [good EXCEPT ![w] = FALSE]
    /\ old' = [old EXCEPT ![w] = DefaultAccount]
    /\ wasOpen' = [wasOpen EXCEPT ![w] = FALSE]
    /\ dest' = [dest EXCEPT ![w] = NoAccount]
    /\ switched' = (switched /\ w # Listener)
    /\ Goto(w, "Idle")

(* The arguments of Wallet::unlock. *)
UnlockFor(w, a, g) ==
    /\ want' = [want EXCEPT ![w] = a]
    /\ good' = [good EXCEPT ![w] = g]

(* process_incoming_slate and `receive` remember the active account. *)
Remember(w) ==
    /\ old' = [old EXCEPT ![w] = account]
    /\ wasOpen' = [wasOpen EXCEPT ![w] = (backend # NoBackend)]

(* `lock` *)
BeginLock(t) ==
    /\ Acquire(t, "Lock", "Begin")
    /\ UNCHANGED <<walletVars, inner, updaterVars, recvVars, openVars, oldVars, todo>>

(* `unlock`, of a locked wallet only, and `account switch`. *)
BeginUnlock(t) ==
    /\ Acquire(t, "Unlock", "Begin")
    /\ \E a \in Accounts, g \in BOOLEAN : UnlockFor(t, a, g)
    /\ UNCHANGED <<walletVars, inner, updaterVars, recvVars, oldVars, todo>>

(* A command that asks the backend: `sync`, `info`, `outputs`, `txs`, `account
   rename`, `repost`, the retrievals of the owner API.  get_wallet_instance fails without a backend. *)
BeginQuery(t) ==
    /\ backend # NoBackend
    /\ Acquire(t, "Query", "Inner")
    /\ \E refresh, online \in BOOLEAN :
          \E q \in Queries(refresh, online) : todo' = [todo EXCEPT ![t] = q]
    /\ UNCHANGED <<walletVars, inner, updaterVars, recvVars, openVars, oldVars>>

(* `set-recv` asks for the account under the mutex and writes the two static
   variables without it, at any moment of another thread's handler. *)
SetRecv(t) ==
    /\ pc[t] = "Idle"
    /\ backend # NoBackend
    /\ recv' \in Accounts
    /\ recvGood' \in BOOLEAN
    /\ UNCHANGED <<outer, walletVars, inner, updaterVars, pc, localVars>>

(* on_slate reads the active account in a critical section of its own. *)
ReadAccount ==
    /\ pc[Listener] = "Idle" /\ outer = Nobody
    /\ dest[Listener] = NoAccount
    /\ dest' = [dest EXCEPT ![Listener] = account]
    /\ UNCHANGED <<outer, walletVars, inner, updaterVars, recvVars, pc, op,
                   openVars, old, wasOpen, todo>>

(* The account process_incoming_slate was given, or `receive` reads. *)
GivenAccount(w) == IF w = Listener THEN dest[w] ELSE account

(* Mutant: the slate is still booked to the account before the swap. *)
BeginSlateKeepsDest(w) ==
    /\ w = Listener => dest[w] # NoAccount
    /\ Remember(w)
    /\ dest' = [dest EXCEPT ![w] = GivenAccount(w)]
    /\ IF recv # NoAccount
       THEN /\ Acquire(w, "SwapIn", "Begin")
            /\ UnlockFor(w, recv, recvGood)
       ELSE /\ Acquire(w, "Slate", "Process")
            /\ UNCHANGED openVars
    /\ UNCHANGED <<walletVars, inner, updaterVars, recvVars, todo>>

(* process_incoming_slate of the listener, and `receive` of a slate file: the
   active account is remembered, and swapped when set-recv is in force; the
   slate is then booked to the receiving account. *)
BeginSlate(w) ==
    /\ w = Listener => dest[w] # NoAccount
    /\ Remember(w)
    /\ IF recv # NoAccount
       THEN /\ Acquire(w, "SwapIn", "Begin")
            /\ UnlockFor(w, recv, recvGood)
            /\ dest' = [dest EXCEPT ![w] = recv]
       ELSE /\ Acquire(w, "Slate", "Process")
            /\ dest' = [dest EXCEPT ![w] = GivenAccount(w)]
            /\ UNCHANGED openVars
    /\ UNCHANGED <<walletVars, inner, updaterVars, recvVars, todo>>

-----------------------------------------------------------------------------
(* Wallet::lock, which Wallet::unlock calls first. *)

(* Where lock goes on when the updater is gone. *)
AfterJoin(w) ==
    IF backend # NoBackend THEN "Close" ELSE IF op[w] = "Lock" THEN "After" ELSE "Open"

(* Mutant: the updater is told to stop and not waited for. *)
StopUpdaterOnly(w) ==
    /\ pc[w] = "Begin"
    /\ running' = FALSE
    /\ handler' = NoBackend
    /\ Goto(w, AfterJoin(w))
    /\ UNCHANGED <<outer, walletVars, inner, up, recvVars, localVars>>

(* updater_running is cleared. *)
StopUpdater(w) ==
    /\ pc[w] = "Begin"
    /\ running' = FALSE
    /\ Goto(w, IF handler # NoBackend THEN "Join" ELSE AfterJoin(w))
    /\ UNCHANGED <<outer, walletVars, inner, handler, up, recvVars, localVars>>

(* thr.join() *)
JoinUpdater(w) ==
    /\ pc[w] = "Join"
    /\ up[handler] = "Ended"
    /\ handler' = NoBackend
    /\ Goto(w, AfterJoin(w))
    /\ UNCHANGED <<outer, walletVars, inner, running, up, recvVars, localVars>>

(* close_wallet under the backend's mutex; backend = None. *)
CloseWallet(w) ==
    /\ pc[w] = "Close"
    /\ inner[backend] = Nobody
    /\ backend' = NoBackend
    /\ Goto(w, IF op[w] = "Lock" THEN "After" ELSE "Open")
    /\ UNCHANGED <<outer, account, parent, switched, inner, updaterVars, recvVars, localVars>>

-----------------------------------------------------------------------------
(* The rest of Wallet::unlock. *)

Fresh == {b \in Backends : up[b] \in {"None", "Ended"} /\ b # backend}

(* Where a handler goes on after an unlock that succeeded. *)
AfterOpen(w) == IF op[w] = "SwapIn" THEN "Process" ELSE "After"

(* Mutant: unlock leaves active_account as it was. *)
OpenWalletKeepsLabel(w) ==
    /\ pc[w] = "Open"
    /\ good[w]
    /\ \E b \in Fresh :
          /\ backend' = b
          /\ parent' = [parent EXCEPT ![b] = want[w]]
          /\ running' = TRUE
          /\ handler' = b
          /\ up' = [up EXCEPT ![b] = "Lock"]
    /\ switched' = (w # Listener /\ dest[Listener] # NoAccount)
    /\ Goto(w, AfterOpen(w))
    /\ UNCHANGED <<outer, account, inner, recvVars, localVars>>

(* create_wallet_instance: a new backend for the account, an updater for it,
   and then the new active account. *)
OpenWallet(w) ==
    /\ pc[w] = "Open"
    /\ good[w]
    /\ \E b \in Fresh :
          /\ backend' = b
          /\ parent' = [parent EXCEPT ![b] = want[w]]
          /\ IF Updating
             THEN /\ running' = TRUE
                  /\ handler' = b
                  /\ up' = [up EXCEPT ![b] = "Lock"]
             ELSE UNCHANGED updaterVars
    /\ account' = want[w]
    /\ switched' = (w # Listener /\ dest[Listener] # NoAccount)
    /\ Goto(w, AfterOpen(w))
    /\ UNCHANGED <<outer, inner, recvVars, localVars>>

(* A wrong passphrase: the wallet stays locked and the command fails. *)
OpenFails(w) ==
    /\ pc[w] = "Open"
    /\ ~good[w]
    /\ Goto(w, "After")
    /\ op' = [op EXCEPT ![w] = "Unlock"]
    /\ UNCHANGED <<outer, walletVars, inner, updaterVars, recvVars, openVars, oldVars, todo>>

(* start_updater fails after the backend was set: unlock reports a failure. *)
SpawnUpdaterFails(w) ==
    /\ SpawnFails /\ Updating
    /\ pc[w] = "Open"
    /\ good[w]
    /\ \E b \in Fresh :
          /\ backend' = b
          /\ parent' = [parent EXCEPT ![b] = want[w]]
    /\ running' = TRUE
    /\ Goto(w, "After")
    /\ op' = [op EXCEPT ![w] = "Unlock"]
    /\ UNCHANGED <<outer, account, switched, inner, handler, up, recvVars, openVars, oldVars,
                   todo>>

-----------------------------------------------------------------------------
(* Handling a slate, asking the backend, ending. *)

(* process_sender_initiated_slate books the slate to dest; set-recv is looked at
   again to see whether to swap back. *)
ReceiveSlate(w) ==
    /\ pc[w] = "Process"
    /\ backend # NoBackend
    /\ IF recv # NoAccount
       THEN /\ op' = [op EXCEPT ![w] = "SwapBack"]
            /\ UnlockFor(w, old[w], recvGood)
            /\ Goto(w, "Begin")
       ELSE /\ Goto(w, "After")
            /\ UNCHANGED <<op, openVars>>
    /\ UNCHANGED <<outer, walletVars, inner, updaterVars, recvVars, oldVars, todo>>

(* It fails, for a slate the wallet knows or a locked wallet: the ? leaves the
   handler. *)
ReceiveSlateFails(w) ==
    /\ pc[w] = "Process"
    /\ Goto(w, "After")
    /\ UNCHANGED <<outer, walletVars, inner, updaterVars, recvVars, localVars>>

(* wallet_lock! waits for the backend's mutex. *)
InnerLock(w) ==
    /\ pc[w] = "Inner"
    /\ todo[w] # <<>> /\ Head(todo[w]) = "lock"
    /\ inner[backend] = Nobody
    /\ inner' = [inner EXCEPT ![backend] = w]
    /\ todo' = [todo EXCEPT ![w] = Tail(@)]
    /\ UNCHANGED <<outer, walletVars, updaterVars, recvVars, pc, op, openVars, oldVars>>

InnerUnlock(w) ==
    /\ pc[w] = "Inner"
    /\ todo[w] # <<>> /\ Head(todo[w]) = "unlock"
    /\ inner' = [inner EXCEPT ![backend] = Nobody]
    /\ todo' = [todo EXCEPT ![w] = Tail(@)]
    /\ UNCHANGED <<outer, walletVars, updaterVars, recvVars, pc, op, openVars, oldVars>>

(* The command or handler returns and the outer guard is dropped. *)
Finish(w) ==
    /\ \/ pc[w] = "After"
       \/ pc[w] = "Inner" /\ todo[w] = <<>>
    /\ Return(w)
    /\ UNCHANGED <<backend, account, parent, inner, updaterVars, recvVars, todo>>

-----------------------------------------------------------------------------
(* The wallet-updater thread of backend b: it updates the wallet state and
   sleeps until the next time, looking at updater_running meanwhile. *)

UpdaterLock(b) ==
    /\ up[b] = "Lock"
    /\ inner[b] = Nobody
    /\ inner' = [inner EXCEPT ![b] = b]
    /\ up' = [up EXCEPT ![b] = "Update"]
    /\ UNCHANGED <<outer, walletVars, running, handler, recvVars, pc, localVars>>

UpdaterUpdate(b) ==
    /\ up[b] = "Update"
    /\ inner' = [inner EXCEPT ![b] = Nobody]
    /\ up' = [up EXCEPT ![b] = "Check"]
    /\ UNCHANGED <<outer, walletVars, running, handler, recvVars, pc, localVars>>

(* Mutant: the updater does not look at updater_running. *)
UpdaterCheckIgnores(b) ==
    /\ up[b] = "Check"
    /\ up' = [up EXCEPT ![b] = "Lock"]
    /\ UNCHANGED <<outer, walletVars, inner, running, handler, recvVars, pc, localVars>>

(* Updating again, or ending: told to, or after an error of the node. *)
UpdaterCheck(b) ==
    /\ up[b] = "Check"
    /\ \/ running /\ up' = [up EXCEPT ![b] = "Lock"]
       \/ up' = [up EXCEPT ![b] = "Ended"]
    /\ UNCHANGED <<outer, walletVars, inner, running, handler, recvVars, pc, localVars>>

-----------------------------------------------------------------------------
WalletStep(w) ==
    \/ StopUpdater(w) \/ JoinUpdater(w) \/ CloseWallet(w)
    \/ OpenWallet(w) \/ OpenFails(w) \/ SpawnUpdaterFails(w)
    \/ ReceiveSlate(w) \/ ReceiveSlateFails(w)
    \/ InnerUnlock(w) \/ Finish(w)

UpdaterStep(b) == UpdaterLock(b) \/ UpdaterUpdate(b) \/ UpdaterCheck(b)

Command(t) ==
    BeginLock(t) \/ BeginUnlock(t) \/ BeginQuery(t) \/ SetRecv(t) \/ BeginSlate(t)

Next ==
    \/ \E t \in Threads : Command(t)
    \/ ReadAccount \/ BeginSlate(Listener)
    \/ \E w \in Workers : WalletStep(w) \/ InnerLock(w)
    \/ \E b \in Backends : UpdaterStep(b)

Spec == Init /\ [][Next]_vars

(* Threads run; a thread that waits for the backend's mutex gets it if it
   keeps becoming free.  Only the thread that holds the wallet's mutex takes
   these steps, so it need not be named. *)
Fairness ==
    /\ WF_vars(\E w \in Workers : WalletStep(w))
    /\ SF_vars(\E w \in Workers : InnerLock(w))
    /\ SF_vars(\E w \in Workers : CloseWallet(w))
    /\ \A b \in Backends : WF_vars(UpdaterUpdate(b) \/ UpdaterCheck(b)) /\ SF_vars(UpdaterLock(b))

FairSpec == Spec /\ Fairness

-----------------------------------------------------------------------------
(* The inductive invariant behind OneUpdater. *)

Alive(b) == up[b] \in {"Check", "Lock", "Update"}

(* A thread is inside a command exactly when it holds the outer mutex. *)
OuterOK == \A w \in Workers : pc[w] # "Idle" <=> outer = w

(* The updater the wallet knows belongs to the backend it has open. *)
HandlerOK == handler # NoBackend => handler = backend

(* How far lock and unlock have come. *)
PhaseOK ==
    \A w \in Workers :
        /\ pc[w] = "Join" => handler # NoBackend
        /\ pc[w] \in {"Close", "Inner"} => backend # NoBackend
        /\ pc[w] \in {"Close", "Open"} => handler = NoBackend
        /\ pc[w] = "Open" => backend = NoBackend

-----------------------------------------------------------------------------
(* Properties. *)

(* All updaters read one updater_running flag, which start_updater sets again:
   an updater that lock had not waited for would come back to life beside the
   new one.  There is never more than one, it works on the backend the wallet
   has open, and the wallet knows it. *)
OneUpdater ==
    \A b \in Backends : Alive(b) => backend = b /\ handler = b

(* The strengthening of OneUpdater that every step preserves. *)
LifecycleInv ==
    /\ TypeOK
    /\ OuterOK
    /\ HandlerOK
    /\ PhaseOK
    /\ OneUpdater

(* Between commands the active account is the one the backend was opened
   with: coins are selected from the account the wallet says it uses.  Only a
   backend that has no updater, because its thread could not be started, is
   open under the name of the account before. *)
AccountMatchesBackend ==
    outer = Nobody /\ backend # NoBackend =>
        parent[backend] = account \/ (Updating /\ handler = NoBackend)

(* A slate is booked to the account that is open when it is received, whatever
   set-recv says meanwhile.  Only the listener, which reads the active account
   before it takes the mutex, may book a slate to the account that was active
   before another command opened one; and a backend without its updater is
   open under the account before. *)
BookedToOpenAccount ==
    \A w \in Workers :
        pc[w] = "Process" /\ backend # NoBackend =>
            \/ dest[w] = parent[backend]
            \/ w = Listener /\ op[w] = "Slate" /\ switched
            \/ op[w] = "Slate" /\ Updating /\ handler = NoBackend

(* Whoever takes the wallet's mutex gives it back: waiting for the updater in
   Wallet::lock while holding it blocks nobody for ever. *)
WalletReleased == \A w \in Workers : outer = w ~> outer # w

(* "sets which account is the recipient of an incoming transaction"
   (cli/parser.rs:429), no more: once a slate is handled the active account is
   the one before, and a wallet that was unlocked still is. *)
SlateKeepsAccount ==
    [][\A w \in Workers :
          op[w] \in {"SwapIn", "SwapBack"} /\ op'[w] \notin {"SwapIn", "SwapBack"}
              => account' = old[w] /\ (wasOpen[w] => backend' # NoBackend)]_vars
=============================================================================
