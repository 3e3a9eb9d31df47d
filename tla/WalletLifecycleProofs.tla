----------------------- MODULE WalletLifecycleProofs -----------------------
(* Proofs about WalletLifecycle for any sets of threads, accounts and        *)
(* backends, with and without an updater.                                    *)
EXTENDS WalletLifecycle, SequenceTheorems, TLAPS

(* An update at one point keeps the type of a function. *)
LEMMA ExceptTyped ==
  ASSUME NEW S, NEW T, NEW f \in [S -> T], NEW x \in S, NEW y \in T
  PROVE  [f EXCEPT ![x] = y] \in [S -> T]
OBVIOUS

(* Programs of lock sections can be put one after the other. *)
LEMMA ProgramConcat ==
  ASSUME NEW p \in Seq({"lock", "unlock"}), NEW q \in Seq({"lock", "unlock"})
  PROVE  p \o q \in Seq({"lock", "unlock"})
BY ConcatProperties

(* The programs of lock sections are sequences of lock and unlock. *)
LEMMA QueriesTyped ==
  ASSUME NEW r \in BOOLEAN, NEW o \in BOOLEAN
  PROVE  Queries(r, o) \subseteq Seq({"lock", "unlock"})
<1> DEFINE P == Seq({"lock", "unlock"})
<1>1. Section \in P /\ <<"lock">> \in P /\ <<"unlock">> \in P
  BY DEF Section
<1>2. Sync \in P /\ GetStoredTx \in P /\ GetClient \in P /\ RenameAccountPath \in P
  BY <1>1, ProgramConcat DEF Sync, GetStoredTx, GetClient, RenameAccountPath
<1>3. \A x \in BOOLEAN : /\ RetrieveSummaryInfo(x) \in P
                         /\ RetrieveOutputs(x) \in P
                         /\ RetrieveTxsWithProofFlag(x) \in P
  BY <1>1, <1>2, ProgramConcat
     DEF RetrieveSummaryInfo, RetrieveOutputs, RetrieveTxsWithProofFlag
<1>4. NodeHeight(o) \in P /\ GetId(o) \in P /\ Height(r, o) \in P
  BY <1>1, <1>3, ProgramConcat DEF NodeHeight, GetId, Height
<1>5. Outputs(r, o) \in P /\ Txs(r, o) \in P
  <2>1. Height(r, o) \o RetrieveTxsWithProofFlag(r) \in P
    BY <1>3, <1>4, ProgramConcat
  <2>2. Height(r, o) \o RetrieveTxsWithProofFlag(r) \o Section \in P
    BY <1>1, <2>1, ProgramConcat
  <2>3. QED
    BY <1>3, <1>4, <2>2, ProgramConcat DEF Outputs, Txs
<1>6. RetrieveTxs(r) \in P /\ Repost \in P
  <2>1. <<"lock">> \o Sync \in P
    BY <1>1, <1>2, ProgramConcat
  <2>2. RetrieveTxs(r) \in P /\ RetrieveTxs(TRUE) \in P
    BY <1>1, <2>1, ProgramConcat DEF RetrieveTxs
  <2>3. RetrieveTxs(TRUE) \o GetStoredTx \in P
    BY <1>2, <2>2, ProgramConcat
  <2>4. QED
    BY <1>2, <2>2, <2>3, ProgramConcat DEF Repost
<1>7. HandleRetrieveOutputs(r) \in P
  BY <1>1, <1>3, ProgramConcat DEF HandleRetrieveOutputs, RetrieveTxs
<1>8. QED
  BY <1>2, <1>3, <1>4, <1>5, <1>6, <1>7 DEF Queries

(* Nothing runs at the start. *)
LEMMA InitLifecycleInv == Init => LifecycleInv
<1> SUFFICES ASSUME Init PROVE LifecycleInv
  OBVIOUS
<1>1. <<>> \in Seq({"lock", "unlock"})
  OBVIOUS
<1>2. TypeOK
  BY <1>1, AccountsAssumption DEF Init, TypeOK, Places, Ops
<1>3. OuterOK /\ HandlerOK /\ PhaseOK /\ OneUpdater
  BY WorkersAssumption DEF Init, OuterOK, HandlerOK, PhaseOK, OneUpdater, Alive
<1>4. QED
  BY <1>2, <1>3 DEF LifecycleInv

(* Starting a command takes the outer mutex and starts no updater. *)
LEMMA CommandLifecycleInv ==
  ASSUME NEW w \in Workers, LifecycleInv, Command(w) \/ BeginSlate(w)
  PROVE  LifecycleInv'
<1> USE WorkersAssumption, BackendsAssumption, AccountsAssumption
    DEF LifecycleInv, TypeOK, OuterOK, HandlerOK, PhaseOK, OneUpdater, Alive,
        Places, Ops, Acquire, Goto, walletVars, updaterVars, recvVars, openVars,
        oldVars, localVars
<1>1. CASE BeginLock(w)
  BY <1>1 DEF BeginLock
<1>2. CASE BeginUnlock(w)
  BY <1>2 DEF BeginUnlock, UnlockFor
<1>3. CASE BeginQuery(w)
  BY <1>3, QueriesTyped DEF BeginQuery
<1>4. CASE SetRecv(w)
  BY <1>4 DEF SetRecv
<1>5. CASE BeginSlate(w)
  <2>1. old' \in [Workers -> Accounts] /\ wasOpen' \in [Workers -> BOOLEAN]
    BY <1>5 DEF BeginSlate, Remember
  <2>2. CASE recv # NoAccount
    <3>1. want' \in [Workers -> Accounts] /\ good' \in [Workers -> BOOLEAN]
      <4>1. want' = [want EXCEPT ![w] = recv] /\ good' = [good EXCEPT ![w] = recvGood]
        BY <1>5, <2>2, Zenon DEF BeginSlate, UnlockFor
      <4>2. recv \in Accounts /\ recvGood \in BOOLEAN
        BY <2>2
      <4>3. want \in [Workers -> Accounts] /\ good \in [Workers -> BOOLEAN]
        OBVIOUS
      <4>4. want' \in [Workers -> Accounts]
        BY <4>1, <4>2, <4>3, ExceptTyped, Zenon
      <4>5. good' \in [Workers -> BOOLEAN]
        BY <4>1, <4>2, <4>3, ExceptTyped, Zenon
      <4>6. QED
        BY <4>4, <4>5
    <3>2. /\ pc[w] = "Idle" /\ outer = Nobody /\ outer' = w
          /\ op' = [op EXCEPT ![w] = "SwapIn"]
          /\ pc' = [pc EXCEPT ![w] = "Begin"]
          /\ UNCHANGED <<walletVars, inner, updaterVars, recvVars, todo>>
      BY <1>5, <2>2 DEF BeginSlate
    <3>3. dest' \in [Workers -> Accounts \cup {NoAccount}]
      BY <1>5, <2>2, ZenonT(60) DEF BeginSlate
    <3>4. QED
      BY <2>1, <3>1, <3>2, <3>3
  <2>3. CASE recv = NoAccount
    <3>1. /\ pc[w] = "Idle" /\ outer = Nobody /\ outer' = w
          /\ op' = [op EXCEPT ![w] = "Slate"]
          /\ pc' = [pc EXCEPT ![w] = "Process"]
          /\ UNCHANGED <<walletVars, inner, updaterVars, recvVars, openVars, todo>>
      BY <1>5, <2>3 DEF BeginSlate
    <3>2. dest' \in [Workers -> Accounts \cup {NoAccount}]
      BY <1>5, <2>3, ZenonT(60) DEF BeginSlate, GivenAccount
    <3>3. QED
      BY <2>1, <3>1, <3>2
  <2>4. QED
    BY <2>2, <2>3
<1>6. QED
  BY <1>1, <1>2, <1>3, <1>4, <1>5 DEF Command

(* Reading the active account changes nothing of the wallet. *)
LEMMA ReadLifecycleInv == LifecycleInv /\ ReadAccount => LifecycleInv'
  BY DEF LifecycleInv, TypeOK, OuterOK, HandlerOK, PhaseOK, OneUpdater, Alive, ReadAccount,
         Workers, walletVars, updaterVars, recvVars, openVars

(* Wallet::lock ends the updater before it closes the backend, and
   Wallet::unlock starts the next one after that. *)
LEMMA LockLifecycleInv ==
  ASSUME NEW w \in Workers, LifecycleInv,
         \/ StopUpdater(w) \/ JoinUpdater(w) \/ CloseWallet(w)
         \/ OpenWallet(w) \/ OpenFails(w) \/ SpawnUpdaterFails(w)
  PROVE  LifecycleInv'
<1> USE WorkersAssumption, BackendsAssumption, AccountsAssumption
    DEF LifecycleInv, TypeOK, OuterOK, HandlerOK, PhaseOK, OneUpdater, Alive,
        Places, Ops, Goto, walletVars, updaterVars, recvVars, openVars,
        oldVars, localVars
<1>1. CASE StopUpdater(w)
  BY <1>1 DEF StopUpdater, AfterJoin
<1>2. CASE JoinUpdater(w)
  BY <1>2 DEF JoinUpdater, AfterJoin
<1>3. CASE CloseWallet(w)
  BY <1>3 DEF CloseWallet
<1>4. CASE OpenWallet(w)
  <2>1. PICK b \in Fresh :
          /\ backend' = b
          /\ parent' = [parent EXCEPT ![b] = want[w]]
          /\ IF Updating
             THEN /\ running' = TRUE
                  /\ handler' = b
                  /\ up' = [up EXCEPT ![b] = "Lock"]
             ELSE UNCHANGED updaterVars
    BY <1>4 DEF OpenWallet
  <2>2. \A c \in Backends : ~Alive(c)
    BY <1>4 DEF OpenWallet
  <2>3. want[w] \in Accounts /\ b \in Backends
    BY <2>1 DEF Fresh
  <2>4. /\ pc[w] = "Open"
        /\ account' = want[w]
        /\ pc' = [pc EXCEPT ![w] = AfterOpen(w)]
        /\ AfterOpen(w) \in {"Process", "After"}
        /\ UNCHANGED <<outer, inner, recvVars, localVars>>
    BY <1>4 DEF OpenWallet, AfterOpen
  <2>s. switched' \in BOOLEAN
    BY <1>4, Zenon DEF OpenWallet
  <2>5. CASE Updating
    BY <2>1, <2>2, <2>3, <2>4, <2>s, <2>5, ZenonT(60)
  <2>6. CASE ~Updating
    BY <2>1, <2>2, <2>3, <2>4, <2>s, <2>6
  <2>7. QED
    BY <2>5, <2>6
<1>5. CASE OpenFails(w)
  BY <1>5 DEF OpenFails
<1>6. CASE SpawnUpdaterFails(w)
  BY <1>6 DEF SpawnUpdaterFails, Fresh
<1>7. QED
  BY <1>1, <1>2, <1>3, <1>4, <1>5, <1>6

(* Handling a slate, the lock sections and the end of a command. *)
LEMMA OtherLifecycleInv ==
  ASSUME NEW w \in Workers, LifecycleInv,
         \/ ReceiveSlate(w) \/ ReceiveSlateFails(w)
         \/ InnerLock(w) \/ InnerUnlock(w) \/ Finish(w)
  PROVE  LifecycleInv'
<1> USE WorkersAssumption, BackendsAssumption, AccountsAssumption
    DEF LifecycleInv, TypeOK, OuterOK, HandlerOK, PhaseOK, OneUpdater, Alive,
        Places, Ops, Goto, walletVars, updaterVars, recvVars, openVars,
        oldVars, localVars
<1>1. CASE ReceiveSlate(w)
  <2>1. CASE recv # NoAccount
    <3>1. want' \in [Workers -> Accounts] /\ good' \in [Workers -> BOOLEAN]
      <4>1. want' = [want EXCEPT ![w] = old[w]] /\ good' = [good EXCEPT ![w] = recvGood]
        BY <1>1, <2>1, Zenon DEF ReceiveSlate, UnlockFor
      <4>2. old[w] \in Accounts /\ recvGood \in BOOLEAN
        OBVIOUS
      <4>3. want \in [Workers -> Accounts] /\ good \in [Workers -> BOOLEAN]
        OBVIOUS
      <4>4. want' \in [Workers -> Accounts]
        BY <4>1, <4>2, <4>3, ExceptTyped, Zenon
      <4>5. good' \in [Workers -> BOOLEAN]
        BY <4>1, <4>2, <4>3, ExceptTyped, Zenon
      <4>6. QED
        BY <4>4, <4>5
    <3>2. /\ pc[w] = "Process"
          /\ op' = [op EXCEPT ![w] = "SwapBack"]
          /\ pc' = [pc EXCEPT ![w] = "Begin"]
          /\ UNCHANGED <<outer, walletVars, inner, updaterVars, recvVars, oldVars, todo>>
      BY <1>1, <2>1 DEF ReceiveSlate
    <3>3. QED
      BY <3>1, <3>2
  <2>2. CASE recv = NoAccount
    <3>1. /\ pc[w] = "Process"
          /\ pc' = [pc EXCEPT ![w] = "After"]
          /\ UNCHANGED <<outer, walletVars, inner, updaterVars, recvVars>>
          /\ UNCHANGED <<op, openVars, oldVars, todo>>
      BY <1>1, <2>2, Zenon DEF ReceiveSlate
    <3>2. QED
      BY <3>1
  <2>3. QED
    BY <2>1, <2>2
<1>2. CASE ReceiveSlateFails(w)
  BY <1>2 DEF ReceiveSlateFails
<1>3. CASE InnerLock(w)
  BY <1>3 DEF InnerLock
<1>4. CASE InnerUnlock(w)
  BY <1>4 DEF InnerUnlock
<1>5. CASE Finish(w)
  BY <1>5 DEF Finish, Return
<1>6. QED
  BY <1>1, <1>2, <1>3, <1>4, <1>5

(* An updater that is alive stays on its backend, or ends. *)
LEMMA UpdaterLifecycleInv ==
  ASSUME NEW b \in Backends, LifecycleInv, UpdaterStep(b)
  PROVE  LifecycleInv'
<1> USE WorkersAssumption, BackendsAssumption
    DEF LifecycleInv, TypeOK, OuterOK, HandlerOK, PhaseOK, OneUpdater, Alive,
        walletVars, recvVars, openVars,
        oldVars, localVars
<1>1. CASE UpdaterLock(b)
  BY <1>1 DEF UpdaterLock
<1>2. CASE UpdaterUpdate(b)
  BY <1>2 DEF UpdaterUpdate
<1>3. CASE UpdaterCheck(b)
  BY <1>3 DEF UpdaterCheck
<1>4. QED
  BY <1>1, <1>2, <1>3 DEF UpdaterStep

(* Every step preserves the inductive invariant. *)
LEMMA NextLifecycleInv == LifecycleInv /\ [Next]_vars => LifecycleInv'
<1> SUFFICES ASSUME LifecycleInv, [Next]_vars PROVE LifecycleInv'
  OBVIOUS
<1>1. CASE \E t \in Threads : Command(t)
  BY <1>1, CommandLifecycleInv DEF Workers
<1>2. CASE BeginSlate(Listener)
  BY <1>2, CommandLifecycleInv DEF Workers
<1>r. CASE ReadAccount
  BY <1>r, ReadLifecycleInv
<1>3. CASE \E w \in Workers : WalletStep(w) \/ InnerLock(w)
  BY <1>3, LockLifecycleInv, OtherLifecycleInv DEF WalletStep
<1>4. CASE \E b \in Backends : UpdaterStep(b)
  BY <1>4, UpdaterLifecycleInv
<1>5. CASE UNCHANGED vars
  BY <1>5 DEF vars, walletVars, updaterVars, recvVars, openVars,
        oldVars, localVars, LifecycleInv,
     TypeOK, OuterOK, HandlerOK, PhaseOK, OneUpdater, Alive
<1>6. QED
  BY <1>1, <1>2, <1>r, <1>3, <1>4, <1>5 DEF Next

(* The inductive invariant holds in every behaviour of the wallet. *)
THEOREM LifecycleInvariant == Spec => []LifecycleInv
<1>1. QED
  BY InitLifecycleInv, NextLifecycleInv, PTL DEF Spec

(* The fields of the wallet object, both mutexes and the programs its threads
   have left keep their types (wallet.rs:27-42). *)
THEOREM LifecycleTypes == Spec => []TypeOK
<1>1. LifecycleInv => TypeOK
  BY DEF LifecycleInv
<1>2. QED
  BY <1>1, LifecycleInvariant, PTL

(* Whatever the commands, slates and failures, at most one updater thread is
   alive, on the backend the wallet has open: the updater_running flag that
   all of them share never revives an old one (wallet.rs:147-166, 758-795). *)
THEOREM AtMostOneUpdater == Spec => []OneUpdater
<1>1. LifecycleInv => OneUpdater
  BY DEF LifecycleInv
<1>2. QED
  BY <1>1, LifecycleInvariant, PTL

(* The backend's account is the active account, or its updater is missing. *)
AccountOpen ==
    backend # NoBackend => parent[backend] = account \/ (Updating /\ handler = NoBackend)

(* Only Wallet::unlock changes the account, together with the backend. *)
LEMMA NextAccountOpen == LifecycleInv /\ AccountOpen /\ [Next]_vars => AccountOpen'
<1> SUFFICES ASSUME LifecycleInv, AccountOpen, [Next]_vars
             PROVE  AccountOpen'
  OBVIOUS
<1> USE DEF AccountOpen, walletVars, updaterVars
<1>1. CASE UNCHANGED <<walletVars, handler>>
  BY <1>1
<1>2. ASSUME NEW w \in Workers, OpenWallet(w) PROVE AccountOpen'
  BY <1>2 DEF OpenWallet, Fresh, LifecycleInv, TypeOK
<1>3. ASSUME NEW w \in Workers, CloseWallet(w) PROVE AccountOpen'
  BY <1>3 DEF CloseWallet
<1>4. ASSUME NEW w \in Workers, JoinUpdater(w) PROVE AccountOpen'
  BY <1>4 DEF JoinUpdater
<1>5. ASSUME NEW w \in Workers, SpawnUpdaterFails(w) PROVE AccountOpen'
  BY <1>5 DEF SpawnUpdaterFails, Fresh, LifecycleInv, PhaseOK
<1>6. ASSUME NEW w \in Workers, Command(w) \/ BeginSlate(w)
      PROVE  UNCHANGED <<walletVars, handler>>
  BY <1>6 DEF Command, BeginLock, BeginUnlock, BeginQuery, SetRecv, BeginSlate
<1>r. ASSUME ReadAccount PROVE UNCHANGED <<walletVars, handler>>
  BY <1>r DEF ReadAccount
<1>7. ASSUME NEW w \in Workers, WalletStep(w) \/ InnerLock(w) PROVE AccountOpen'
  BY <1>1, <1>2, <1>3, <1>4, <1>5, <1>7
     DEF WalletStep, StopUpdater, OpenFails, ReceiveSlate, ReceiveSlateFails,
         InnerLock, InnerUnlock, Finish
<1>8. ASSUME NEW b \in Backends, UpdaterStep(b) PROVE UNCHANGED <<walletVars, handler>>
  BY <1>8 DEF UpdaterStep, UpdaterLock, UpdaterUpdate, UpdaterCheck
<1>9. ASSUME UNCHANGED vars PROVE UNCHANGED <<walletVars, handler>>
  BY <1>9 DEF vars
<1>10. QED
  BY <1>1, <1>6, <1>r, <1>7, <1>8, <1>9 DEF Next, Workers

(* Between commands the wallet spends from the account it says is active,
   whichever unlock failed, unless what failed was starting the updater thread
   (wallet.rs:60-71, 715-756). *)
THEOREM AccountIsOpen == Spec => []AccountMatchesBackend
<1>1. Init => AccountOpen
  BY DEF Init, AccountOpen
<1>2. AccountOpen => AccountMatchesBackend
  BY DEF AccountOpen, AccountMatchesBackend
<1>3. QED
  BY <1>1, <1>2, NextAccountOpen, LifecycleInvariant, PTL DEF Spec

(* What a slate is booked to on the way to BookedToOpenAccount: a swap opens
   the account it books to, and what the listener read is the active account
   until another thread opens one. *)
SwapOpensDest ==
    \A w \in Workers :
        op[w] = "SwapIn" /\ pc[w] \in {"Begin", "Join", "Close", "Open"} => dest[w] = want[w]
ReadIsActive ==
    pc[Listener] = "Idle" /\ dest[Listener] # NoAccount /\ ~switched => dest[Listener] = account
DestInv == SwapOpensDest /\ ReadIsActive /\ BookedToOpenAccount

(* A step of thread w under the wallet's mutex: it suffices to look at w. *)
LEMMA OnlyHolder ==
  ASSUME NEW w \in Workers, LifecycleInv, DestInv,
         pc' \in [Workers -> Places],
         \A v \in Workers \ {w} : pc'[v] = pc[v] /\ op'[v] = op[v] /\ dest'[v] = dest[v]
                                  /\ want'[v] = want[v],
         outer = w \/ outer = Nobody,
         op'[w] = "SwapIn" /\ pc'[w] \in {"Begin", "Join", "Close", "Open"} => dest'[w] = want'[w],
         ReadIsActive',
         pc'[w] = "Process" /\ backend' # NoBackend =>
            \/ dest'[w] = parent'[backend']
            \/ w = Listener /\ op'[w] = "Slate" /\ switched'
            \/ op'[w] = "Slate" /\ Updating /\ handler' = NoBackend
  PROVE  DestInv'
<1>1. \A v \in Workers \ {w} : pc[v] = "Idle"
  BY WorkersAssumption DEF LifecycleInv, OuterOK
<1>2. QED
  BY <1>1 DEF DestInv, SwapOpensDest, BookedToOpenAccount

(* Every step of a command and of the listener keeps DestInv. *)
LEMMA WorkerDestInv ==
  ASSUME NEW w \in Workers, LifecycleInv, AccountOpen, DestInv, LifecycleInv',
         \/ w \in Threads /\ Command(w)
         \/ BeginSlate(w) \/ WalletStep(w) \/ InnerLock(w)
  PROVE  DestInv'
<1> USE DEF Goto, Acquire, walletVars, updaterVars, recvVars, openVars, oldVars, localVars
<1>t. /\ pc \in [Workers -> Places] /\ op \in [Workers -> Ops] /\ want \in [Workers -> Accounts]
      /\ dest \in [Workers -> Accounts \cup {NoAccount}] /\ Listener \in Workers
      /\ pc' \in [Workers -> Places] /\ Listener \notin Threads /\ Nobody \notin Workers
  BY WorkersAssumption DEF LifecycleInv, TypeOK, Workers
<1>o. \A v \in Workers : pc[v] # "Idle" <=> outer = v
  BY DEF LifecycleInv, OuterOK
<1>1. CASE SetRecv(w)
  BY <1>1 DEF SetRecv, DestInv, SwapOpensDest, ReadIsActive, BookedToOpenAccount
<1>2. CASE w \in Threads /\ (BeginLock(w) \/ BeginUnlock(w) \/ BeginQuery(w))
  <2>1. /\ outer = Nobody /\ pc'[w] \in {"Begin", "Inner"} /\ op'[w] \in {"Lock", "Unlock", "Query"}
        /\ \A v \in Workers \ {w} : pc'[v] = pc[v] /\ op'[v] = op[v] /\ want'[v] = want[v]
        /\ dest' = dest /\ switched' = switched /\ account' = account
    BY <1>2, <1>t DEF BeginLock, BeginUnlock, BeginQuery, UnlockFor
  <2>2. ReadIsActive'
    BY <1>2, <1>t, <2>1 DEF DestInv, ReadIsActive
  <2>3. QED
    BY <1>t, <2>1, <2>2, OnlyHolder
<1>3. CASE BeginSlate(w)
  <2>1. /\ outer = Nobody /\ pc[w] = "Idle" /\ (w = Listener => dest[w] # NoAccount)
        /\ \A v \in Workers \ {w} : pc'[v] = pc[v] /\ op'[v] = op[v] /\ dest'[v] = dest[v]
        /\ UNCHANGED <<backend, account, parent, switched, handler>>
    BY <1>3, <1>t DEF BeginSlate
  <2>2. CASE recv # NoAccount
    <3>1. /\ pc'[w] = "Begin" /\ dest'[w] = recv /\ want'[w] = recv
          /\ \A v \in Workers \ {w} : want'[v] = want[v]
      BY <1>3, <1>t, <2>2 DEF BeginSlate, UnlockFor
    <3>2. ReadIsActive'
      BY <1>t, <2>1, <3>1 DEF DestInv, ReadIsActive
    <3>3. QED
      BY <1>t, <2>1, <3>1, <3>2, OnlyHolder
  <2>3. CASE recv = NoAccount
    <3>1. /\ pc'[w] = "Process" /\ op'[w] = "Slate" /\ want' = want
          /\ dest'[w] = IF w = Listener THEN dest[w] ELSE account
      BY <1>3, <1>t, <2>3 DEF BeginSlate, GivenAccount
    <3>2. ReadIsActive'
      BY <1>t, <2>1, <3>1 DEF DestInv, ReadIsActive
    <3>3. dest'[w] = account \/ (w = Listener /\ switched)
      BY <2>1, <3>1 DEF DestInv, ReadIsActive
    <3>4. QED
      BY <1>t, <2>1, <3>1, <3>2, <3>3, OnlyHolder DEF AccountOpen
  <2>4. QED
    BY <2>2, <2>3
<1>4. CASE OpenWallet(w)
  <2>1. /\ outer = w /\ pc'[w] \in {"Process", "After"}
        /\ pc'[w] = "Process" => op[w] = "SwapIn"
        /\ \A v \in Workers \ {w} : pc'[v] = pc[v]
        /\ op' = op /\ dest' = dest /\ want' = want /\ pc[w] = "Open"
        /\ switched' = (w # Listener /\ dest[Listener] # NoAccount)
    BY <1>4, <1>t, <1>o DEF OpenWallet, AfterOpen
  <2>2. parent'[backend'] = want[w]
    BY <1>4 DEF OpenWallet, Fresh, LifecycleInv, TypeOK
  <2>3. ReadIsActive'
    BY <1>t, <2>1 DEF ReadIsActive
  <2>4. pc'[w] = "Process" => dest'[w] = want[w]
    BY <2>1 DEF DestInv, SwapOpensDest
  <2>5. QED
    BY <1>t, <2>1, <2>2, <2>3, <2>4, OnlyHolder
<1>5. CASE StopUpdater(w) \/ JoinUpdater(w) \/ CloseWallet(w) \/ ReceiveSlateFails(w)
           \/ InnerLock(w) \/ InnerUnlock(w)
  <2>1. /\ outer = w /\ pc'[w] # "Process" /\ pc'[w] # "Idle"
        /\ pc'[w] \in {"Begin", "Join", "Close", "Open"} => pc[w] \in {"Begin", "Join", "Close"}
        /\ \A v \in Workers \ {w} : pc'[v] = pc[v]
        /\ op' = op /\ dest' = dest /\ want' = want /\ switched' = switched /\ account' = account
    BY <1>5, <1>t, <1>o
       DEF StopUpdater, JoinUpdater, CloseWallet, ReceiveSlateFails, InnerLock, InnerUnlock, AfterJoin
  <2>2. ReadIsActive'
    BY <1>t, <2>1 DEF DestInv, ReadIsActive
  <2>3. op'[w] = "SwapIn" /\ pc'[w] \in {"Begin", "Join", "Close", "Open"} => dest'[w] = want'[w]
    BY <2>1 DEF DestInv, SwapOpensDest
  <2>4. QED
    BY <1>t, <2>1, <2>2, <2>3, OnlyHolder
<1>6. CASE OpenFails(w) \/ SpawnUpdaterFails(w)
  <2>1. /\ outer = w /\ pc'[w] = "After" /\ op'[w] = "Unlock"
        /\ \A v \in Workers \ {w} : pc'[v] = pc[v] /\ op'[v] = op[v]
        /\ dest' = dest /\ want' = want /\ switched' = switched /\ account' = account
    BY <1>6, <1>t, <1>o DEF OpenFails, SpawnUpdaterFails
  <2>2. ReadIsActive'
    BY <1>t, <2>1 DEF DestInv, ReadIsActive
  <2>3. QED
    BY <1>t, <2>1, <2>2, OnlyHolder
<1>7. CASE ReceiveSlate(w)
  <2>1. /\ outer = w /\ pc'[w] \in {"Begin", "After"}
        /\ pc'[w] = "Begin" => op'[w] = "SwapBack"
        /\ \A v \in Workers \ {w} : pc'[v] = pc[v] /\ op'[v] = op[v] /\ want'[v] = want[v]
        /\ dest' = dest /\ switched' = switched /\ account' = account
    <3>1. CASE recv # NoAccount
      BY <1>7, <1>t, <1>o, <3>1 DEF ReceiveSlate, UnlockFor
    <3>2. CASE recv = NoAccount
      BY <1>7, <1>t, <1>o, <3>2 DEF ReceiveSlate
    <3>3. QED
      BY <3>1, <3>2
  <2>2. ReadIsActive'
    BY <1>t, <2>1 DEF DestInv, ReadIsActive
  <2>3. QED
    BY <1>t, <2>1, <2>2, OnlyHolder
<1>8. CASE Finish(w)
  <2>1. /\ outer = w /\ pc'[w] = "Idle" /\ dest'[w] = NoAccount /\ account' = account
        /\ \A v \in Workers \ {w} : pc'[v] = pc[v] /\ op'[v] = op[v] /\ dest'[v] = dest[v]
                                    /\ want'[v] = want[v]
        /\ switched' = (switched /\ w # Listener)
    BY <1>8, <1>t, <1>o DEF Finish, Return
  <2>2. ReadIsActive'
    BY <1>t, <2>1 DEF DestInv, ReadIsActive
  <2>3. QED
    BY <1>t, <2>1, <2>2, OnlyHolder
<1>9. QED
  BY <1>1, <1>2, <1>3, <1>4, <1>5, <1>6, <1>7, <1>8 DEF Command, WalletStep

LEMMA NextDestInv ==
  LifecycleInv /\ LifecycleInv' /\ AccountOpen /\ DestInv /\ [Next]_vars => DestInv'
<1> SUFFICES ASSUME LifecycleInv, LifecycleInv', AccountOpen, DestInv, [Next]_vars PROVE DestInv'
  OBVIOUS
<1>1. CASE \E t \in Threads : Command(t)
  BY <1>1, WorkerDestInv DEF Workers
<1>2. CASE BeginSlate(Listener)
  BY <1>2, WorkerDestInv DEF Workers
<1>3. CASE \E w \in Workers : WalletStep(w) \/ InnerLock(w)
  BY <1>3, WorkerDestInv
<1>4. CASE ReadAccount
  <2>1. /\ dest' = [dest EXCEPT ![Listener] = account] /\ pc[Listener] = "Idle"
        /\ UNCHANGED <<backend, account, parent, switched, handler, pc, op, want>>
    BY <1>4 DEF ReadAccount, walletVars, updaterVars, openVars
  <2>2. dest \in [Workers -> Accounts \cup {NoAccount}] /\ Listener \in Workers
    BY DEF LifecycleInv, TypeOK, Workers
  <2>3. QED
    BY <2>1, <2>2 DEF DestInv, SwapOpensDest, ReadIsActive, BookedToOpenAccount
<1>5. CASE \E b \in Backends : UpdaterStep(b)
  BY <1>5 DEF UpdaterStep, UpdaterLock, UpdaterUpdate, UpdaterCheck, DestInv, SwapOpensDest,
              ReadIsActive, BookedToOpenAccount, walletVars, recvVars, localVars, openVars, oldVars
<1>6. CASE UNCHANGED vars
  BY <1>6 DEF vars, DestInv, SwapOpensDest, ReadIsActive, BookedToOpenAccount, walletVars,
              updaterVars, recvVars, localVars, openVars, oldVars
<1>7. QED
  BY <1>1, <1>2, <1>3, <1>4, <1>5, <1>6 DEF Next

(* A slate is booked to the account that is open when it is received; only the
   listener may book it to the one that was active when it came, and only if
   another command opened an account in between (main.rs:293-308, 373-381,
   1556-1572). *)
THEOREM SlatesAreBooked == Spec => []BookedToOpenAccount
<1>1. Init => DestInv
  BY DEF Init, DestInv, SwapOpensDest, ReadIsActive, BookedToOpenAccount, Workers
<1>2. Init => AccountOpen
  BY DEF Init, AccountOpen
<1>3. DestInv => BookedToOpenAccount
  BY DEF DestInv
<1>4. QED
  BY <1>1, <1>2, <1>3, NextDestInv, NextAccountOpen, LifecycleInvariant, PTL DEF Spec
=============================================================================
