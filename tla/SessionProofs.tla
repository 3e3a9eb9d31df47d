---------------------------- MODULE SessionProofs ----------------------------
(***************************************************************************)
(* The properties of a session for every set of seeds and data paths and   *)
(* for indexes of any width.  SessionInv adds to them what main's phases   *)
(* mean: a process that is not there has nothing in memory, and the        *)
(* configuration in memory is the one of the file until `config' fails.    *)
(***************************************************************************)
EXTENDS Session, TLAPS

(* What the phases of main mean for the state in memory. *)
PhaseInv ==
    /\ phase = "off" => config.key = None /\ said = "other" /\ ~slipped
    /\ phase # "off" /\ ~slipped
        => /\ file \notin {None, Torn}
           /\ config.index = file.index
           /\ config.path = file.path
    /\ phase # "off" => file # None

SessionInv ==
    /\ TypeOK /\ PhaseInv
    /\ GrinboxAddressStable /\ OpenIsFile /\ SuccessMeansAddress /\ IndexPersists

LEMMA InitSession == Init => SessionInv
<1>. SUFFICES ASSUME Init PROVE SessionInv
  OBVIOUS
<1>1. 0 \in Indexes
  BY U32Assumption DEF Indexes
<1>2. config \in [path : Paths, index : Indexes, key : Keys \cup {None}] /\ config.key = None
  BY <1>1, PathAssumption DEF Init, NoConfig
<1>3. threads \in [{"keybase", "owner", "foreign"} -> Thread]
  BY DEF Init, NoThreads, Thread
<1>4. TypeOK
  <2>1. joining \in 1 .. 4
    BY DEF Init
  <2>2. /\ phase \in Phases /\ said \in {"wallet", "generate", "other"}
        /\ daemon \in BOOLEAN /\ slipped \in BOOLEAN
    BY Zenon DEF Init, Phases
  <2>3. seeds \in [Paths -> Seeds \cup {None}]
    BY DEF Init
  <2>. QED
    BY <1>2, <1>3, <2>1, <2>2, <2>3, Zenon DEF Init, TypeOK
<1>. QED
  BY <1>2, <1>4 DEF Init, SessionInv, PhaseInv, GrinboxAddressStable, OpenIsFile,
                    SuccessMeansAddress, IndexPersists

(* What unlocking leaves open is the wallet of the seed that was given.    *)
LEMMA OutcomeOpen ==
    ASSUME TypeOK, NEW s \in Seeds \cup {None}, NEW o \in UnlockOutcomes(s)
    PROVE  /\ o.wallet \in Opened \cup {None}
           /\ o.wallet # None => o.wallet.path = config.path /\ o.wallet.seed = s
<1>1. config.path \in Paths
  BY DEF TypeOK
<1>2. CASE o = [wallet |-> None, ok |-> FALSE]
  BY <1>2
<1>3. CASE \E x \in {s} \ {None}, b \in BOOLEAN :
             o = [wallet |-> [path |-> config.path, seed |-> x, outlived |-> FALSE], ok |-> b]
  <2>1. PICK x \in {s} \ {None}, b \in BOOLEAN :
          o = [wallet |-> [path |-> config.path, seed |-> x, outlived |-> FALSE], ok |-> b]
    BY <1>3
  <2>2. x \in Seeds /\ x = s /\ FALSE \in BOOLEAN
    OBVIOUS
  <2>. QED
    BY <1>1, <2>1, <2>2 DEF Opened
<1>. QED
  BY <1>2, <1>3 DEF UnlockOutcomes

(* Opening and deriving, with s in the seed file of the configured path:   *)
(* either the key is that of the wallet, which is open, or it stays.       *)
LEMMA OpenDerive ==
    ASSUME TypeOK, NEW s \in Seeds \cup {None}, NEW synced \in BOOLEAN,
           OpenAndDerive(s, synced)
    PROVE  /\ wallet' \in Opened \cup {None}
           /\ wallet' # None => wallet'.path = config.path /\ wallet'.seed = s
           /\ config' \in [path : Paths, index : Indexes, key : Keys \cup {None}]
           /\ config'.path = config.path /\ config'.index = config.index
           /\ \/ said' = "other" /\ config' = config
              \/ /\ said' = "wallet" /\ wallet' # None /\ grinbox = None
                 /\ config'.key = KeyOf(wallet', config.index)
<1>1. PICK o \in UnlockOutcomes(s) :
        /\ wallet' = o.wallet
        /\ IF o.ok /\ synced /\ MayDerive(o.wallet)
           THEN config' = [config EXCEPT !.key = KeyOf(o.wallet, config.index)]
                /\ said' = "wallet"
           ELSE said' = "other" /\ UNCHANGED config
  BY DEF OpenAndDerive
<1>2. /\ o.wallet \in Opened \cup {None}
      /\ o.wallet # None => o.wallet.path = config.path /\ o.wallet.seed = s
  BY OutcomeOpen
<1>3. config \in [path : Paths, index : Indexes, key : Keys \cup {None}]
  BY DEF TypeOK
<1>4. CASE o.ok /\ synced /\ MayDerive(o.wallet)
  <2>1. o.wallet # None /\ grinbox = None
    BY <1>4 DEF MayDerive
  <2>2. KeyOf(o.wallet, config.index) \in Keys
    BY <1>2, <1>3, <2>1 DEF KeyOf, Keys, Opened
  <2>. QED
    BY <1>1, <1>2, <1>3, <1>4, <2>1, <2>2
<1>5. CASE ~(o.ok /\ synced /\ MayDerive(o.wallet))
  BY <1>1, <1>2, <1>3, <1>5
<1>. QED
  BY <1>4, <1>5

Disk == seeds \in [Paths -> Seeds \cup {None}]
        /\ file \in [path : Paths, index : Indexes] \cup {None, Torn}

Brokers == /\ grinbox \in [key : Keys, running : BOOLEAN] \cup {None}
           /\ mwcmqs \in BOOLEAN \cup {None} /\ keybase \in BOOLEAN \cup {None}

Waits == /\ threads \in [{"keybase", "owner", "foreign"} -> Thread]
         /\ joining \in 1 .. 4

(* A process that ends leaves what is on disk. *)
LEMMA EndStep ==
    ASSUME TypeOK, End, daemon' \in BOOLEAN, Disk'
    PROVE  SessionInv'
<1>1. 0 \in Indexes
  BY U32Assumption DEF Indexes
<1>2. /\ config' \in [path : Paths, index : Indexes, key : Keys \cup {None}]
      /\ config'.key = None
  BY <1>1, PathAssumption DEF End, Forget, NoConfig
<1>3. threads' \in [{"keybase", "owner", "foreign"} -> Thread] /\ joining' \in 1 .. 4
  BY DEF End, Forget, NoThreads, Thread
<1>4. TypeOK'
  <2>1. /\ phase' \in Phases /\ said' \in {"wallet", "generate", "other"}
        /\ slipped' \in BOOLEAN
    BY Zenon DEF End, Forget, Phases
  <2>. QED
    BY <1>2, <1>3, <2>1, Zenon DEF End, Forget, TypeOK, Disk
<1>. QED
  BY <1>2, <1>4 DEF End, Forget, SessionInv, PhaseInv, GrinboxAddressStable, OpenIsFile,
                    SuccessMeansAddress, IndexPersists

(* A step that may open the wallet and derive the key keeps them agreed.   *)
LEMMA DeriveStep ==
    ASSUME SessionInv, phase # "off", phase' \in Phases \ {"off"},
           NEW s \in Seeds \cup {None}, NEW synced \in BOOLEAN, OpenAndDerive(s, synced),
           seeds' \in [Paths -> Seeds \cup {None}], seeds'[config.path] = s,
           UNCHANGED << daemon, file, brokers, slipped, waiting >>
    PROVE  SessionInv'
<1>. TypeOK
  BY DEF SessionInv
<1>1. /\ wallet' \in Opened \cup {None}
      /\ wallet' # None => wallet'.path = config.path /\ wallet'.seed = s
      /\ config' \in [path : Paths, index : Indexes, key : Keys \cup {None}]
      /\ config'.path = config.path /\ config'.index = config.index
      /\ \/ said' = "other" /\ config' = config
         \/ /\ said' = "wallet" /\ wallet' # None /\ grinbox = None
            /\ config'.key = KeyOf(wallet', config.index)
  BY OpenDerive
<1>2. TypeOK'
  BY <1>1, Zenon DEF TypeOK, brokers, waiting
<1>3. PhaseInv'
  BY <1>1 DEF SessionInv, PhaseInv
<1>4. GrinboxAddressStable'
  BY <1>1 DEF SessionInv, GrinboxAddressStable, brokers
<1>5. OpenIsFile'
  BY <1>1 DEF OpenIsFile
<1>6. SuccessMeansAddress'
  BY <1>1 DEF SuccessMeansAddress, KeyOf
<1>7. IndexPersists'
  BY <1>1 DEF SessionInv, PhaseInv, IndexPersists, KeyOf
<1>. QED
  BY <1>2, <1>3, <1>4, <1>5, <1>6, <1>7 DEF SessionInv

(* A step that leaves the files and the key alone, and the wallet too or   *)
(* has it locked or opened again.                                          *)
LEMMA WalletStep ==
    ASSUME SessionInv, phase # "off", phase' \in Phases \ {"off"},
           UNCHANGED << daemon, seeds, file, config, slipped >>,
           \/ wallet' = wallet
           \/ wallet' \in Opened \cup {None}
              /\ (wallet' # None => wallet'.path = config.path
                                    /\ wallet'.seed = seeds[config.path]),
           said' = "other" \/ UNCHANGED << wallet, said >>,
           grinbox' = None \/ grinbox' = grinbox
             \/ (grinbox # None /\ grinbox'.key = grinbox.key)
             \/ (grinbox'.key = config.key),
           Brokers', Waits'
    PROVE  SessionInv'
<1>1. TypeOK'
  <2>1. wallet' \in Opened \cup {None}
    BY DEF SessionInv, TypeOK
  <2>2. said' \in {"wallet", "generate", "other"}
    BY DEF SessionInv, TypeOK
  <2>. QED
    BY <2>1, <2>2, Zenon DEF SessionInv, TypeOK, Brokers, Waits
<1>2. PhaseInv'
  BY DEF SessionInv, PhaseInv
<1>3. GrinboxAddressStable'
  BY DEF SessionInv, GrinboxAddressStable
<1>4. OpenIsFile'
  BY DEF SessionInv, OpenIsFile
<1>5. SuccessMeansAddress'
  BY DEF SessionInv, SuccessMeansAddress, KeyOf
<1>6. IndexPersists'
  BY DEF SessionInv, IndexPersists
<1>. QED
  BY <1>1, <1>2, <1>3, <1>4, <1>5, <1>6 DEF SessionInv

LEMMA NextIndexType == ASSUME TypeOK PROVE NextIndex \in Indexes
<1>1. config.index \in 0 .. U32 - 1
  BY DEF TypeOK, Indexes
<1>. QED
  BY <1>1, U32Assumption DEF NextIndex, Indexes

(* `config', failed or done. *)
LEMMA ConfigStep ==
    ASSUME SessionInv, phase # "off", NEW dir \in Paths \cup {None},
           NEW index \in Indexes \cup {None}, ConfigFails(index) \/ ConfigDone(dir, index)
    PROVE  SessionInv'
<1>. TypeOK
  BY DEF SessionInv
<1>0. /\ config \in [path : Paths, index : Indexes, key : Keys \cup {None}]
      /\ file \in [path : Paths, index : Indexes] \cup {None, Torn}
      /\ None \notin Paths
  BY PathAssumption DEF TypeOK
<1>1. CASE ConfigFails(index)
  <2>1. /\ config' \in [path : Paths, index : Indexes, key : Keys \cup {None}]
        /\ config'.key = config.key /\ config'.path = config.path
        /\ index = None => config' = config
    BY <1>0, <1>1 DEF ConfigFails, Or
  <2>2. /\ file' = file \/ file' = Torn
        /\ UNCHANGED << phase, daemon, seeds, wallet, brokers, waiting >>
        /\ said' = "other" /\ slipped' = (slipped \/ index # None \/ file' = Torn)
    BY <1>1 DEF ConfigFails
  <2>3. TypeOK'
    <3>1. slipped' \in BOOLEAN
      BY <2>2, Zenon
    <3>. QED
      BY <1>0, <2>1, <2>2, <3>1, Zenon DEF TypeOK, brokers, waiting
  <2>4. PhaseInv' /\ IndexPersists'
    BY <1>0, <2>1, <2>2, NoneAssumption DEF SessionInv, PhaseInv, IndexPersists
  <2>5. GrinboxAddressStable' /\ OpenIsFile' /\ SuccessMeansAddress'
    BY <2>1, <2>2 DEF SessionInv, GrinboxAddressStable, OpenIsFile, SuccessMeansAddress, brokers
  <2>. QED
    BY <2>3, <2>4, <2>5 DEF SessionInv
<1>2. CASE ConfigDone(dir, index)
  <2>. DEFINE read == Written(dir, index)
              derives == index # None /\ MayDerive(wallet)
  <2>1. file \in [path : Paths, index : Indexes]
    BY <1>0, <1>2 DEF ConfigDone, SessionInv, PhaseInv
  <2>2. /\ read \in [path : Paths, index : Indexes]
        /\ Or(index, read.index) = read.index
    BY <2>1 DEF Written, Or
  <2>3. /\ file' = read /\ slipped' = FALSE
        /\ config' = [path |-> read.path, index |-> read.index,
                      key |-> IF derives THEN KeyOf(wallet, read.index) ELSE None]
        /\ said' = IF derives THEN "generate" ELSE "other"
        /\ UNCHANGED << phase, daemon, seeds, wallet, brokers, waiting >>
    BY <1>2, <2>2 DEF ConfigDone
  <2>4. derives => wallet # None /\ grinbox = None /\ KeyOf(wallet, read.index) \in Keys
    BY <2>2 DEF MayDerive, KeyOf, Keys, TypeOK, Opened
  <2>5. /\ config' \in [path : Paths, index : Indexes, key : Keys \cup {None}]
        /\ config'.path = read.path /\ config'.index = read.index
        /\ derives \/ config'.key = None
        /\ derives => config'.key = KeyOf(wallet, read.index)
    BY <2>2, <2>3, <2>4
  <2>6. TypeOK'
    <3>1. said' \in {"wallet", "generate", "other"} /\ slipped' \in BOOLEAN
      BY <2>3, Zenon
    <3>. QED
      BY <2>2, <2>3, <2>5, <3>1, Zenon DEF TypeOK, brokers, waiting
  <2>7. PhaseInv' /\ IndexPersists'
    BY <2>2, <2>3, <2>5, NoneAssumption DEF PhaseInv, IndexPersists, KeyOf
  <2>8. GrinboxAddressStable' /\ OpenIsFile' /\ SuccessMeansAddress'
    BY <2>2, <2>3, <2>4, <2>5
       DEF SessionInv, GrinboxAddressStable, OpenIsFile, SuccessMeansAddress, brokers, KeyOf
  <2>. QED
    BY <2>6, <2>7, <2>8 DEF SessionInv
<1>. QED
  BY <1>1, <1>2

(* Opening for a listener: the wallet stays, or is opened or left locked.  *)
LEMMA OpenListener ==
    ASSUME TypeOK, NEW opened \in BOOLEAN, OpenForListener(opened)
    PROVE  \/ wallet' = wallet
           \/ wallet' \in Opened \cup {None}
              /\ (wallet' # None => wallet'.path = config.path
                                    /\ wallet'.seed = seeds[config.path])
<1>1. seeds[config.path] \in Seeds \cup {None}
  BY DEF TypeOK
<1>. QED
  BY <1>1, OutcomeOpen DEF OpenForListener

(* A recover that fails before anything is locked: the wallet stays, and   *)
(* is marked where its seed file is no longer its own.                     *)
LEMMA RecoverFailsStep ==
    ASSUME SessionInv, phase = "prompt", RecoverFails
    PROVE  SessionInv'
<1>. TypeOK
  BY DEF SessionInv
<1>1. PICK s \in Seeds \cup {None, seeds[config.path]} :
        /\ seeds' = [seeds EXCEPT ![config.path] = s]
        /\ IF wallet # None /\ wallet.path = config.path
           THEN wallet' = [wallet EXCEPT !.outlived = (s # wallet.seed)]
           ELSE UNCHANGED wallet
  BY DEF RecoverFails
<1>2. /\ said' = "other"
      /\ UNCHANGED << phase, daemon, file, config, brokers, slipped, waiting >>
  BY DEF RecoverFails
<1>3. config.path \in Paths /\ seeds \in [Paths -> Seeds \cup {None}]
      /\ wallet \in Opened \cup {None}
  BY DEF TypeOK
<1>4. s \in Seeds \cup {None} /\ seeds' \in [Paths -> Seeds \cup {None}]
  BY <1>1, <1>3
<1>5. /\ wallet' \in Opened \cup {None}
      /\ wallet' # None /\ ~wallet'.outlived => seeds'[wallet'.path] = wallet'.seed
  <2>1. CASE wallet # None /\ wallet.path = config.path
    <3>1. wallet \in Opened /\ (s # wallet.seed) \in BOOLEAN
      BY <1>3, <2>1
    <3>2. wallet' = [wallet EXCEPT !.outlived = (s # wallet.seed)]
      BY <1>1, <2>1
    <3>3. /\ wallet' \in Opened /\ wallet'.path = config.path /\ wallet'.seed = wallet.seed
          /\ wallet'.outlived = (s # wallet.seed)
      BY <2>1, <3>1, <3>2 DEF Opened
    <3>. QED
      BY <1>1, <1>3, <3>3
  <2>2. CASE ~(wallet # None /\ wallet.path = config.path)
    BY <1>1, <1>3, <2>2 DEF SessionInv, OpenIsFile, Opened
  <2>. QED
    BY <2>1, <2>2
<1>6. TypeOK'
  BY <1>2, <1>4, <1>5, Zenon DEF TypeOK, brokers, waiting
<1>7. PhaseInv' /\ IndexPersists' /\ GrinboxAddressStable'
  BY <1>2 DEF SessionInv, PhaseInv, IndexPersists, GrinboxAddressStable, brokers
<1>8. OpenIsFile' /\ SuccessMeansAddress'
  BY <1>2, <1>5 DEF OpenIsFile, SuccessMeansAddress
<1>. QED
  BY <1>6, <1>7, <1>8 DEF SessionInv

LEMMA CommandStep ==
    ASSUME SessionInv, Command
    PROVE  SessionInv'
<1>. TypeOK /\ phase = "prompt" /\ phase # "off"
  BY DEF SessionInv, Command
<1>t. /\ Brokers /\ Waits /\ Disk /\ config.path \in Paths
      /\ seeds[config.path] \in Seeds \cup {None} /\ "prompt" \in Phases \ {"off"}
  BY DEF TypeOK, Brokers, Waits, Disk, Phases
<1>1. ASSUME NEW s \in Seeds, seeds' = [seeds EXCEPT ![config.path] = s], Complete(s)
      PROVE  SessionInv'
  <2>1. PICK synced \in BOOLEAN : OpenAndDerive(s, synced)
    BY <1>1 DEF Complete
  <2>2. seeds' \in [Paths -> Seeds \cup {None}] /\ seeds'[config.path] = s
    BY <1>1, <1>t DEF Disk
  <2>3. phase' \in Phases \ {"off"} /\ UNCHANGED << daemon, file, brokers, slipped, waiting >>
    BY <1>1, <1>t DEF Complete
  <2>. QED
    BY <2>1, <2>2, <2>3, DeriveStep
<1>2. CASE InitWallet
  <2>1. PICK s \in IF seeds[config.path] = None THEN Seeds ELSE {seeds[config.path]} :
          seeds' = [seeds EXCEPT ![config.path] = s] /\ Complete(s)
    BY <1>2 DEF InitWallet
  <2>2. s \in Seeds
    BY <1>t, <2>1
  <2>. QED
    BY <1>1, <2>1, <2>2
<1>3. CASE Restore
  <2>1. seeds' = [seeds EXCEPT ![config.path] = seeds[config.path]]
    BY <1>3, <1>t DEF Restore, Disk
  <2>. QED
    BY <1>1, <1>3, <1>t, <2>1 DEF Restore
<1>4. CASE Recover
  BY <1>1, <1>4, RecoverFailsStep DEF Recover
<1>5. CASE Lock
  BY <1>5, <1>t, WalletStep DEF Lock, brokers, waiting, Brokers, Waits
<1>6. CASE Unlock
  <2>1. seeds' \in [Paths -> Seeds \cup {None}] /\ seeds'[config.path] = seeds[config.path]
    BY <1>6, <1>t DEF Unlock, Disk
  <2>2. phase' \in Phases \ {"off"} /\ UNCHANGED << daemon, file, brokers, slipped, waiting >>
    BY <1>6, <1>t DEF Unlock
  <2>. QED
    BY <1>6, <1>t, <2>1, <2>2, DeriveStep DEF Unlock
<1>7. CASE AccountSwitch
  <2>1. wallet' \in Opened \cup {None}
        /\ (wallet' # None => wallet'.path = config.path /\ wallet'.seed = seeds[config.path])
    BY <1>7, <1>t, OutcomeOpen DEF AccountSwitch
  <2>. QED
    BY <1>7, <1>t, <2>1, WalletStep DEF AccountSwitch, brokers, waiting, Brokers, Waits
<1>8. CASE ConfigCommand
  <2>1. CASE ConfigTorn
    <3>1. Disk'
      BY <1>t, <2>1 DEF ConfigTorn, Disk
    <3>2. daemon' \in BOOLEAN
      BY <2>1 DEF ConfigTorn, TypeOK
    <3>. QED
      BY <2>1, <3>1, <3>2, EndStep DEF ConfigTorn
  <2>2. ASSUME NEW dir \in Paths \cup {None}, NEW index \in Indexes \cup {None, NextIndex},
               ConfigFails(index) \/ ConfigDone(dir, index)
        PROVE  SessionInv'
    BY <2>2, NextIndexType, ConfigStep
  <2>. QED
    BY <1>8, <2>1, <2>2 DEF ConfigCommand
<1>9. CASE ListenGrinbox
  <2>1. PICK opened \in BOOLEAN :
          /\ OpenForListener(opened)
          /\ \/ opened /\ config.key # None /\ grinbox' = [key |-> config.key, running |-> FALSE]
             \/ (~opened \/ config.key = None) /\ UNCHANGED grinbox
    BY <1>9 DEF ListenGrinbox
  <2>2. \/ wallet' = wallet
        \/ wallet' \in Opened \cup {None}
           /\ (wallet' # None => wallet'.path = config.path /\ wallet'.seed = seeds[config.path])
    BY <2>1, OpenListener
  <2>3. /\ UNCHANGED << phase, daemon, seeds, file, config, mwcmqs, keybase, slipped, waiting >>
        /\ said' = "other"
    BY <1>9 DEF ListenGrinbox
  <2>4. grinbox' = grinbox \/ grinbox'.key = config.key
    BY <2>1
  <2>5. grinbox' \in [key : Keys, running : BOOLEAN] \cup {None}
    <3>1. CASE UNCHANGED grinbox
      BY <1>t, <3>1 DEF Brokers
    <3>2. CASE config.key # None /\ grinbox' = [key |-> config.key, running |-> FALSE]
      <4>1. config.key \in Keys /\ FALSE \in BOOLEAN
        BY <3>2 DEF TypeOK
      <4>. QED
        BY <3>2, <4>1
    <3>. QED
      BY <2>1, <3>1, <3>2
  <2>6. Brokers' /\ Waits'
    BY <1>t, <2>3, <2>5 DEF Brokers, Waits, waiting
  <2>. QED
    BY <1>t, <2>2, <2>3, <2>4, <2>6, WalletStep
<1>10. CASE ListenMwcmqs
  <2>1. PICK opened \in BOOLEAN : OpenForListener(opened) /\ (mwcmqs' = FALSE \/ UNCHANGED mwcmqs)
    BY <1>10 DEF ListenMwcmqs, StartMwcmqs
  <2>2. \/ wallet' = wallet
        \/ wallet' \in Opened \cup {None}
           /\ (wallet' # None => wallet'.path = config.path /\ wallet'.seed = seeds[config.path])
    BY <2>1, OpenListener
  <2>3. /\ UNCHANGED << phase, daemon, seeds, file, config, grinbox, keybase, slipped, waiting >>
        /\ said' = "other"
    BY <1>10 DEF ListenMwcmqs, StartMwcmqs
  <2>4. mwcmqs' \in BOOLEAN \cup {None}
    BY <1>t, <2>1, Zenon DEF Brokers
  <2>5. Brokers' /\ Waits'
    BY <1>t, <2>3, <2>4 DEF Brokers, Waits, waiting
  <2>. QED
    BY <1>t, <2>2, <2>3, <2>5, WalletStep
<1>11. CASE ListenKeybase
  <2>1. PICK opened \in BOOLEAN : OpenForListener(opened) /\ (keybase' = FALSE \/ UNCHANGED keybase)
    BY <1>11 DEF ListenKeybase, StartKeybase
  <2>2. \/ wallet' = wallet
        \/ wallet' \in Opened \cup {None}
           /\ (wallet' # None => wallet'.path = config.path /\ wallet'.seed = seeds[config.path])
    BY <2>1, OpenListener
  <2>3. /\ UNCHANGED << phase, daemon, seeds, file, config, grinbox, mwcmqs, slipped, waiting >>
        /\ said' = "other"
    BY <1>11 DEF ListenKeybase, StartKeybase
  <2>4. keybase' \in BOOLEAN \cup {None}
    BY <1>t, <2>1, Zenon DEF Brokers
  <2>5. Brokers' /\ Waits'
    BY <1>t, <2>3, <2>4 DEF Brokers, Waits, waiting
  <2>. QED
    BY <1>t, <2>2, <2>3, <2>5, WalletStep
<1>12. CASE StopGrinbox
  BY <1>12, <1>t, WalletStep DEF StopGrinbox, Brokers, Waits, waiting
<1>13. CASE StopMwcmqs
  <2>1. mwcmqs' \in BOOLEAN \cup {None}
    BY <1>13, Zenon DEF StopMwcmqs
  <2>. QED
    BY <1>13, <1>t, <2>1, WalletStep DEF StopMwcmqs, Brokers, Waits, waiting
<1>14. CASE StopKeybase
  BY <1>14, <1>t, WalletStep DEF StopKeybase, Brokers, Waits, waiting
<1>. QED
  BY <1>2, <1>3, <1>4, <1>5, <1>6, <1>7, <1>8, <1>9, <1>10, <1>11, <1>12, <1>13, <1>14
     DEF Command

(* Start-up, the daemon's joins, the listeners' threads and the ends of a  *)
(* process.                                                                *)
LEMMA MainStep ==
    ASSUME SessionInv,
           \/ Start \/ DeleteConfig \/ FirstCommand \/ StartUnlock
           \/ AutoStartMwcmqs \/ AutoStartKeybase \/ StartApis
           \/ ListenerTurns \/ Exit \/ ThreadEnds \/ Join
    PROVE  SessionInv'
<1>. TypeOK
  BY DEF SessionInv
<1>t. /\ Brokers /\ Waits /\ Disk /\ config.path \in Paths /\ daemon \in BOOLEAN
      /\ seeds[config.path] \in Seeds \cup {None} /\ phase \in Phases
  BY DEF TypeOK, Brokers, Waits, Disk
<1>1. CASE Start
  <2>1. 0 \in Indexes
    BY U32Assumption DEF Indexes
  <2>2. file' \in [path : Paths, index : Indexes]
    BY <1>1, <1>t, <2>1, PathAssumption DEF Start, Disk
  <2>3. /\ config' = [path |-> file'.path, index |-> file'.index, key |-> None]
        /\ daemon' \in BOOLEAN /\ phase' \in {"first", "unlock"}
        /\ UNCHANGED << seeds, wallet, brokers, slipped, said, waiting >>
    BY <1>1 DEF Start
  <2>4. /\ config' \in [path : Paths, index : Indexes, key : Keys \cup {None}]
        /\ config'.key = None /\ config'.path = file'.path /\ config'.index = file'.index
    BY <2>2, <2>3
  <2>5. TypeOK'
    <3>1. phase' \in Phases
      BY <2>3 DEF Phases
    <3>. QED
      BY <2>2, <2>3, <2>4, <3>1, Zenon DEF TypeOK, brokers, waiting
  <2>6. said = "other"
    BY <1>1 DEF Start, SessionInv, PhaseInv
  <2>7. PhaseInv' /\ IndexPersists'
    BY <2>2, <2>3, <2>4, NoneAssumption DEF PhaseInv, IndexPersists
  <2>8. GrinboxAddressStable' /\ OpenIsFile' /\ SuccessMeansAddress'
    BY <2>3, <2>4, <2>6 DEF SessionInv, GrinboxAddressStable, OpenIsFile, SuccessMeansAddress, brokers
  <2>. QED
    BY <2>5, <2>7, <2>8 DEF SessionInv
<1>2. CASE DeleteConfig
  <2>1. TypeOK'
    BY <1>2, Zenon DEF DeleteConfig, TypeOK, memory, waiting
  <2>. QED
    BY <1>2, <2>1 DEF DeleteConfig, memory, SessionInv, PhaseInv, GrinboxAddressStable,
                      OpenIsFile, SuccessMeansAddress, IndexPersists
<1>3. CASE FirstCommand
  <2>1. PICK s \in Seeds :
          /\ seeds' = [seeds EXCEPT ![config.path] = s]
          /\ \/ /\ OpenAndDerive(s, TRUE)
                /\ said' = "wallet"
                /\ phase' = "unlock"
                /\ UNCHANGED << brokers, slipped, waiting >>
             \/ End
    BY <1>3 DEF FirstCommand
  <2>2. seeds' \in [Paths -> Seeds \cup {None}] /\ seeds'[config.path] = s
    BY <1>t, <2>1 DEF Disk
  <2>3. CASE End
    <3>1. Disk'
      BY <1>3, <1>t, <2>2 DEF FirstCommand, Disk
    <3>. QED
      BY <1>3, <1>t, <2>3, <3>1, EndStep DEF FirstCommand
  <2>4. CASE OpenAndDerive(s, TRUE) /\ phase' = "unlock" /\ UNCHANGED << brokers, slipped, waiting >>
    <3>1. phase # "off" /\ phase' \in Phases \ {"off"}
      BY <1>3, <2>4 DEF FirstCommand, Phases
    <3>2. UNCHANGED << daemon, file, brokers, slipped, waiting >>
      BY <1>3, <2>4 DEF FirstCommand
    <3>3. OpenAndDerive(s, TRUE)
      BY <2>4
    <3>. QED
      BY <2>2, <3>1, <3>2, <3>3, DeriveStep
  <2>. QED
    BY <2>1, <2>3, <2>4
<1>4. CASE StartUnlock
  <2>1. phase # "off" /\ phase' \in Phases \ {"off"}
    BY <1>4 DEF StartUnlock, Phases
  <2>2. UNCHANGED << daemon, seeds, file, brokers, slipped, waiting >>
    BY <1>4 DEF StartUnlock
  <2>3. CASE UNCHANGED << config, wallet, said >>
    BY <1>t, <2>1, <2>2, <2>3, WalletStep DEF brokers, waiting, Brokers, Waits
  <2>4. CASE OpenAndDerive(seeds[config.path], TRUE)
    <3>1. seeds' \in [Paths -> Seeds \cup {None}] /\ seeds'[config.path] = seeds[config.path]
      BY <1>t, <2>2 DEF Disk
    <3>. QED
      BY <1>t, <2>1, <2>2, <2>4, <3>1, DeriveStep
  <2>. QED
    BY <1>4, <2>3, <2>4 DEF StartUnlock
<1>5. CASE AutoStartMwcmqs
  <2>1. /\ phase # "off" /\ phase' \in Phases \ {"off"}
        /\ UNCHANGED << daemon, seeds, file, config, grinbox, keybase, slipped, waiting >>
    BY <1>5 DEF AutoStartMwcmqs, Phases
  <2>2. CASE UNCHANGED << wallet, mwcmqs, said >>
    BY <1>t, <2>1, <2>2, WalletStep DEF waiting, Brokers, Waits
  <2>3. CASE StartMwcmqs
    <3>1. PICK opened \in BOOLEAN : OpenForListener(opened) /\ (mwcmqs' = FALSE \/ UNCHANGED mwcmqs)
      BY <2>3 DEF StartMwcmqs
    <3>2. \/ wallet' = wallet
          \/ wallet' \in Opened \cup {None}
             /\ (wallet' # None => wallet'.path = config.path /\ wallet'.seed = seeds[config.path])
      BY <3>1, OpenListener
    <3>3. mwcmqs' \in BOOLEAN \cup {None} /\ said' = "other"
      BY <1>t, <2>3, <3>1, Zenon DEF Brokers, StartMwcmqs
    <3>4. Brokers' /\ Waits'
      BY <1>t, <2>1, <3>3 DEF Brokers, Waits, waiting
    <3>. QED
      BY <2>1, <3>2, <3>3, <3>4, WalletStep
  <2>. QED
    BY <1>5, <2>2, <2>3 DEF AutoStartMwcmqs
<1>6. CASE AutoStartKeybase
  <2>1. /\ phase # "off" /\ phase' \in Phases \ {"off"}
        /\ UNCHANGED << daemon, seeds, file, config, grinbox, mwcmqs, slipped, waiting >>
    BY <1>6 DEF AutoStartKeybase, Phases
  <2>2. CASE UNCHANGED << wallet, keybase, said >>
    BY <1>t, <2>1, <2>2, WalletStep DEF waiting, Brokers, Waits
  <2>3. CASE StartKeybase
    <3>1. PICK opened \in BOOLEAN : OpenForListener(opened) /\ (keybase' = FALSE \/ UNCHANGED keybase)
      BY <2>3 DEF StartKeybase
    <3>2. \/ wallet' = wallet
          \/ wallet' \in Opened \cup {None}
             /\ (wallet' # None => wallet'.path = config.path /\ wallet'.seed = seeds[config.path])
      BY <3>1, OpenListener
    <3>3. keybase' \in BOOLEAN \cup {None} /\ said' = "other"
      BY <1>t, <2>3, <3>1, Zenon DEF Brokers, StartKeybase
    <3>4. Brokers' /\ Waits'
      BY <1>t, <2>1, <3>3 DEF Brokers, Waits, waiting
    <3>. QED
      BY <2>1, <3>2, <3>3, <3>4, WalletStep
  <2>. QED
    BY <1>6, <2>2, <2>3 DEF AutoStartKeybase
<1>7. CASE StartApis
  <2>1. /\ phase # "off" /\ phase' \in Phases \ {"off"}
        /\ UNCHANGED << daemon, seeds, file, memory, joining >>
    BY <1>7 DEF StartApis, Phases
  <2>2. threads' \in [{"keybase", "owner", "foreign"} -> Thread]
    <3>1. CASE UNCHANGED threads
      BY <1>t, <3>1 DEF Waits
    <3>2. CASE daemon
      <4>1. PICK k, owner, foreign \in Thread :
              threads' = [keybase |-> k, owner |-> owner, foreign |-> foreign]
        BY <1>7, <3>2 DEF StartApis, Thread
      <4>. QED
        BY <4>1
    <3>. QED
      BY <1>7, <3>1, <3>2 DEF StartApis
  <2>. QED
    BY <1>t, <2>1, <2>2, WalletStep DEF memory, Brokers, Waits
<1>8. CASE ListenerTurns
  <2>1. /\ phase # "off" /\ phase' \in Phases \ {"off"}
        /\ UNCHANGED << daemon, seeds, file, config, wallet, slipped, said, waiting >>
    BY <1>8, <1>t DEF ListenerTurns
  <2>2. /\ grinbox' = grinbox \/ (grinbox # None /\ grinbox'.key = grinbox.key)
        /\ grinbox' \in [key : Keys, running : BOOLEAN] \cup {None}
    <3>1. CASE UNCHANGED grinbox
      BY <1>t, <3>1 DEF Brokers
    <3>2. CASE grinbox # None /\ grinbox' = [grinbox EXCEPT !.running = TRUE]
      BY <1>t, <3>2 DEF Brokers
    <3>. QED
      BY <1>8, <3>1, <3>2 DEF ListenerTurns
  <2>3. mwcmqs' \in BOOLEAN \cup {None} /\ keybase' \in BOOLEAN \cup {None}
    <3>1. CASE UNCHANGED mwcmqs /\ keybase' \in {TRUE, keybase}
      BY <1>t, <3>1 DEF Brokers
    <3>2. CASE mwcmqs' = ~mwcmqs /\ UNCHANGED keybase
      <4>1. mwcmqs' \in BOOLEAN
        BY <3>2, Zenon
      <4>. QED
        BY <1>t, <3>2, <4>1 DEF Brokers
    <3>. QED
      BY <1>8, <3>1, <3>2 DEF ListenerTurns
  <2>4. Brokers' /\ Waits'
    BY <1>t, <2>1, <2>2, <2>3 DEF Brokers, Waits, waiting
  <2>. QED
    BY <2>1, <2>2, <2>4, WalletStep
<1>9. CASE Exit
  BY <1>9, <1>t, EndStep DEF Exit, Disk
<1>10. CASE ThreadEnds
  <2>1. /\ phase # "off" /\ phase' \in Phases \ {"off"}
        /\ UNCHANGED << daemon, seeds, file, memory, joining >>
    BY <1>10, <1>t DEF ThreadEnds
  <2>2. threads' \in [{"keybase", "owner", "foreign"} -> Thread]
    BY <1>10, <1>t DEF ThreadEnds, Waits, Thread
  <2>. QED
    BY <1>t, <2>1, <2>2, WalletStep DEF memory, Brokers, Waits
<1>11. CASE Join
  <2>1. CASE End
    BY <1>11, <1>t, <2>1, EndStep DEF Join, Disk
  <2>2. CASE joining <= 3 /\ joining' = joining + 1 /\ UNCHANGED << phase, memory, threads >>
    <3>1. phase # "off" /\ phase' \in Phases \ {"off"} /\ UNCHANGED << daemon, seeds, file >>
      BY <1>11, <1>t, <2>2 DEF Join
    <3>2. joining' \in 1 .. 4
      BY <1>t, <2>2 DEF Waits
    <3>. QED
      BY <1>t, <2>2, <3>1, <3>2, WalletStep DEF memory, Brokers, Waits
  <2>3. joining \in 1 .. 4
    BY <1>t DEF Waits
  <2>. QED
    BY <1>11, <2>1, <2>2, <2>3 DEF Join
<1>. QED
  BY <1>1, <1>2, <1>3, <1>4, <1>5, <1>6, <1>7, <1>8, <1>9, <1>10, <1>11

LEMMA StepSession == ASSUME SessionInv, [Next]_vars PROVE SessionInv'
<1>1. CASE Next
  BY <1>1, CommandStep, MainStep DEF Next
<1>2. CASE UNCHANGED vars
  BY <1>2 DEF vars, memory, waiting, SessionInv, TypeOK, PhaseInv, GrinboxAddressStable,
              OpenIsFile, SuccessMeansAddress, IndexPersists
<1>. QED
  BY <1>1, <1>2

(* The inductive invariant of the session. *)
LEMMA SessionInvariant == Spec => []SessionInv
<1>. QED
  BY InitSession, StepSession, PTL DEF Spec

(* The address main shows is never another one than the one its mwcmq      *)
(* listener is on: derive_address_key refuses to run under it.             *)
THEOREM AddressIsListened == Spec => []GrinboxAddressStable
<1>1. SessionInv => GrinboxAddressStable
  BY DEF SessionInv
<1>. QED
  BY <1>1, SessionInvariant, PTL

(* The open wallet is the one of the seed file of its data path, wherever  *)
(* init and restore fail, and recover once complete has read the new file  *)
(* back: unlock locks before it opens.  A recover that fails before that   *)
(* leaves the old wallet open, until the next lock or unlock.              *)
THEOREM OpenWalletIsFile == Spec => []OpenIsFile
<1>1. SessionInv => OpenIsFile
  BY DEF SessionInv
<1>. QED
  BY <1>1, SessionInvariant, PTL

(* A command that reports success and shows the address shows the one of   *)
(* the open wallet at the configured index.                                *)
THEOREM SuccessShowsAddress == Spec => []SuccessMeansAddress
<1>1. SessionInv => SuccessMeansAddress
  BY DEF SessionInv
<1>. QED
  BY <1>1, SessionInvariant, PTL

(* The address in use is the one the next process derives, unless a        *)
(* `config' failed half-way.                                               *)
THEOREM AddressIndexPersists == Spec => []IndexPersists
<1>1. SessionInv => IndexPersists
  BY DEF SessionInv
<1>. QED
  BY <1>1, SessionInvariant, PTL

(* The threads that were joined have ended; before main joins the first    *)
(* one joining is 1.                                                       *)
JoinInv ==
    /\ phase # "joining" => joining = 1
    /\ \A i \in 1 .. 3 : i < joining => threads[Joined[i]] # "running"

LEMMA InitJoin == Init => JoinInv
  BY DEF Init, JoinInv

LEMMA StepJoin == ASSUME SessionInv, JoinInv, [Next]_vars PROVE JoinInv'
<1>. joining \in 1 .. 4 /\ threads \in [{"keybase", "owner", "foreign"} -> Thread]
  BY DEF SessionInv, TypeOK
<1>1. CASE End
  BY <1>1 DEF End, Forget, JoinInv
<1>2. CASE StartApis
  BY <1>2 DEF StartApis, JoinInv
<1>3. CASE ThreadEnds
  <2>1. PICK t \in DOMAIN threads, how \in {"ended", "panicked"} :
          threads' = [threads EXCEPT ![t] = how]
    BY <1>3 DEF ThreadEnds
  <2>2. \A i \in 1 .. 3 : threads[Joined[i]] # "running" => threads'[Joined[i]] # "running"
    BY <2>1 DEF Joined
  <2>. QED
    BY <1>3, <2>2 DEF ThreadEnds, JoinInv
<1>4. CASE Join /\ ~End
  <2>1. /\ joining <= 3 /\ joining' = joining + 1 /\ UNCHANGED << phase, threads >>
        /\ threads[Joined[joining]] # "running" /\ phase = "joining"
    BY <1>4 DEF Join
  <2>. QED
    BY <2>1 DEF JoinInv
<1>5. CASE UNCHANGED waiting /\ (phase' = phase \/ (phase # "joining" /\ phase' # "joining"))
  BY <1>5 DEF waiting, JoinInv
<1>6. CASE Command
  <2>1. CASE InitWallet \/ Restore \/ Recover
    BY <1>5, <2>1 DEF InitWallet, Restore, Recover, RecoverFails, Complete
  <2>2. CASE Lock \/ Unlock \/ AccountSwitch
    BY <1>5, <2>2 DEF Lock, Unlock, AccountSwitch
  <2>3. CASE ConfigCommand
    BY <1>1, <1>5, <2>3 DEF ConfigCommand, ConfigFails, ConfigDone, ConfigTorn
  <2>4. CASE ListenGrinbox \/ ListenMwcmqs \/ ListenKeybase
    BY <1>5, <2>4 DEF ListenGrinbox, ListenMwcmqs, ListenKeybase
  <2>5. CASE StopGrinbox \/ StopMwcmqs \/ StopKeybase
    BY <1>5, <2>5 DEF StopGrinbox, StopMwcmqs, StopKeybase
  <2>. QED
    BY <1>6, <2>1, <2>2, <2>3, <2>4, <2>5 DEF Command
<1>7. CASE Start \/ DeleteConfig \/ FirstCommand \/ StartUnlock \/ AutoStartMwcmqs
           \/ AutoStartKeybase \/ ListenerTurns \/ Exit
  <2>1. CASE Start \/ DeleteConfig
    BY <1>5, <2>1 DEF Start, DeleteConfig
  <2>2. CASE FirstCommand
    BY <1>1, <1>5, <2>2 DEF FirstCommand
  <2>3. CASE StartUnlock \/ AutoStartMwcmqs \/ AutoStartKeybase
    BY <1>5, <2>3 DEF StartUnlock, AutoStartMwcmqs, AutoStartKeybase
  <2>4. CASE ListenerTurns
    BY <1>5, <2>4 DEF ListenerTurns
  <2>5. CASE Exit
    BY <1>1, <2>5 DEF Exit
  <2>. QED
    BY <1>7, <2>1, <2>2, <2>3, <2>4, <2>5
<1>8. CASE UNCHANGED vars
  BY <1>5, <1>8 DEF vars
<1>. QED
  BY <1>1, <1>2, <1>3, <1>4, <1>6, <1>7, <1>8 DEF Next

(* A daemon is not gone while the keybase listener or an API serves,       *)
(* unless one of these threads panicked.                                   *)
THEOREM DaemonOutlivesThreads == Spec => DaemonServes
<1>. DEFINE Act == phase = "joining" /\ phase' = "off"
                   => \/ \A t \in DOMAIN threads : threads[t] # "running"
                      \/ \E t \in DOMAIN threads : threads[t] = "panicked"
<1>1. SessionInv /\ JoinInv /\ [Next]_vars => [Act]_vars
  <2>. SUFFICES ASSUME SessionInv, JoinInv, Next, phase = "joining", phase' = "off"
                PROVE  \/ \A t \in DOMAIN threads : threads[t] # "running"
                       \/ \E t \in DOMAIN threads : threads[t] = "panicked"
    OBVIOUS
  <2>1. joining \in 1 .. 4 /\ threads \in [{"keybase", "owner", "foreign"} -> Thread]
    BY DEF SessionInv, TypeOK
  <2>2. Join
    BY DEF Next, Start, DeleteConfig, FirstCommand, StartUnlock, AutoStartMwcmqs,
           AutoStartKeybase, StartApis, Command, ListenerTurns, Exit, ThreadEnds
  <2>3. joining > 3 \/ threads[Joined[joining]] = "panicked"
    BY <2>2 DEF Join
  <2>4. CASE joining > 3
    <3>1. threads[Joined[1]] # "running" /\ threads[Joined[2]] # "running"
          /\ threads[Joined[3]] # "running"
      BY <2>1, <2>4 DEF JoinInv
    <3>. QED
      BY <2>1, <3>1 DEF Joined
  <2>5. CASE joining <= 3 /\ threads[Joined[joining]] = "panicked"
    <3>1. Joined[joining] \in DOMAIN threads
      BY <2>1, <2>5 DEF Joined
    <3>. QED
      BY <2>5, <3>1
  <2>. QED
    BY <2>1, <2>3, <2>4, <2>5
<1>2. Spec => []JoinInv
  BY SessionInvariant, InitJoin, StepJoin, PTL DEF Spec
<1>. QED
  BY <1>1, <1>2, SessionInvariant, PTL DEF Spec, DaemonServes
=============================================================================
