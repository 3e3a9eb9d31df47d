------------------------------- MODULE Session -------------------------------
(***************************************************************************)
(* One process of mwc713 after another: main's start-up, the prompt's      *)
(* commands that touch the seed, the configuration, the wallet, the        *)
(* address key and the listeners' handles, and the daemon's joins.         *)
(*                                                                         *)
(* On disk: the configuration file and a seed per data path.  In memory:   *)
(* the configuration with the address key, which is never written          *)
(* (serde(skip)), the open wallet and the brokers main holds.  What the    *)
(* listeners' threads do is in the modules of the listeners; here they     *)
(* come up after `listen' has returned.  A command is one step with every  *)
(* place it can fail at.  The prompt runs one command at a time, and what  *)
(* a listener can do between a command's two critical sections, leave the  *)
(* wallet locked, is one of the outcomes of unlocking.                     *)
(***************************************************************************)
EXTENDS Integers

CONSTANTS
    Seeds,
    Paths,          \* data paths
    DEFAULT_PATH,   \* wallet713_data
    U32,            \* the number of values of a u32, scaled down for TLC
    None, Torn

ASSUME PathAssumption == DEFAULT_PATH \in Paths /\ None \notin Seeds \cup Paths
ASSUME U32Assumption == U32 \in Nat \ {0, 1}

Indexes == 0 .. U32 - 1
Keys    == [seed : Seeds, index : Indexes]
Opened  == [path : Paths, seed : Seeds, outlived : BOOLEAN]

ASSUME NoneAssumption ==
    /\ None \notin Keys /\ None \notin Opened
    /\ None \notin BOOLEAN /\ None \notin [key : Keys, running : BOOLEAN]
    /\ {None, Torn} \cap [path : Paths, index : Indexes] = {} /\ None # Torn

\* Threads main joins in daemon mode, in this order.
Joined == << "keybase", "owner", "foreign" >>
Thread == {"none", "running", "ended", "panicked"}

VARIABLES
    phase,      \* where main is, "off" when there is no process
    daemon,     \* runtime_mode
    seeds,      \* the seed file in each data path
    file,       \* the configuration file: a record, None or Torn
    config,     \* path and index are the file's as it was last read
    wallet,     \* the open wallet, None while it is locked; outlived: a
                \* recover that failed half-way took its seed file away
    grinbox,    \* the broker's key and whether it is running
    mwcmqs, keybase,  \* whether the broker is running, None without one
    threads,    \* the threads a daemon waits for
    joining,    \* the next of Joined
    slipped,    \* `config' failed: the new index is in memory only, or
                \* the file is lost
    said        \* the last command was a success that shows the address

memory   == << config, wallet, grinbox, mwcmqs, keybase, slipped, said >>
brokers  == << grinbox, mwcmqs, keybase >>
waiting  == << threads, joining >>
vars     == << phase, daemon, seeds, file, memory, waiting >>

NoConfig  == [path |-> DEFAULT_PATH, index |-> 0, key |-> None]
NoThreads == [t \in {"keybase", "owner", "foreign"} |-> "none"]

Forget ==
    /\ config' = NoConfig /\ wallet' = None
    /\ grinbox' = None /\ mwcmqs' = None /\ keybase' = None
    /\ slipped' = FALSE /\ said' = "other"
    /\ threads' = NoThreads /\ joining' = 1

End == phase' = "off" /\ Forget

Init ==
    /\ phase = "off" /\ daemon = FALSE
    /\ seeds = [p \in Paths |-> None]
    /\ file = None
    /\ config = NoConfig /\ wallet = None
    /\ grinbox = None /\ mwcmqs = None /\ keybase = None
    /\ slipped = FALSE /\ said = "other"
    /\ threads = NoThreads /\ joining = 1

-----------------------------------------------------------------------------
(* The wallet and the address key *)

(* Mutant: the wallet that was open stays open when unlocking fails. *)
UnlockOutcomesKeepOld(s) ==
    {[wallet |-> wallet, ok |-> FALSE]}
    \cup {[wallet |-> [path |-> config.path, seed |-> x, outlived |-> FALSE], ok |-> b] :
            x \in {s} \ {None}, b \in BOOLEAN}

(***************************************************************************)
(* What Wallet::unlock may leave and return with s in the seed file of the *)
(* configured path.  It locks the wallet first; create_wallet_instance may *)
(* fail before and, over the updater, after the backend is set.            *)
(***************************************************************************)
UnlockOutcomes(s) ==
    {[wallet |-> None, ok |-> FALSE]}
    \cup {[wallet |-> [path |-> config.path, seed |-> x, outlived |-> FALSE], ok |-> b] :
            x \in {s} \ {None}, b \in BOOLEAN}

(* Mutant: a listener on the address is not looked for. *)
MayDeriveUnguarded(w) == w # None

\* derive_address_key takes the listener of mwcmq for the only one.
MayDerive(w) == grinbox = None /\ w # None

KeyOf(w, index) == [seed |-> w.seed, index |-> index]

(* Mutant: the key is taken from the wallet that was open before. *)
OpenAndDeriveEarly(s, synced) ==
    \E o \in UnlockOutcomes(s) :
        /\ wallet' = o.wallet
        /\ IF o.ok /\ synced /\ MayDerive(o.wallet)
           THEN /\ config' = [config EXCEPT !.key =
                       KeyOf(IF wallet = None THEN o.wallet ELSE wallet, config.index)]
                /\ said' = "wallet"
           ELSE said' = "other" /\ UNCHANGED config

\* The wallet is opened, then, if nothing has failed, the key derived.
OpenAndDerive(s, synced) ==
    \E o \in UnlockOutcomes(s) :
        /\ wallet' = o.wallet
        /\ IF o.ok /\ synced /\ MayDerive(o.wallet)
           THEN config' = [config EXCEPT !.key = KeyOf(o.wallet, config.index)]
                /\ said' = "wallet"
           ELSE said' = "other" /\ UNCHANGED config

(***************************************************************************)
(* The end of init, restore and recover: complete opens the wallet, what   *)
(* follows needs the node (restore_state, update_tip_as_last_scanned), and *)
(* the key is derived last.                                                *)
(***************************************************************************)
Complete(s) ==
    /\ \E synced \in BOOLEAN : OpenAndDerive(s, synced)
    /\ UNCHANGED << phase, daemon, file, brokers, slipped, waiting >>

NoListener == keybase = None /\ grinbox = None

\* init reads the seed that is there, or makes one and writes it in complete.
InitWallet ==
    /\ NoListener
    /\ \E s \in IF seeds[config.path] = None THEN Seeds ELSE {seeds[config.path]} :
        /\ seeds' = [seeds EXCEPT ![config.path] = s]
        /\ Complete(s)

Restore ==
    /\ NoListener
    /\ seeds[config.path] # None
    /\ Complete(seeds[config.path])
    /\ UNCHANGED seeds

(***************************************************************************)
(* restore_seed replaces the seed file under the wallet that is open.      *)
(* Nothing is locked before complete has read the file back, as init has:  *)
(* a recover that fails until then leaves the old wallet open, over the    *)
(* new file, over the old one or, where the library had already moved that *)
(* away when it failed, over none.                                         *)
(***************************************************************************)
RecoverFails ==
    /\ \E s \in Seeds \cup {None, seeds[config.path]} :
        /\ seeds' = [seeds EXCEPT ![config.path] = s]
        /\ IF wallet # None /\ wallet.path = config.path
           THEN wallet' = [wallet EXCEPT !.outlived = (s # wallet.seed)]
           ELSE UNCHANGED wallet
    /\ said' = "other"
    /\ UNCHANGED << phase, daemon, file, config, brokers, slipped, waiting >>

Recover ==
    /\ NoListener
    /\ \/ RecoverFails
       \/ \E s \in Seeds :
            /\ seeds' = [seeds EXCEPT ![config.path] = s]
            /\ Complete(s)

Lock ==
    /\ NoListener
    /\ wallet' = None /\ said' = "other"
    /\ UNCHANGED << phase, daemon, seeds, file, config, brokers, slipped, waiting >>

Unlock ==
    /\ wallet = None
    /\ OpenAndDerive(seeds[config.path], TRUE)
    /\ UNCHANGED << phase, daemon, seeds, file, brokers, slipped, waiting >>

\* account switch unlocks again and derives nothing.
AccountSwitch ==
    /\ \E o \in UnlockOutcomes(seeds[config.path]) : wallet' = o.wallet
    /\ said' = "other"
    /\ UNCHANGED << phase, daemon, seeds, file, config, brokers, slipped, waiting >>

-----------------------------------------------------------------------------
(* config *)

\* In a release build the sum wraps.
NextIndex == (config.index + 1) % U32

Or(x, default) == IF x = None THEN default ELSE x

(* Mutant: the file is written before the new index is put in. *)
WrittenEarly(dir, index) == [path |-> Or(dir, file.path), index |-> file.index]

\* do_config reads the file, changes what was given and writes it back.
Written(dir, index) == [path |-> Or(dir, file.path), index |-> Or(index, file.index)]

\* An argument is refused, the file is not read, or not written to its end.
ConfigFails(index) ==
    /\ config' = [config EXCEPT !.index = Or(index, @)]
    /\ file' \in {file, Torn}
    /\ slipped' = (slipped \/ index # None \/ file' = Torn)
    /\ said' = "other"
    /\ UNCHANGED << phase, daemon, seeds, wallet, brokers, waiting >>

\* The key is gone with the configuration that is replaced.
ConfigDone(dir, index) ==
    LET read    == Written(dir, index)
        derives == index # None /\ MayDerive(wallet)
    IN  /\ file # Torn
        /\ file' = read
        /\ config' = [path |-> read.path, index |-> Or(index, read.index),
                      key |-> IF derives THEN KeyOf(wallet, Or(index, read.index)) ELSE None]
        /\ slipped' = FALSE
        /\ said' = IF derives THEN "generate" ELSE "other"
        /\ UNCHANGED << phase, daemon, seeds, wallet, brokers, waiting >>

\* The process ends after File::create has emptied the file.
ConfigTorn ==
    /\ file' = Torn
    /\ End
    /\ UNCHANGED << daemon, seeds >>

ConfigCommand ==
    \/ \E dir \in Paths \cup {None}, index \in Indexes \cup {None, NextIndex} :
        ConfigFails(index) \/ ConfigDone(dir, index)
    \/ ConfigTorn

-----------------------------------------------------------------------------
(* Listeners *)

\* A locked wallet is unlocked with no passphrase before a listener starts.
OpenForListener(opened) ==
    IF wallet # None
    THEN opened = TRUE /\ UNCHANGED wallet
    ELSE \E o \in UnlockOutcomes(seeds[config.path]) : wallet' = o.wallet /\ opened = o.ok

GrinboxRunning == IF grinbox = None THEN FALSE ELSE grinbox.running

ListenGrinbox ==
    /\ ~GrinboxRunning
    /\ \E opened \in BOOLEAN :
        /\ OpenForListener(opened)
        /\ \/ opened /\ config.key # None /\ grinbox' = [key |-> config.key, running |-> FALSE]
           \/ (~opened \/ config.key = None) /\ UNCHANGED grinbox
    /\ said' = "other"
    /\ UNCHANGED << phase, daemon, seeds, file, config, mwcmqs, keybase, slipped, waiting >>

StartMwcmqs ==
    /\ \E opened \in BOOLEAN :
        /\ OpenForListener(opened)
        /\ \/ opened /\ config.key # None /\ mwcmqs' = FALSE
           \/ (~opened \/ config.key = None) /\ UNCHANGED mwcmqs
    /\ said' = "other"

ListenMwcmqs ==
    /\ mwcmqs # TRUE
    /\ StartMwcmqs
    /\ UNCHANGED << phase, daemon, seeds, file, config, grinbox, keybase, slipped, waiting >>

StartKeybase ==
    /\ \E opened \in BOOLEAN :
        /\ OpenForListener(opened)
        /\ \/ opened /\ keybase' = FALSE
           \/ UNCHANGED keybase         \* there is no keybase, too
    /\ said' = "other"

ListenKeybase ==
    /\ keybase # TRUE
    /\ StartKeybase
    /\ UNCHANGED << phase, daemon, seeds, file, config, grinbox, mwcmqs, slipped, waiting >>

\* A broker that is not running is kept: ClosedListener.
StopGrinbox ==
    /\ GrinboxRunning
    /\ grinbox' = None /\ said' = "other"
    /\ UNCHANGED << phase, daemon, seeds, file, config, wallet, mwcmqs, keybase, slipped, waiting >>

StopMwcmqs ==
    /\ mwcmqs = TRUE
    /\ mwcmqs' \in {None, TRUE}         \* the relay was not reached
    /\ said' = "other"
    /\ UNCHANGED << phase, daemon, seeds, file, config, wallet, grinbox, keybase, slipped, waiting >>

StopKeybase ==
    /\ keybase = TRUE
    /\ keybase' = None /\ said' = "other"
    /\ UNCHANGED << phase, daemon, seeds, file, config, wallet, grinbox, mwcmqs, slipped, waiting >>

\* The listeners' threads; only the one of mwcmqs clears its flag by itself.
ListenerTurns ==
    /\ phase # "off"
    /\ \/ /\ grinbox # None /\ grinbox' = [grinbox EXCEPT !.running = TRUE]
          /\ UNCHANGED << mwcmqs, keybase >>
       \/ mwcmqs # None /\ mwcmqs' = ~mwcmqs /\ UNCHANGED << grinbox, keybase >>
       \/ keybase # None /\ keybase' = TRUE /\ UNCHANGED << grinbox, mwcmqs >>
    /\ UNCHANGED << phase, daemon, seeds, file, config, wallet, slipped, said, waiting >>

-----------------------------------------------------------------------------
(* main *)

\* welcome reads the configuration or writes the default; a torn one panics.
Start ==
    /\ phase = "off" /\ file # Torn
    /\ daemon' \in BOOLEAN
    /\ file' = IF file = None THEN [path |-> DEFAULT_PATH, index |-> 0] ELSE file
    /\ config' = [path |-> file'.path, index |-> file'.index, key |-> None]
    /\ phase' = IF seeds[file'.path] = None THEN "first" ELSE "unlock"
    /\ UNCHANGED << seeds, wallet, brokers, slipped, said, waiting >>

\* What a user does about a configuration that cannot be read.
DeleteConfig ==
    /\ phase = "off" /\ file # None
    /\ file' = None
    /\ UNCHANGED << phase, daemon, seeds, memory, waiting >>

\* Without a seed: init or recover, and the process ends if that fails.
FirstCommand ==
    /\ phase = "first"
    /\ \E s \in Seeds :
        /\ seeds' = [seeds EXCEPT ![config.path] = s]
        /\ \/ /\ OpenAndDerive(s, TRUE)
              /\ said' = "wallet"
              /\ phase' = "unlock"
              /\ UNCHANGED << brokers, slipped, waiting >>
           \/ End
    /\ UNCHANGED << daemon, file >>

\* With -p a wrong passphrase ends the process, without it is no error.
StartUnlock ==
    /\ phase = "unlock"
    /\ phase' = "mwcmqs"
    /\ \/ wallet # None /\ UNCHANGED << config, wallet, said >>
       \/ wallet = None /\ OpenAndDerive(seeds[config.path], TRUE)
    /\ UNCHANGED << daemon, seeds, file, brokers, slipped, waiting >>

AutoStartMwcmqs ==
    /\ phase = "mwcmqs"
    /\ phase' = "keybase"
    /\ StartMwcmqs \/ UNCHANGED << wallet, mwcmqs, said >>
    /\ UNCHANGED << daemon, seeds, file, config, grinbox, keybase, slipped, waiting >>

AutoStartKeybase ==
    /\ phase = "keybase"
    /\ phase' = "apis"
    /\ StartKeybase \/ UNCHANGED << wallet, keybase, said >>
    /\ UNCHANGED << daemon, seeds, file, config, grinbox, mwcmqs, slipped, waiting >>

\* At the prompt nothing will wait for the threads.
StartApis ==
    /\ phase = "apis"
    /\ phase' = IF daemon THEN "joining" ELSE "prompt"
    /\ IF daemon
       THEN \E owner, foreign \in {"none", "running"} :
                threads' = [keybase |-> IF keybase = None THEN "none" ELSE "running",
                            owner |-> owner, foreign |-> foreign]
       ELSE UNCHANGED threads
    /\ UNCHANGED << daemon, seeds, file, memory, joining >>

\* The process is killed, told to exit or exits by itself while it starts.
Exit ==
    /\ phase \notin {"off", "joining"}
    /\ End
    /\ UNCHANGED << daemon, seeds, file >>

ThreadEnds ==
    /\ phase = "joining"
    /\ \E t \in DOMAIN threads, how \in {"ended", "panicked"} :
        threads[t] = "running" /\ threads' = [threads EXCEPT ![t] = how]
    /\ UNCHANGED << phase, daemon, seeds, file, memory, joining >>

(* Mutant: the last thread is not waited for. *)
JoinButLast ==
    /\ phase = "joining"
    /\ joining \in 1 .. 2 => threads[Joined[joining]] # "running"
    /\ IF joining > 2 \/ threads[Joined[joining]] = "panicked"
       THEN End
       ELSE joining' = joining + 1 /\ UNCHANGED << phase, memory, threads >>
    /\ UNCHANGED << daemon, seeds, file >>

\* handle.join().unwrap() for one thread after another.
Join ==
    /\ phase = "joining"
    /\ joining \in 1 .. 3 => threads[Joined[joining]] # "running"
    /\ IF joining > 3 \/ threads[Joined[joining]] = "panicked"
       THEN End
       ELSE joining' = joining + 1 /\ UNCHANGED << phase, memory, threads >>
    /\ UNCHANGED << daemon, seeds, file >>

Command ==
    /\ phase = "prompt"
    /\ \/ InitWallet \/ Restore \/ Recover \/ Lock \/ Unlock \/ AccountSwitch
       \/ ConfigCommand
       \/ ListenGrinbox \/ ListenMwcmqs \/ ListenKeybase
       \/ StopGrinbox \/ StopMwcmqs \/ StopKeybase

Next ==
    \/ Start \/ DeleteConfig \/ FirstCommand \/ StartUnlock
    \/ AutoStartMwcmqs \/ AutoStartKeybase \/ StartApis
    \/ Command \/ ListenerTurns \/ Exit
    \/ ThreadEnds \/ Join

Spec == Init /\ [][Next]_vars

-----------------------------------------------------------------------------
(* Properties *)

Phases == {"off", "first", "unlock", "mwcmqs", "keybase", "apis", "prompt", "joining"}

(* The values of a process' state, which the proofs start from.            *)
TypeOK ==
    /\ phase \in Phases /\ daemon \in BOOLEAN
    /\ seeds \in [Paths -> Seeds \cup {None}]
    /\ file \in [path : Paths, index : Indexes] \cup {None, Torn}
    /\ config \in [path : Paths, index : Indexes, key : Keys \cup {None}]
    /\ wallet \in Opened \cup {None}
    /\ grinbox \in [key : Keys, running : BOOLEAN] \cup {None}
    /\ mwcmqs \in BOOLEAN \cup {None} /\ keybase \in BOOLEAN \cup {None}
    /\ threads \in [{"keybase", "owner", "foreign"} -> Thread]
    /\ joining \in 1 .. 4
    /\ slipped \in BOOLEAN /\ said \in {"wallet", "generate", "other"}

(* The address main shows and hands out is never another one than the one  *)
(* its mwcmq listener is on, whatever order commands come and fail in.     *)
GrinboxAddressStable == grinbox # None => config.key \in {None, grinbox.key}

(* The open wallet is the one of its seed file.  Recover replaces the file *)
(* under an open wallet and may fail at each step after that; only where   *)
(* it fails before complete locks, and only until the next lock or unlock, *)
(* does the old wallet outlive its file.  A failed unlock never leaves it. *)
OpenIsFile == wallet # None /\ ~wallet.outlived => seeds[wallet.path] = wallet.seed

(* A command that reports success and shows the address shows the one of   *)
(* the wallet that is open, which is the configured one, and of the index  *)
(* that is configured; `config -g' has that index in the file as well.     *)
SuccessMeansAddress ==
    said # "other" =>
        /\ wallet # None
        /\ config.key = KeyOf(wallet, config.index)
        /\ said = "wallet" => wallet.seed = seeds[config.path]
        /\ said = "generate" => file.index = config.index

(* The index of the address in use is the one the next process will derive *)
(* at, it "will persist in between mwc713 sessions" (docs/usage.md), but   *)
(* for a `config' that failed between putting it into memory and the file. *)
IndexPersists ==
    config.key # None /\ ~slipped => file \notin {None, Torn} /\ config.key.index = file.index

(* A daemon is not gone while a thread it joins serves, unless a thread    *)
(* joined before it panicked.                                              *)
DaemonServes ==
    [][ phase = "joining" /\ phase' = "off"
        => \/ \A t \in DOMAIN threads : threads[t] # "running"
           \/ \E t \in DOMAIN threads : threads[t] = "panicked" ]_vars
=============================================================================
