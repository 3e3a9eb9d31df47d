---------------------------- MODULE BulkValidate ----------------------------
(***************************************************************************)
(* txs_bulk_validate: the transactions of the active account are matched   *)
(* with its outputs by amount (calc_best_merge), then with the kernels and *)
(* the outputs a node has dumped into two files, and reported.             *)
(*                                                                         *)
(* A transaction and an output are known by their place in the database's  *)
(* order, a kernel by a number; commitments are one per output.  The field *)
(* `by' of an output, the transaction that made it, is not known to the    *)
(* program: the properties compare its guess with it.                      *)
(***************************************************************************)
EXTENDS Integers, Sequences, Functions

CONSTANTS
    Wallets,    \* [txs, outs]: the contents a wallet's database may have
    Kernels,    \* the kernels transactions may have
    U32         \* the number of values of a u32, scaled down for TLC

Received  == {"TxReceived", "TxReceivedCancelled"}
Sent      == {"TxSent", "TxSentCancelled"}
Cancelled == {"TxReceivedCancelled", "TxSentCancelled"}
TxTypes   == Received \cup Sent \cup {"ConfirmedCoinbase"}

\* slate: the kernels of the slate stored under the transaction's uuid, none
\* when there is no such file; excess: the kernel in the log entry, if any.
TxLogEntry ==
    [type : TxTypes, num_outputs : Nat, amount_credited : Nat,
     uuid : BOOLEAN, slate : SUBSET Kernels, excess : SUBSET Kernels]

\* tx_log_entry is 0 where the database has none.
OutputData ==
    [value : Nat, n_child : Nat, tx_log_entry : Nat, by : Nat]

ASSUME WalletsAssumption ==
    \A w \in Wallets : w \in [txs : Seq(TxLogEntry), outs : Seq(OutputData)]

ASSUME U32Assumption == U32 \in Nat \ {0, 1, 2}

VARIABLES
    pc,             \* where the call is
    wallet,         \* the database, read under the backend's mutex
    popped,         \* how many transactions were popped
    outputs,        \* the outputs not assigned yet
    next_canlelled, \* the next output's n_child leaves a gap
    res,            \* transactions with the outputs assigned to them
    txs,            \* TransactionInfo of what is reported
    kernel_to_tx, output_to_tx, tx_id_to_tx, \* indices into txs
    swept,          \* how many entries of txs the last loop has seen
    chain           \* what the node's two dumps hold

vars == << pc, wallet, popped, outputs, next_canlelled, res, txs,
           kernel_to_tx, output_to_tx, tx_id_to_tx, swept, chain >>

merging    == << outputs, next_canlelled, res, popped >>
indices    == << kernel_to_tx, output_to_tx, tx_id_to_tx >>
collecting == << txs, indices >>

Flags    == {"K", "O", "S"}
Warnings == {"outputs", "no outputs", "uuid", "slate", "kernels"}

NoIndex == [k \in {} |-> 0]

Init ==
    /\ pc = "merge"
    /\ wallet \in Wallets
    /\ popped = 0
    /\ outputs = [o \in 1 .. Len(wallet.outs) |-> o]
    /\ next_canlelled = TRUE
    /\ res = << >>
    /\ txs = << >>
    /\ kernel_to_tx = NoIndex
    /\ output_to_tx = NoIndex
    /\ tx_id_to_tx = NoIndex
    /\ swept = 0
    /\ chain = [kernels |-> {}, outputs |-> {}]

(***************************************************************************)
(* calc_best_merge                                                         *)
(***************************************************************************)

Value(o)  == wallet.outs[o].value
NChild(o) == wallet.outs[o].n_child

\* The sum of the outputs of s.
Amount(s) ==
    LET sum[k \in 0 .. Len(s)] == IF k = 0 THEN 0 ELSE sum[k - 1] + Value(s[k])
    IN  sum[Len(s)]

\* The n consecutive outputs from place i on.
Window(s, i, n) == [k \in 1 .. n |-> s[i + k - 1]]

(* Mutant: of the window that was assigned only the first output is removed. *)
WithoutFirstOfWindow(s, i, n) ==
    [k \in 1 .. Len(s) - 1 |-> IF k < i THEN s[k] ELSE s[k + 1]]

\* VecDeque::remove(i), n times.
WithoutWindow(s, i, n) ==
    [k \in 1 .. Len(s) - n |-> IF k < i THEN s[k] ELSE s[k + n]]

(* Mutant: the windows start one place too late. *)
MatchesButFirst(tx) ==
    {i \in 2 .. Len(outputs) - (tx.num_outputs - 1) :
        Amount(Window(outputs, i, tx.num_outputs)) = tx.amount_credited}

\* The places where n consecutive outputs make up the amount.
Matches(tx) ==
    {i \in 1 .. Len(outputs) - (tx.num_outputs - 1) :
        Amount(Window(outputs, i, tx.num_outputs)) = tx.amount_credited}

First(S) == CHOOSE i \in S : \A j \in S : i <= j

\* The transaction at the front of the queue.
Popping == pc = "merge" /\ popped < Len(wallet.txs)

Tx == wallet.txs[popped + 1]

Push(outs, success) ==
    res' = Append(res, [tx |-> popped + 1, outs |-> outs, success |-> success])

PopsTransaction ==
    /\ popped' = popped + 1
    /\ UNCHANGED << pc, wallet, swept, chain, collecting >>

\* The first transaction reported decides for itself whether its output is left.
Skipping(tx) ==
    IF tx.type \in Cancelled /\ res = << >>
    THEN tx.amount_credited # Value(outputs[1])
    ELSE next_canlelled

\* There is no output left to look at.
MergeNothingLeft ==
    /\ Popping
    /\ outputs = << >>
    /\ Push(<< >>, FALSE)
    /\ PopsTransaction
    /\ UNCHANGED << outputs, next_canlelled >>

MergeNoOutputs ==
    /\ Popping
    /\ outputs # << >>
    /\ Tx.num_outputs = 0
    /\ Push(<< >>, TRUE)
    /\ PopsTransaction
    /\ UNCHANGED << outputs, next_canlelled >>

Searching == Popping /\ outputs # << >> /\ Tx.num_outputs > 0

\* A cancelled transaction whose output was deleted, by the gap in n_child.
MergeCancelled ==
    /\ Searching
    /\ Tx.type \in Cancelled
    /\ Skipping(Tx)
    /\ next_canlelled' = TRUE
    /\ Push(<< >>, TRUE)
    /\ PopsTransaction
    /\ UNCHANGED outputs

Looked ==
    /\ Searching
    /\ Tx.type \in Cancelled => ~ Skipping(Tx)

\* n_child is a u32; the subtraction of a release build wraps around.
Gap(o, last) == (NChild(o) - NChild(last)) % U32 > 1

MergeFound ==
    /\ Looked
    /\ Tx.num_outputs <= Len(outputs)
    /\ Matches(Tx) # {}
    /\ LET i    == First(Matches(Tx))
           n    == Tx.num_outputs
           left == WithoutWindow(outputs, i, n)
       IN  /\ outputs' = left
           /\ next_canlelled' = (i <= Len(left) => Gap(left[i], outputs[i + n - 1]))
           /\ Push(Window(outputs, i, n), TRUE)
    /\ PopsTransaction

(* Mutant: a transaction whose outputs are not found is not pushed. *)
MergeNotFoundUnpushed ==
    /\ Looked
    /\ Tx.num_outputs <= Len(outputs)
    /\ Matches(Tx) = {}
    /\ next_canlelled' = Skipping(Tx)
    /\ PopsTransaction
    /\ UNCHANGED << res, outputs >>

MergeNotFound ==
    /\ Looked
    /\ Tx.num_outputs <= Len(outputs)
    /\ Matches(Tx) = {}
    /\ next_canlelled' = Skipping(Tx)
    /\ Push(<< >>, FALSE)
    /\ PopsTransaction
    /\ UNCHANGED outputs

\* More outputs than are left: the transaction is popped and not pushed.
MergeTooFew ==
    /\ Looked
    /\ Tx.num_outputs > Len(outputs)
    /\ next_canlelled' = Skipping(Tx)
    /\ PopsTransaction
    /\ UNCHANGED << res, outputs >>

MergeDone ==
    /\ pc = "merge"
    /\ popped = Len(wallet.txs)
    /\ pc' = "collect"
    /\ UNCHANGED << wallet, swept, chain, merging, collecting >>

(***************************************************************************)
(* The entries of the report and the indices into them                     *)
(***************************************************************************)

(* Mutant: received transactions are looked up by kernel too. *)
KernelsOfAny(tx) == tx.slate \cup tx.excess

\* The kernels a transaction is looked up by: none if it was received.
KernelsOf(tx) ==
    IF tx.type \in Received THEN {} ELSE tx.slate \cup tx.excess

(* Mutant: a transaction whose outputs were not found is not remarked on. *)
WarningsButOutputs(tx, success) ==
    LET sent == tx.type = "TxSent" IN
      (IF tx.type \in {"ConfirmedCoinbase", "TxReceived"} /\ tx.num_outputs = 0
       THEN {"no outputs"} ELSE {})
      \cup (IF sent /\ ~ tx.uuid /\ tx.excess = {} THEN {"uuid"} ELSE {})
      \cup (IF sent /\ tx.uuid /\ tx.slate = {} THEN {"slate"} ELSE {})
      \cup (IF sent /\ KernelsOf(tx) = {} THEN {"kernels"} ELSE {})

WarningsOf(tx, success) ==
    LET sent == tx.type = "TxSent" IN
      (IF ~ success THEN {"outputs"} ELSE {})
      \cup (IF tx.type \in {"ConfirmedCoinbase", "TxReceived"} /\ tx.num_outputs = 0
            THEN {"no outputs"} ELSE {})
      \cup (IF sent /\ ~ tx.uuid /\ tx.excess = {} THEN {"uuid"} ELSE {})
      \cup (IF sent /\ tx.uuid /\ tx.slate = {} THEN {"slate"} ELSE {})
      \cup (IF sent /\ KernelsOf(tx) = {} THEN {"kernels"} ELSE {})

\* HashMap::insert of every key: an earlier entry under it is replaced.
Insert(index, keys, to) ==
    [k \in DOMAIN index \cup keys |-> IF k \in keys THEN to ELSE index[k]]

Collect ==
    /\ pc = "collect"
    /\ Len(txs) < Len(res)
    /\ LET idx   == Len(txs) + 1
           entry == res[idx]
           tx    == wallet.txs[entry.tx]
       IN  /\ txs' = Append(txs, [tx        |-> entry.tx,
                                  outs      |-> entry.outs,
                                  kernels   |-> KernelsOf(tx),
                                  validated |-> FALSE,
                                  flags     |-> {},
                                  warnings  |-> WarningsOf(tx, entry.success)])
           /\ kernel_to_tx' = Insert(kernel_to_tx, KernelsOf(tx), idx)
           /\ output_to_tx' = Insert(output_to_tx, Range(entry.outs), idx)
           /\ tx_id_to_tx'  = Insert(tx_id_to_tx, {entry.tx}, idx)
    /\ UNCHANGED << pc, wallet, swept, chain, merging >>

CollectDone ==
    /\ pc = "collect"
    /\ Len(txs) = Len(res)
    /\ pc' = "kernels"
    /\ UNCHANGED << wallet, swept, chain, merging, collecting >>

(***************************************************************************)
(* The node's dumps.  A dump may be missing or have a line that is no      *)
(* UTF-8, which panics; the result file may not be created or a write to   *)
(* it fail: the call then ends without a report, or with a part of one.    *)
(***************************************************************************)

Mark(info, flag) == [info EXCEPT !.validated = TRUE, !.flags = @ \cup {flag}]

\* The entries that lines of a dump lead to through an index.
Marked(index, lines, flag) ==
    LET hit == {index[l] : l \in lines \cap DOMAIN index}
    IN  [i \in DOMAIN txs |-> IF i \in hit THEN Mark(txs[i], flag) ELSE txs[i]]

ReadKernels ==
    /\ pc = "kernels"
    /\ \E lines \in SUBSET Kernels :
          /\ chain' = [chain EXCEPT !.kernels = lines]
          /\ txs' = Marked(kernel_to_tx, lines, "K")
    /\ pc' = "outputs"
    /\ UNCHANGED << wallet, swept, merging, indices >>

ReadOutputs ==
    /\ pc = "outputs"
    /\ \E lines \in SUBSET (1 .. Len(wallet.outs)) :
          /\ chain' = [chain EXCEPT !.outputs = lines]
          /\ txs' = Marked(output_to_tx, lines, "O")
    /\ pc' = "sweep"
    /\ UNCHANGED << wallet, swept, merging, indices >>

CallFails ==
    /\ pc \in {"kernels", "outputs", "report"}
    /\ pc' = "failed"
    /\ UNCHANGED << wallet, swept, chain, merging, collecting >>

(***************************************************************************)
(* Cut-through: an output that is not on the chain was spent by a send     *)
(* that is.                                                                *)
(***************************************************************************)

SpentByValidated(o) ==
    LET id == wallet.outs[o].tx_log_entry IN
    /\ id \in DOMAIN tx_id_to_tx
    /\ LET info == txs[tx_id_to_tx[id]]
       IN  wallet.txs[info.tx].type \in Sent /\ info.validated

(* Mutant: the first entry of the list is left out. *)
SweepButFirst ==
    /\ pc = "sweep"
    /\ swept < Len(txs)
    /\ LET i == swept + 1 IN
         txs' = IF /\ i > 1
                   /\ ~ txs[i].validated
                   /\ \E o \in Range(txs[i].outs) : SpentByValidated(o)
                THEN [txs EXCEPT ![i] = Mark(@, "S")]
                ELSE txs
    /\ swept' = swept + 1
    /\ UNCHANGED << pc, wallet, chain, merging, indices >>

Sweep ==
    /\ pc = "sweep"
    /\ swept < Len(txs)
    /\ LET i == swept + 1 IN
         txs' = IF /\ ~ txs[i].validated
                   /\ \E o \in Range(txs[i].outs) : SpentByValidated(o)
                THEN [txs EXCEPT ![i] = Mark(@, "S")]
                ELSE txs
    /\ swept' = swept + 1
    /\ UNCHANGED << pc, wallet, chain, merging, indices >>

SweepDone ==
    /\ pc = "sweep"
    /\ swept = Len(txs)
    /\ pc' = "report"
    /\ UNCHANGED << wallet, swept, chain, merging, collecting >>

\* One line per entry of txs is written to the result file.
Report ==
    /\ pc = "report"
    /\ pc' = "done"
    /\ UNCHANGED << wallet, swept, chain, merging, collecting >>

Merge ==
    \/ MergeNothingLeft \/ MergeNoOutputs \/ MergeCancelled
    \/ MergeFound \/ MergeNotFound \/ MergeTooFew \/ MergeDone

Validate ==
    \/ Collect \/ CollectDone
    \/ ReadKernels \/ ReadOutputs \/ CallFails
    \/ Sweep \/ SweepDone \/ Report

Next == Merge \/ Validate

Spec == Init /\ [][Next]_vars

(***************************************************************************)
(* Properties                                                              *)
(***************************************************************************)

Outputs == 1 .. Len(wallet.outs)

TypeOK ==
    /\ pc \in {"merge", "collect", "kernels", "outputs", "sweep", "report",
               "done", "failed"}
    /\ wallet \in [txs : Seq(TxLogEntry), outs : Seq(OutputData)]
    /\ popped \in 0 .. Len(wallet.txs)
    /\ outputs \in Seq(Outputs)
    /\ next_canlelled \in BOOLEAN
    /\ res \in Seq([tx : 1 .. popped, outs : Seq(Outputs),
                    success : BOOLEAN])
    /\ txs \in Seq([tx : 1 .. Len(wallet.txs), outs : Seq(Outputs),
                    kernels : SUBSET Kernels, validated : BOOLEAN,
                    flags : SUBSET Flags, warnings : SUBSET Warnings])
    /\ swept \in 0 .. Len(txs)
    /\ chain \in [kernels : SUBSET Kernels, outputs : SUBSET Outputs]

Injective(s) == \A i, j \in DOMAIN s : s[i] = s[j] => i = j

\* Removing windows from the queue and handing them out neither loses nor
\* duplicates an output: each is in the queue or with one transaction, once.
OutputsPartitioned ==
    /\ Injective(outputs)
    /\ \A j \in DOMAIN res :
          /\ Injective(res[j].outs)
          /\ Range(res[j].outs) \cap Range(outputs) = {}
          /\ \A k \in DOMAIN res :
                j # k => Range(res[j].outs) \cap Range(res[k].outs) = {}
    /\ \A o \in Outputs :
          o \in Range(outputs) \/ \E j \in DOMAIN res : o \in Range(res[j].outs)

\* The report keeps the log's order, has no transaction twice, and leaves one
\* out only if it has more outputs than are left over: the merge pushes nothing
\* for such a transaction.
ReportComplete ==
    /\ \A j, k \in DOMAIN res : j < k => res[j].tx < res[k].tx
    /\ \A t \in 1 .. popped :
          \/ \E j \in DOMAIN res : res[j].tx = t
          \/ wallet.txs[t].num_outputs > Len(outputs)

MadeBy(t) == {o \in Outputs : wallet.outs[o].by = t}

\* The choices of n outputs, each in the order of the database.
InOrder(n) ==
    {q \in [1 .. n -> Outputs] : \A j, k \in 1 .. n : j < k => q[j] < q[k]}

\* Outputs are in the order of the transactions that made them, and only a
\* transaction's own outputs add up to what it was credited.
Unambiguous ==
    /\ \A o, p \in Outputs : o < p => wallet.outs[o].by <= wallet.outs[p].by
    /\ \A t \in DOMAIN wallet.txs : \A q \in InOrder(wallet.txs[t].num_outputs) :
          Amount(q) = wallet.txs[t].amount_credited => Range(q) \subseteq MadeBy(t)

\* A transaction that stands and made outputs.
Standing(t) == wallet.txs[t].type \notin Cancelled /\ MadeBy(t) # {}

\* Its log entry tells their number and their sum.
Booked ==
    \A t \in DOMAIN wallet.txs :
        Standing(t) =>
            \E q \in InOrder(wallet.txs[t].num_outputs) :
               Range(q) = MadeBy(t) /\ Amount(q) = wallet.txs[t].amount_credited

\* Where amounts are unambiguous calc_best_merge finds the truth: no transaction
\* is given another one's output, and one that stands is reported with the
\* outputs it made, whatever was cancelled and deleted in between and whichever
\* gaps n_child has.
MergeExact ==
    pc = "collect" /\ Unambiguous =>
        /\ \A j \in DOMAIN res : Range(res[j].outs) \subseteq MadeBy(res[j].tx)
        /\ Booked =>
              \A t \in DOMAIN wallet.txs :
                 Standing(t) =>
                    \E j \in DOMAIN res :
                       res[j].tx = t /\ Range(res[j].outs) = MadeBy(t)

\* The entry can be looked up by kernel k: received transactions are not.
HasKernel(info, k) ==
    LET tx == wallet.txs[info.tx] IN
    tx.type \notin Received /\ k \in tx.slate \cup tx.excess

\* A kernel on the chain counts for the last entry that has it.
KernelOnChain(i) ==
    \E k \in chain.kernels :
        /\ HasKernel(txs[i], k)
        /\ \A j \in DOMAIN txs : j > i => ~ HasKernel(txs[j], k)

OutputOnChain(info) == Range(info.outs) \cap chain.outputs # {}

\* The verdict rests on evidence and on all of it.  A kernel on the chain counts
\* for a transaction that was not received (docs/bulk_transaction_validation.md:13
\* has every kernel looked up, the code none of a received one), and where two
\* entries share it (an invoice paid, cancelled and paid again) for the later one
\* only, which has replaced the other in kernel_to_tx; an output on the chain counts for the
\* transaction it was given to; nothing else does but a send on the chain that
\* spent one of its outputs.
VerdictMatchesEvidence ==
    pc \in {"sweep", "report", "done"} =>
        \A i \in DOMAIN txs :
            /\ KernelOnChain(i) \/ OutputOnChain(txs[i]) => txs[i].validated
            /\ txs[i].validated =>
                  \/ KernelOnChain(i)
                  \/ OutputOnChain(txs[i])
                  \/ \E o \in Range(txs[i].outs) : SpentByValidated(o)

\* One pass over the list is enough for the cut-throughs unless a send owes its
\* own verdict to that pass: no transaction is left over with an output that a
\* validated send spent.
SweepClosed ==
    pc = "done" /\ (\A i \in DOMAIN txs :
                       wallet.txs[txs[i].tx].type \in Sent => "S" \notin txs[i].flags) =>
        \A i \in DOMAIN txs :
            ~ txs[i].validated => \A o \in Range(txs[i].outs) : ~ SpentByValidated(o)

\* A transaction that stands and for which there was nothing to look up, be it
\* that its outputs were not found, that it has none, or that a send has no
\* slate or kernel, is not reported as not validated without a warning.
NoSilentGap ==
    pc = "done" =>
        \A i \in DOMAIN txs :
            /\ ~ txs[i].validated
            /\ txs[i].kernels = {} /\ txs[i].outs = << >>
            /\ wallet.txs[txs[i].tx].type \notin Cancelled
            => txs[i].warnings # {}
=============================================================================
