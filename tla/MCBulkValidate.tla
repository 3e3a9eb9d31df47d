--------------------------- MODULE MCBulkValidate ---------------------------
(* Wallets made by every history of at most MaxTxs transactions of Kinds. *)
EXTENDS BulkValidate

CONSTANT MaxTxs

\* values: of the outputs made; kept: they are in the database.
Kind(type, values, kept, uuid, slate, excess) ==
    [type |-> type, values |-> values, kept |-> kept,
     uuid |-> uuid, slate |-> slate, excess |-> excess]

Kinds ==
    { Kind("TxReceived", << 1 >>, TRUE, TRUE, TRUE, FALSE),
      Kind("TxReceived", << 2 >>, TRUE, TRUE, FALSE, TRUE),
      Kind("TxReceivedCancelled", << 1 >>, FALSE, TRUE, FALSE, FALSE),
      Kind("TxReceivedCancelled", << 4 >>, TRUE, TRUE, FALSE, FALSE),
      Kind("ConfirmedCoinbase", << 4 >>, TRUE, FALSE, FALSE, FALSE),
      Kind("TxSent", << >>, TRUE, TRUE, TRUE, FALSE),
      Kind("TxSent", << >>, TRUE, TRUE, FALSE, FALSE),
      Kind("TxSent", << 2 >>, TRUE, FALSE, FALSE, FALSE),
      Kind("TxSent", << 1, 2 >>, TRUE, TRUE, FALSE, TRUE),
      Kind("TxSentCancelled", << 4 >>, FALSE, TRUE, TRUE, FALSE) }

Sum(s) == LET f[k \in 0 .. Len(s)] == IF k = 0 THEN 0 ELSE f[k - 1] + s[k]
          IN  f[Len(s)]

\* A self-transfer has one kernel for the send and the receive after it; so has
\* an invoice that is paid, cancelled and paid again, whose two entries lead to
\* one stored slate.
KernelAt(h, t) ==
    IF t > 1 /\ \/ h[t].type = "TxReceived" /\ h[t - 1].type = "TxSent"
                \/ h[t].type = "TxSent" /\ h[t - 1].type = "TxSentCancelled"
    THEN t - 1 ELSE t

TxsOf(h) ==
    [t \in DOMAIN h |->
        [type |-> h[t].type, num_outputs |-> Len(h[t].values),
         amount_credited |-> Sum(h[t].values), uuid |-> h[t].uuid,
         slate  |-> IF h[t].slate THEN {KernelAt(h, t)} ELSE {},
         excess |-> IF h[t].excess THEN {KernelAt(h, t)} ELSE {}]]

\* <<t, k>>: the k-th output of transaction t, in the order they are made.
Made(h) ==
    LET f[t \in 0 .. Len(h)] ==
            IF t = 0 THEN << >>
            ELSE f[t - 1] \o [k \in 1 .. Len(h[t].values) |-> << t, k >>]
    IN  f[Len(h)]

\* The outputs of h that were kept, spent by what `by' or a later send says.
OutsOf(h, spent) ==
    LET m    == Made(h)
        all  == [n \in DOMAIN m |->
                    [value |-> h[m[n][1]].values[m[n][2]], n_child |-> n,
                     tx_log_entry |-> IF spent > m[n][1] THEN spent ELSE m[n][1],
                     by |-> m[n][1]]]
    IN  SelectSeq(all, LAMBDA o : h[o.by].kept)

Spenders(h) == {0} \cup {t \in DOMAIN h : h[t].type \in Sent}

\* The same outputs in the other order, as after a race at recovery.
Backwards(s) == [i \in DOMAIN s |-> s[Len(s) + 1 - i]]

Histories == UNION {[1 .. n -> Kinds] : n \in 0 .. MaxTxs}

MCWallets ==
    UNION {LET ordered == {OutsOf(h, s) : s \in Spenders(h)}
               outs    == ordered \cup {Backwards(o) : o \in ordered}
           IN  {[txs |-> TxsOf(h), outs |-> o] : o \in outs} : h \in Histories}

MCKernels == 1 .. MaxTxs
=============================================================================
