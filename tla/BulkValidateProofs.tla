------------------------- MODULE BulkValidateProofs -------------------------
(***************************************************************************)
(* For every wallet: calc_best_merge neither loses nor duplicates an       *)
(* output, and leaves out of the report only what it cannot serve; the     *)
(* report warns where it has nothing to go by, one sweep is enough, and    *)
(* the verdicts are what the dumps say.  Where amounts are unambiguous,    *)
(* the merge finds the outputs each transaction made.                      *)
(***************************************************************************)
EXTENDS BulkValidate, TLAPS, WellFoundedInduction, FiniteSetTheorems

\* A set of natural numbers that is not empty has a first element.
LEMMA FirstLeast ==
    ASSUME NEW S, S \subseteq Nat, S # {}
    PROVE  First(S) \in S /\ \A y \in S : First(S) <= y
<1> DEFINE R == OpToRel(<, Nat)
<1>1. IsWellFoundedOn(R, Nat)
  BY NatLessThanWellFounded
<1>2. PICK x \in S : \A y \in S : ~ (<< y, x >> \in R)
  <2> HIDE DEF R
  <2> QED BY <1>1, WFMin
<1>3. \A y \in S : ~ (y < x)
  BY <1>2 DEF OpToRel
<1>4. \A y \in S : x <= y
  BY <1>3
<1> QED BY <1>4 DEF First

LEMMA FirstIn ==
    ASSUME NEW S, S \subseteq Nat, S # {}
    PROVE  First(S) \in S
BY FirstLeast

LEMMA SeqWider ==
    ASSUME NEW E, NEW F, E \subseteq F, NEW s \in Seq(E)
    PROVE  s \in Seq(F)
<1>1. s \in [1 .. Len(s) -> F] /\ Len(s) \in Nat
  OBVIOUS
<1> QED BY <1>1

(***************************************************************************)
(* Taking a window out of a sequence without duplicates                    *)
(***************************************************************************)

LEMMA WindowType ==
    ASSUME NEW T, NEW s \in Seq(T), NEW n \in Nat, n > 0, n <= Len(s),
           NEW i \in 1 .. Len(s) - (n - 1)
    PROVE  /\ Window(s, i, n) \in Seq(T)
           /\ Len(Window(s, i, n)) = n
           /\ DOMAIN Window(s, i, n) = 1 .. n
           /\ \A k \in 1 .. n : Window(s, i, n)[k] = s[i + k - 1]
           /\ WithoutWindow(s, i, n) \in Seq(T)
           /\ Len(WithoutWindow(s, i, n)) = Len(s) - n
           /\ DOMAIN WithoutWindow(s, i, n) = 1 .. Len(s) - n
<1>1. \A k \in 1 .. n : i + k - 1 \in 1 .. Len(s)
  OBVIOUS
<1>2. \A k \in 1 .. n : s[i + k - 1] \in T
  BY <1>1
<1>3. Window(s, i, n) \in [1 .. n -> T]
  BY <1>2 DEF Window
<1>4. \A k \in 1 .. Len(s) - n : k \in 1 .. Len(s) /\ k + n \in 1 .. Len(s)
  OBVIOUS
<1>5. \A k \in 1 .. Len(s) - n : (IF k < i THEN s[k] ELSE s[k + n]) \in T
  BY <1>4
<1>6. WithoutWindow(s, i, n) \in [1 .. Len(s) - n -> T]
  BY <1>5 DEF WithoutWindow
<1>7. Len(s) - n \in Nat
  OBVIOUS
<1> QED BY <1>3, <1>6, <1>7 DEF Window

LEMMA WindowParts ==
    ASSUME NEW T, NEW s \in Seq(T), Injective(s),
           NEW n \in Nat, n > 0, n <= Len(s),
           NEW i \in 1 .. Len(s) - (n - 1)
    PROVE  /\ Injective(Window(s, i, n))
           /\ Injective(WithoutWindow(s, i, n))
           /\ Range(Window(s, i, n)) \cap Range(WithoutWindow(s, i, n)) = {}
           /\ Range(s) = Range(Window(s, i, n)) \cup Range(WithoutWindow(s, i, n))
<1> DEFINE w == Window(s, i, n)
           r == WithoutWindow(s, i, n)
           P(k) == IF k < i THEN k ELSE k + n
<1>1. /\ DOMAIN w = 1 .. n
      /\ DOMAIN r = 1 .. Len(s) - n
      /\ DOMAIN s = 1 .. Len(s)
      /\ Len(s) \in Nat
  BY WindowType
<1>0. \A a, b \in DOMAIN s : s[a] = s[b] => a = b
  BY DEF Injective
<1>2. \A k \in 1 .. n : w[k] = s[i + k - 1] /\ i + k - 1 \in DOMAIN s
  BY <1>1 DEF Window
<1>3. \A k \in 1 .. Len(s) - n : r[k] = s[P(k)] /\ P(k) \in DOMAIN s
  BY <1>1 DEF WithoutWindow
<1>4. \A j, k \in 1 .. Len(s) - n : P(j) = P(k) => j = k
  BY <1>1
<1>5. \A j \in 1 .. n, k \in 1 .. Len(s) - n : i + j - 1 # P(k)
  BY <1>1
<1>6. \A p \in DOMAIN s :
         \/ \E j \in 1 .. n : p = i + j - 1
         \/ \E k \in 1 .. Len(s) - n : p = P(k)
  <2> SUFFICES ASSUME NEW p \in DOMAIN s
               PROVE  \/ \E j \in 1 .. n : p = i + j - 1
                      \/ \E k \in 1 .. Len(s) - n : p = P(k)
    OBVIOUS
  <2>1. CASE p < i
    <3>1. p \in 1 .. Len(s) - n /\ p = P(p)
      BY <2>1, <1>1
    <3> QED BY <3>1
  <2>2. CASE p >= i /\ p < i + n
    <3>1. p - i + 1 \in 1 .. n /\ p = i + (p - i + 1) - 1
      BY <2>2, <1>1
    <3> QED BY <3>1
  <2>3. CASE p >= i + n
    <3>1. p - n \in 1 .. Len(s) - n /\ p = P(p - n)
      BY <2>3, <1>1
    <3> QED BY <3>1
  <2> QED BY <2>1, <2>2, <2>3, <1>1
<1> HIDE DEF w, r, P
<1>7. Injective(w)
  <2> SUFFICES ASSUME NEW a \in 1 .. n, NEW b \in 1 .. n, w[a] = w[b]
               PROVE  a = b
    BY <1>1 DEF Injective
  <2>1. i + a - 1 = i + b - 1
    BY <1>0, <1>2
  <2> QED BY <2>1
<1>8. Injective(r)
  <2> SUFFICES ASSUME NEW a \in 1 .. Len(s) - n, NEW b \in 1 .. Len(s) - n, r[a] = r[b]
               PROVE  a = b
    BY <1>1 DEF Injective
  <2>1. P(a) = P(b)
    BY <1>0, <1>3
  <2> QED BY <2>1, <1>4
<1>9. Range(w) \cap Range(r) = {}
  <2> SUFFICES ASSUME NEW a \in 1 .. n, NEW b \in 1 .. Len(s) - n, w[a] = r[b]
               PROVE  FALSE
    BY <1>1 DEF Range
  <2>1. i + a - 1 = P(b)
    BY <1>0, <1>2, <1>3
  <2> QED BY <2>1, <1>5
<1>10. Range(s) \subseteq Range(w) \cup Range(r)
  BY <1>1, <1>2, <1>3, <1>6 DEF Range
<1>11. Range(w) \subseteq Range(s)
  BY <1>1, <1>2 DEF Range
<1>12. Range(r) \subseteq Range(s)
  BY <1>1, <1>3 DEF Range
<1> QED BY <1>7, <1>8, <1>9, <1>10, <1>11, <1>12 DEF w, r

(***************************************************************************)
(* Pushing one entry                                                       *)
(***************************************************************************)

Entry(t, outs, success) == [tx |-> t, outs |-> outs, success |-> success]

LEMMA PushTyped ==
    ASSUME TypeOK, Popping, PopsTransaction,
           NEW w \in Seq(Outputs), NEW b \in BOOLEAN,
           outputs' \in Seq(Outputs), next_canlelled' \in BOOLEAN,
           res' = Append(res, Entry(popped + 1, w, b))
    PROVE  TypeOK'
<1> USE DEF TypeOK, Popping, PopsTransaction, collecting, indices, Outputs
<1>1. popped' \in 0 .. Len(wallet.txs)
  OBVIOUS
<1>2. res \in Seq([tx : 1 .. popped', outs : Seq(Outputs), success : BOOLEAN])
  <2> DEFINE E == [tx : 1 .. popped, outs : Seq(Outputs), success : BOOLEAN]
             F == [tx : 1 .. popped', outs : Seq(Outputs), success : BOOLEAN]
  <2>1. E \subseteq F
    BY <1>1
  <2>2. res \in Seq(E)
    OBVIOUS
  <2> HIDE DEF E, F
  <2>5. res \in Seq(F)
    BY <2>1, <2>2, SeqWider
  <2> QED BY <2>5 DEF F
<1>3. Entry(popped + 1, w, b) \in [tx : 1 .. popped', outs : Seq(Outputs), success : BOOLEAN]
  BY DEF Entry
<1>4. res' \in Seq([tx : 1 .. popped', outs : Seq(Outputs), success : BOOLEAN])
  BY <1>2, <1>3
<1>5. Outputs' = Outputs
  OBVIOUS
<1>6. /\ pc' = pc /\ wallet' = wallet /\ swept' = swept /\ chain' = chain /\ txs' = txs
  OBVIOUS
<1> QED BY <1>1, <1>4, <1>5, <1>6

\* The entry takes w from the queue and leaves r in it.
LEMMA PushPartitions ==
    ASSUME TypeOK, OutputsPartitioned, wallet' = wallet,
           NEW t, NEW b, NEW w \in Seq(Outputs), NEW r \in Seq(Outputs),
           Injective(w), Injective(r),
           Range(w) \cap Range(r) = {}, Range(outputs) = Range(w) \cup Range(r),
           outputs' = r, res' = Append(res, Entry(t, w, b))
    PROVE  OutputsPartitioned'
<1> DEFINE n == Len(res) + 1
<1>1. /\ DOMAIN res = 1 .. Len(res)
      /\ Len(res) \in Nat
      /\ DOMAIN res' = 1 .. n
      /\ \A j \in 1 .. Len(res) : res'[j] = res[j]
      /\ res'[n].outs = w
  BY DEF TypeOK, Entry
<1>2. Outputs' = Outputs
  BY DEF Outputs
<1>3. \A j \in 1 .. Len(res) :
         /\ Injective(res[j].outs)
         /\ Range(res[j].outs) \cap Range(outputs) = {}
         /\ \A k \in 1 .. Len(res) :
               j # k => Range(res[j].outs) \cap Range(res[k].outs) = {}
  BY <1>1 DEF OutputsPartitioned
<1>4. \A j \in 1 .. n :
         /\ Injective(res'[j].outs)
         /\ Range(res'[j].outs) \cap Range(outputs') = {}
  BY <1>1, <1>3
<1>5. ASSUME NEW j \in 1 .. n, NEW k \in 1 .. n, j # k
      PROVE  Range(res'[j].outs) \cap Range(res'[k].outs) = {}
  <2>1. CASE j = n
    BY <2>1, <1>1, <1>3, <1>5
  <2>2. CASE k = n
    BY <2>2, <1>1, <1>3, <1>5
  <2>3. CASE j # n /\ k # n
    <3>1. j \in 1 .. Len(res) /\ k \in 1 .. Len(res)
      BY <2>3, <1>1
    <3> QED BY <3>1, <1>1, <1>3, <1>5
  <2> QED BY <2>1, <2>2, <2>3
<1>6. ASSUME NEW o \in Outputs
      PROVE  o \in Range(outputs') \/ \E j \in DOMAIN res' : o \in Range(res'[j].outs)
  <2>1. CASE o \in Range(outputs)
    BY <2>1, <1>1
  <2>2. CASE \E j \in DOMAIN res : o \in Range(res[j].outs)
    BY <2>2, <1>1
  <2> QED BY <2>1, <2>2 DEF OutputsPartitioned
<1> QED BY <1>1, <1>2, <1>4, <1>5, <1>6 DEF OutputsPartitioned

LEMMA PushReports ==
    ASSUME TypeOK, ReportComplete, Popping, PopsTransaction,
           NEW w, NEW b, outputs' \in Seq(Outputs), Len(outputs') <= Len(outputs),
           res' = Append(res, Entry(popped + 1, w, b))
    PROVE  ReportComplete'
<1> DEFINE n == Len(res) + 1
<1>1. /\ DOMAIN res = 1 .. Len(res)
      /\ Len(res) \in Nat
      /\ DOMAIN res' = 1 .. n
      /\ \A j \in 1 .. Len(res) : res'[j] = res[j] /\ res[j].tx \in 1 .. popped
      /\ res'[n].tx = popped + 1
  <2> DEFINE E == [tx : 1 .. popped, outs : Seq(Outputs), success : BOOLEAN]
  <2>1. res \in Seq(E)
    BY DEF TypeOK
  <2>2. \A e \in E : e.tx \in 1 .. popped
    OBVIOUS
  <2> HIDE DEF E
  <2>3. /\ DOMAIN res = 1 .. Len(res)
        /\ Len(res) \in Nat
        /\ \A j \in 1 .. Len(res) : res[j] \in E
    BY <2>1
  <2>4. /\ DOMAIN res' = 1 .. n
        /\ \A j \in 1 .. Len(res) : res'[j] = res[j]
        /\ res'[n].tx = popped + 1
    BY <2>1, <2>3 DEF Entry
  <2> QED BY <2>2, <2>3, <2>4
<1>2. popped \in Nat /\ popped' = popped + 1 /\ wallet' = wallet
  BY DEF TypeOK, PopsTransaction
<1>3. \A j, k \in DOMAIN res' : j < k => res'[j].tx < res'[k].tx
  BY <1>1, <1>2 DEF ReportComplete
<1>4. ASSUME NEW t \in 1 .. popped'
      PROVE  \/ \E j \in DOMAIN res' : res'[j].tx = t
             \/ wallet'.txs[t].num_outputs > Len(outputs')
  <2>1. CASE t = popped + 1
    BY <2>1, <1>1
  <2>2. CASE t \in 1 .. popped /\ \E j \in DOMAIN res : res[j].tx = t
    BY <2>2, <1>1
  <2>3. CASE t \in 1 .. popped /\ wallet.txs[t].num_outputs > Len(outputs)
    <3>0. wallet.txs \in Seq(TxLogEntry) /\ popped \in 0 .. Len(wallet.txs)
      BY DEF TypeOK
    <3>2. wallet.txs[t] \in TxLogEntry
      BY <3>0, <2>3
    <3>1. /\ wallet.txs[t].num_outputs \in Nat
          /\ Len(outputs) \in Nat /\ Len(outputs') \in Nat
      <4>1. wallet.txs[t].num_outputs \in Nat
        BY <3>2 DEF TxLogEntry
      <4>2. outputs \in Seq(Outputs)
        BY DEF TypeOK
      <4>3. Len(outputs) \in Nat /\ Len(outputs') \in Nat
        BY <4>2
      <4> QED BY <4>1, <4>3
    <3> QED BY <3>1, <2>3, <1>2
  <2> QED BY <2>1, <2>2, <2>3, <1>2 DEF ReportComplete
<1> QED BY <1>3, <1>4 DEF ReportComplete

(***************************************************************************)
(* The invariant                                                           *)
(***************************************************************************)

Inv == TypeOK /\ OutputsPartitioned /\ ReportComplete

LEMMA InitInv == Init => Inv
<1> SUFFICES ASSUME Init PROVE Inv
  OBVIOUS
<1>1. wallet \in [txs : Seq(TxLogEntry), outs : Seq(OutputData)]
  BY WalletsAssumption DEF Init
<1>2. Len(wallet.outs) \in Nat /\ Len(wallet.txs) \in Nat
  BY <1>1
<1>3. outputs \in [1 .. Len(wallet.outs) -> Outputs]
  BY DEF Init, Outputs
<1>4. outputs \in Seq(Outputs) /\ DOMAIN outputs = Outputs
  BY <1>2, <1>3 DEF Outputs
<1>5. TypeOK
  BY <1>1, <1>2, <1>4 DEF Init, TypeOK
<1>6. OutputsPartitioned
  <2>1. \A o \in Outputs : outputs[o] = o
    BY DEF Init, Outputs
  <2>2. Injective(outputs)
    BY <1>4, <2>1 DEF Injective
  <2>3. \A o \in Outputs : o \in Range(outputs)
    BY <1>4, <2>1 DEF Range
  <2>4. DOMAIN res = {}
    BY DEF Init
  <2> QED BY <2>2, <2>3, <2>4 DEF OutputsPartitioned
<1>7. ReportComplete
  BY DEF Init, ReportComplete
<1> QED BY <1>5, <1>6, <1>7 DEF Inv

\* An entry without outputs.
LEMMA PushNothing ==
    ASSUME Inv, Popping, PopsTransaction, UNCHANGED outputs,
           next_canlelled' \in BOOLEAN, NEW b \in BOOLEAN, Push(<< >>, b)
    PROVE  Inv'
<1>1. res' = Append(res, Entry(popped + 1, << >>, b))
  BY DEF Push, Entry
<1>2. outputs \in Seq(Outputs) /\ << >> \in Seq(Outputs) /\ Len(outputs) \in Nat
  BY DEF Inv, TypeOK
<1>3. TypeOK'
  BY <1>1, <1>2, PushTyped DEF Inv
<1>4. Injective(<< >>) /\ Range(<< >>) = {}
  BY DEF Injective, Range
<1>5. OutputsPartitioned'
  <2>1. wallet' = wallet /\ Injective(outputs)
    BY DEF PopsTransaction, Inv, OutputsPartitioned
  <2> QED BY <1>1, <1>2, <1>4, <2>1, PushPartitions DEF Inv
<1>6. ReportComplete'
  BY <1>1, <1>2, PushReports DEF Inv
<1> QED BY <1>3, <1>5, <1>6 DEF Inv

LEMMA TxTyped ==
    ASSUME TypeOK, Popping
    PROVE  Tx \in TxLogEntry /\ Tx.num_outputs \in Nat
<1>1. wallet.txs \in Seq(TxLogEntry) /\ popped + 1 \in 1 .. Len(wallet.txs)
  BY DEF TypeOK, Popping
<1>2. Tx \in TxLogEntry
  BY <1>1 DEF Tx
<1> QED BY <1>2 DEF TxLogEntry

LEMMA SkippingBoolean ==
    ASSUME TypeOK, NEW tx PROVE Skipping(tx) \in BOOLEAN
BY DEF Skipping, TypeOK

LEMMA FoundInv == Inv /\ MergeFound => Inv'
<1> SUFFICES ASSUME Inv, MergeFound PROVE Inv'
  OBVIOUS
<1> DEFINE n == Tx.num_outputs
           i == First(Matches(Tx))
<1>1. Popping /\ PopsTransaction /\ wallet' = wallet
  BY DEF MergeFound, Looked, Searching, PopsTransaction
<1>2. n \in Nat /\ n > 0 /\ n <= Len(outputs)
  BY <1>1, TxTyped DEF Inv, MergeFound, Looked, Searching
<1>3. outputs \in Seq(Outputs) /\ Len(outputs) \in Nat /\ Injective(outputs)
  BY DEF Inv, TypeOK, OutputsPartitioned
<1>4. i \in 1 .. Len(outputs) - (n - 1)
  <2>1. Matches(Tx) \subseteq Nat /\ Matches(Tx) # {}
    BY <1>2, <1>3 DEF Matches, MergeFound
  <2>2. i \in Matches(Tx)
    BY <2>1, FirstIn
  <2> QED BY <2>2 DEF Matches
<1> DEFINE w == Window(outputs, i, n)
           r == WithoutWindow(outputs, i, n)
<1>5. /\ outputs' = r
      /\ res' = Append(res, Entry(popped + 1, w, TRUE))
      /\ next_canlelled' \in BOOLEAN
  BY DEF MergeFound, Push, Entry
<1> HIDE DEF n, i
<1>6. /\ w \in Seq(Outputs) /\ r \in Seq(Outputs)
      /\ Len(r) = Len(outputs) - n
  BY <1>2, <1>3, <1>4, WindowType
<1>7. /\ Injective(w) /\ Injective(r)
      /\ Range(w) \cap Range(r) = {} /\ Range(outputs) = Range(w) \cup Range(r)
  BY <1>2, <1>3, <1>4, WindowParts
<1> HIDE DEF w, r
<1>8. TypeOK'
  BY <1>1, <1>5, <1>6, PushTyped DEF Inv
<1>9. OutputsPartitioned'
  BY <1>1, <1>5, <1>6, <1>7, PushPartitions DEF Inv
<1>10. Len(outputs') <= Len(outputs)
  BY <1>2, <1>3, <1>5, <1>6
<1>11. ReportComplete'
  BY <1>1, <1>5, <1>6, <1>10, PushReports DEF Inv
<1> QED BY <1>8, <1>9, <1>11 DEF Inv

LEMMA TooFewInv == Inv /\ MergeTooFew => Inv'
<1> SUFFICES ASSUME Inv, MergeTooFew PROVE Inv'
  OBVIOUS
<1>1. Popping /\ PopsTransaction /\ UNCHANGED << res, outputs, wallet, pc, swept, chain, txs >>
  BY DEF MergeTooFew, Looked, Searching, PopsTransaction, collecting, indices
<1>2. popped \in Nat /\ popped' = popped + 1 /\ popped' \in 0 .. Len(wallet.txs)
  BY <1>1 DEF Inv, TypeOK, Popping, PopsTransaction
<1>3. next_canlelled' \in BOOLEAN
  BY SkippingBoolean DEF MergeTooFew, Inv
<1>4. TypeOK'
  <2> DEFINE E == [tx : 1 .. popped, outs : Seq(Outputs), success : BOOLEAN]
             F == [tx : 1 .. popped', outs : Seq(Outputs), success : BOOLEAN]
  <2>1. E \subseteq F
    BY <1>2
  <2>2. res \in Seq(E)
    BY DEF Inv, TypeOK
  <2> HIDE DEF E, F
  <2>4. res \in Seq(F)
    BY <2>1, <2>2, SeqWider
  <2>5. Outputs' = Outputs
    BY <1>1 DEF Outputs
  <2> QED BY <1>1, <1>2, <1>3, <2>4, <2>5 DEF F, Inv, TypeOK
<1>5. OutputsPartitioned'
  BY <1>1 DEF Inv, OutputsPartitioned, Outputs
<1>6. ReportComplete'
  <2>1. wallet.txs[popped + 1].num_outputs > Len(outputs)
    BY DEF MergeTooFew, Tx
  <2> QED BY <1>1, <1>2, <2>1 DEF Inv, ReportComplete
<1> QED BY <1>4, <1>5, <1>6 DEF Inv

LEMMA MergeInv == Inv /\ Merge => Inv'
<1> SUFFICES ASSUME Inv, Merge PROVE Inv'
  OBVIOUS
<1>0. next_canlelled \in BOOLEAN
  BY DEF Inv, TypeOK
<1>1. CASE MergeNothingLeft
  BY <1>0, <1>1, PushNothing DEF MergeNothingLeft
<1>2. CASE MergeNoOutputs
  BY <1>0, <1>2, PushNothing DEF MergeNoOutputs
<1>3. CASE MergeCancelled
  BY <1>3, PushNothing DEF MergeCancelled, Searching
<1>4. CASE MergeFound
  BY <1>4, FoundInv
<1>5. CASE MergeNotFound
  BY <1>5, PushNothing, SkippingBoolean DEF MergeNotFound, Looked, Searching, Inv
<1>6. CASE MergeTooFew
  BY <1>6, TooFewInv
<1>7. CASE MergeDone
  <2>1. UNCHANGED << wallet, popped, outputs, next_canlelled, res, txs, swept, chain >>
        /\ pc' = "collect"
    BY <1>7 DEF MergeDone, merging, collecting, indices
  <2> QED BY <2>1 DEF Inv, TypeOK, OutputsPartitioned, ReportComplete, Outputs
<1> QED BY <1>1, <1>2, <1>3, <1>4, <1>5, <1>6, <1>7 DEF Merge

\* What follows the merge changes the entries of the report only.
LEMMA ReportTyped ==
    ASSUME Inv, UNCHANGED << wallet, merging >>,
           pc' \in {"merge", "collect", "kernels", "outputs", "sweep", "report",
                    "done", "failed"},
           txs' \in Seq([tx : 1 .. Len(wallet.txs), outs : Seq(Outputs),
                         kernels : SUBSET Kernels, validated : BOOLEAN,
                         flags : SUBSET Flags, warnings : SUBSET Warnings]),
           swept' \in 0 .. Len(txs'),
           chain' \in [kernels : SUBSET Kernels, outputs : SUBSET Outputs]
    PROVE  Inv'
<1>1. UNCHANGED << wallet, popped, outputs, next_canlelled, res >>
  BY DEF merging
<1>2. Outputs' = Outputs
  BY <1>1 DEF Outputs
<1>3. TypeOK'
  BY <1>1, <1>2 DEF Inv, TypeOK
<1>4. OutputsPartitioned' /\ ReportComplete'
  BY <1>1, <1>2 DEF Inv, OutputsPartitioned, ReportComplete
<1> QED BY <1>3, <1>4 DEF Inv

LEMMA MarkedTyped ==
    ASSUME TypeOK, NEW index, NEW lines, NEW f \in Flags
    PROVE  /\ Marked(index, lines, f) \in
                 Seq([tx : 1 .. Len(wallet.txs), outs : Seq(Outputs),
                      kernels : SUBSET Kernels, validated : BOOLEAN,
                      flags : SUBSET Flags, warnings : SUBSET Warnings])
           /\ Len(Marked(index, lines, f)) = Len(txs)
<1> DEFINE I == [tx : 1 .. Len(wallet.txs), outs : Seq(Outputs),
                 kernels : SUBSET Kernels, validated : BOOLEAN,
                 flags : SUBSET Flags, warnings : SUBSET Warnings]
<1>1. txs \in Seq(I)
  BY DEF TypeOK
<1>2. \A info \in I : Mark(info, f) \in I
  BY DEF Mark
<1> HIDE DEF I
<1>3. \A i \in DOMAIN txs : txs[i] \in I /\ Mark(txs[i], f) \in I
  BY <1>1, <1>2
<1>4. DOMAIN txs = 1 .. Len(txs) /\ Len(txs) \in Nat
  BY <1>1
<1>5. Marked(index, lines, f) \in [1 .. Len(txs) -> I]
  BY <1>3, <1>4 DEF Marked
<1>6. Marked(index, lines, f) \in Seq(I) /\ Len(Marked(index, lines, f)) = Len(txs)
  BY <1>4, <1>5
<1> QED BY <1>6 DEF I

LEMMA ValidateInv == Inv /\ Validate => Inv'
<1> SUFFICES ASSUME Inv, Validate PROVE Inv'
  OBVIOUS
<1> DEFINE I == [tx : 1 .. Len(wallet.txs), outs : Seq(Outputs),
                 kernels : SUBSET Kernels, validated : BOOLEAN,
                 flags : SUBSET Flags, warnings : SUBSET Warnings]
           C == [kernels : SUBSET Kernels, outputs : SUBSET Outputs]
<1>0. /\ TypeOK
      /\ txs \in Seq(I) /\ swept \in 0 .. Len(txs) /\ chain \in C
      /\ Len(txs) \in Nat
  BY DEF Inv, TypeOK
<1>1. CASE Collect
  <2> DEFINE e  == res[Len(txs) + 1]
             tx == wallet.txs[e.tx]
             x  == [tx |-> e.tx, outs |-> e.outs, kernels |-> KernelsOf(tx),
                    validated |-> FALSE, flags |-> {},
                    warnings |-> WarningsOf(tx, e.success)]
  <2>1. /\ res \in Seq([tx : 1 .. popped, outs : Seq(Outputs), success : BOOLEAN])
        /\ Len(txs) + 1 \in 1 .. Len(res)
        /\ popped \in 0 .. Len(wallet.txs)
        /\ wallet.txs \in Seq(TxLogEntry)
    BY <1>0, <1>1 DEF Collect, TypeOK
  <2>2. e \in [tx : 1 .. popped, outs : Seq(Outputs), success : BOOLEAN]
    <3> DEFINE E == [tx : 1 .. popped, outs : Seq(Outputs), success : BOOLEAN]
    <3>1. res \in Seq(E)
      BY <2>1
    <3> HIDE DEF E
    <3>2. e \in E
      BY <2>1, <3>1
    <3> QED BY <3>2 DEF E
  <2>3. e.tx \in 1 .. Len(wallet.txs) /\ e.outs \in Seq(Outputs)
    BY <2>1, <2>2
  <2>4. tx \in TxLogEntry
    BY <2>1, <2>3
  <2>5. KernelsOf(tx) \in SUBSET Kernels
    BY <2>4 DEF KernelsOf, TxLogEntry
  <2>6. WarningsOf(tx, e.success) \in SUBSET Warnings
    BY DEF WarningsOf, Warnings
  <2>7. x \in I
    BY <2>3, <2>5, <2>6
  <2>8. /\ txs' = Append(txs, x) /\ swept' = swept /\ chain' = chain /\ pc' = "collect"
        /\ UNCHANGED << wallet, merging >>
    BY <1>1 DEF Collect
  <2> HIDE DEF x, I
  <2>9. txs' \in Seq(I) /\ Len(txs') = Len(txs) + 1
    BY <1>0, <2>7, <2>8
  <2> QED BY <1>0, <2>8, <2>9, ReportTyped DEF I
<1>2. CASE ReadKernels
  <2>1. PICK lines \in SUBSET Kernels :
           /\ chain' = [chain EXCEPT !.kernels = lines]
           /\ txs' = Marked(kernel_to_tx, lines, "K")
    BY <1>2 DEF ReadKernels
  <2>2. chain' \in C
    BY <1>0, <2>1
  <2>3. txs' \in Seq(I) /\ Len(txs') = Len(txs)
    BY <1>0, <2>1, MarkedTyped DEF Flags
  <2>4. pc' = "outputs" /\ swept' = swept /\ UNCHANGED << wallet, merging >>
    BY <1>2 DEF ReadKernels
  <2> QED BY <1>0, <2>2, <2>3, <2>4, ReportTyped
<1>3. CASE ReadOutputs
  <2>1. PICK lines \in SUBSET Outputs :
           /\ chain' = [chain EXCEPT !.outputs = lines]
           /\ txs' = Marked(output_to_tx, lines, "O")
    BY <1>3 DEF ReadOutputs, Outputs
  <2>2. chain' \in C
    BY <1>0, <2>1
  <2>3. txs' \in Seq(I) /\ Len(txs') = Len(txs)
    BY <1>0, <2>1, MarkedTyped DEF Flags
  <2>4. pc' = "sweep" /\ swept' = swept /\ UNCHANGED << wallet, merging >>
    BY <1>3 DEF ReadOutputs
  <2> QED BY <1>0, <2>2, <2>3, <2>4, ReportTyped
<1>4. CASE Sweep
  <2> DEFINE i == swept + 1
  <2>1. /\ i \in 1 .. Len(txs) /\ swept' = i /\ pc' = "sweep" /\ chain' = chain
        /\ UNCHANGED << wallet, merging >>
        /\ txs' = txs \/ txs' = [txs EXCEPT ![i] = Mark(@, "S")]
    BY <1>0, <1>4 DEF Sweep
  <2>2. \A info \in I : Mark(info, "S") \in I
    BY DEF Mark, Flags
  <2> HIDE DEF I, i
  <2>3. txs[i] \in I
    BY <1>0, <2>1
  <2>4. txs' \in Seq(I) /\ Len(txs') = Len(txs)
    BY <1>0, <2>1, <2>2, <2>3
  <2>5. swept' \in 0 .. Len(txs')
    BY <1>0, <2>1, <2>4
  <2> QED BY <1>0, <2>1, <2>4, <2>5, ReportTyped DEF I
<1>5. CASE CollectDone \/ CallFails \/ SweepDone \/ Report
  <2>1. /\ pc' \in {"kernels", "failed", "report", "done"}
        /\ txs' = txs /\ swept' = swept /\ chain' = chain
        /\ UNCHANGED << wallet, merging >>
    BY <1>5 DEF CollectDone, CallFails, SweepDone, Report, collecting
  <2> QED BY <1>0, <2>1, ReportTyped
<1> QED BY <1>1, <1>2, <1>3, <1>4, <1>5 DEF Validate

LEMMA StepInv == Inv /\ [Next]_vars => Inv'
<1> SUFFICES ASSUME Inv, [Next]_vars PROVE Inv'
  OBVIOUS
<1>1. CASE UNCHANGED vars
  BY <1>1 DEF vars, Inv, TypeOK, OutputsPartitioned, ReportComplete, Outputs
<1> QED BY <1>1, MergeInv, ValidateInv DEF Next

\* For every wallet, txs_bulk_validate keeps its data well formed.
THEOREM TypeCorrect == Spec => []TypeOK
<1>1. Inv => TypeOK
  BY DEF Inv
<1> QED BY <1>1, InitInv, StepInv, PTL DEF Spec

\* For every wallet, calc_best_merge neither loses nor duplicates an output.
THEOREM MergePartitions == Spec => []OutputsPartitioned
<1>1. Inv => OutputsPartitioned
  BY DEF Inv
<1> QED BY <1>1, InitInv, StepInv, PTL DEF Spec

\* For every wallet, a transaction is in the report once, in the log's order, or
\* has more outputs than are left over.
THEOREM MergeReports == Spec => []ReportComplete
<1>1. Inv => ReportComplete
  BY DEF Inv
<1> QED BY <1>1, InitInv, StepInv, PTL DEF Spec

(***************************************************************************)
(* The report: entries, indices, evidence and the last pass                *)
(***************************************************************************)

\* What the merge pushed: a transaction that stands and was served without
\* outputs has none.
ResOK ==
    \A j \in DOMAIN res :
        /\ res[j].success /\ res[j].outs = << >>
        /\ wallet.txs[res[j].tx].type \notin Cancelled
        => wallet.txs[res[j].tx].num_outputs = 0

\* An entry of the report is made from the merge's entry at its place.
EntriesOK ==
    /\ pc = "merge" => txs = << >>
    /\ Len(txs) <= Len(res)
    /\ \A i \in DOMAIN txs :
          /\ txs[i].tx = res[i].tx
          /\ txs[i].outs = res[i].outs
          /\ txs[i].kernels = KernelsOf(wallet.txs[res[i].tx])
          /\ txs[i].warnings = WarningsOf(wallet.txs[res[i].tx], res[i].success)

\* The indices lead to entries that have the key, the last one that has the
\* kernel, and miss no key.
IndexOK ==
    /\ \A k \in DOMAIN kernel_to_tx :
          /\ kernel_to_tx[k] \in DOMAIN txs /\ k \in txs[kernel_to_tx[k]].kernels
          /\ \A j \in DOMAIN txs : k \in txs[j].kernels => j <= kernel_to_tx[k]
    /\ \A o \in DOMAIN output_to_tx :
          output_to_tx[o] \in DOMAIN txs /\ o \in Range(txs[output_to_tx[o]].outs)
    /\ \A t \in DOMAIN tx_id_to_tx : tx_id_to_tx[t] \in DOMAIN txs
    /\ \A i \in DOMAIN txs :
          /\ txs[i].kernels \subseteq DOMAIN kernel_to_tx
          /\ Range(txs[i].outs) \subseteq DOMAIN output_to_tx

\* Evidence is read after the indices are complete; a verdict has a reason.
EvidenceOK ==
    /\ pc \in {"merge", "collect", "kernels"} =>
          chain.kernels = {} /\ \A i \in DOMAIN txs : ~ txs[i].validated
    /\ pc \in {"merge", "collect", "kernels", "outputs"} => chain.outputs = {}
    /\ \A i \in DOMAIN txs :
          txs[i].validated =>
             \/ KernelOnChain(i)
             \/ OutputOnChain(txs[i])
             \/ \E o \in Range(txs[i].outs) : SpentByValidated(o)

\* All the evidence counts.
FoundOK ==
    \A i \in DOMAIN txs :
        KernelOnChain(i) \/ OutputOnChain(txs[i]) => txs[i].validated

\* No send owes its verdict to the last loop.
NoSentSwept ==
    \A i \in DOMAIN txs :
        wallet.txs[txs[i].tx].type \in Sent => "S" \notin txs[i].flags

\* What the last loop has seen is closed under cut-through.
SweptOK ==
    /\ pc \in {"merge", "collect", "kernels", "outputs"} => swept = 0
    /\ pc \in {"report", "done"} => swept = Len(txs)
    /\ NoSentSwept =>
          \A i \in 1 .. swept :
             ~ txs[i].validated => \A o \in Range(txs[i].outs) : ~ SpentByValidated(o)

ReportInv == ResOK /\ EntriesOK /\ IndexOK /\ EvidenceOK /\ SweptOK

LEMMA SeqShape ==
    ASSUME TypeOK
    PROVE  /\ DOMAIN txs = 1 .. Len(txs) /\ Len(txs) \in Nat
           /\ DOMAIN res = 1 .. Len(res) /\ Len(res) \in Nat
           /\ swept \in 0 .. Len(txs)
<1> DEFINE E == [tx : 1 .. popped, outs : Seq(Outputs), success : BOOLEAN]
           I == [tx : 1 .. Len(wallet.txs), outs : Seq(Outputs),
                 kernels : SUBSET Kernels, validated : BOOLEAN,
                 flags : SUBSET Flags, warnings : SUBSET Warnings]
<1>1. res \in Seq(E) /\ txs \in Seq(I) /\ swept \in 0 .. Len(txs)
  BY DEF TypeOK
<1> HIDE DEF E, I
<1> QED BY <1>1

LEMMA InitReport == Init => ReportInv /\ FoundOK
<1> SUFFICES ASSUME Init PROVE ReportInv /\ FoundOK
  OBVIOUS
<1>1. /\ DOMAIN res = {} /\ DOMAIN txs = {} /\ Len(txs) = 0 /\ Len(res) = 0 /\ swept = 0
      /\ txs = << >> /\ pc = "merge"
      /\ DOMAIN kernel_to_tx = {} /\ DOMAIN output_to_tx = {} /\ DOMAIN tx_id_to_tx = {}
      /\ chain.kernels = {} /\ chain.outputs = {}
  BY DEF Init, NoIndex
<1> QED
  BY <1>1 DEF ReportInv, ResOK, EntriesOK, IndexOK, EvidenceOK, SweptOK, FoundOK

\* A push keeps ResOK if it serves a standing transaction or says it did not.
LEMMA PushResOK ==
    ASSUME TypeOK, ResOK, PopsTransaction, NEW w, NEW b, Push(w, b),
           b /\ w = << >> /\ Tx.type \notin Cancelled => Tx.num_outputs = 0
    PROVE  ResOK'
<1> DEFINE n == Len(res) + 1
<1>1. /\ DOMAIN res' = 1 .. n
      /\ \A j \in 1 .. Len(res) : res'[j] = res[j]
      /\ res'[n] = [tx |-> popped + 1, outs |-> w, success |-> b]
      /\ DOMAIN res = 1 .. Len(res) /\ Len(res) \in Nat
  <2> DEFINE E == [tx : 1 .. popped, outs : Seq(Outputs), success : BOOLEAN]
             e == [tx |-> popped + 1, outs |-> w, success |-> b]
  <2>1. res \in Seq(E) /\ res' = Append(res, e)
    BY DEF TypeOK, Push
  <2> HIDE DEF E, e
  <2>2. /\ DOMAIN res' = 1 .. n /\ \A j \in 1 .. Len(res) : res'[j] = res[j]
        /\ res'[n] = e
        /\ DOMAIN res = 1 .. Len(res) /\ Len(res) \in Nat
    BY <2>1
  <2> QED BY <2>2 DEF e
<1>2. wallet' = wallet
  BY DEF PopsTransaction
<1> QED BY <1>1, <1>2 DEF ResOK, Tx

\* While merging there is no report yet.
LEMMA MergeReport == Inv /\ ReportInv /\ FoundOK /\ Merge => ReportInv' /\ FoundOK'
<1> SUFFICES ASSUME Inv, ReportInv, FoundOK, Merge PROVE ReportInv' /\ FoundOK'
  OBVIOUS
<1>0. /\ pc = "merge" /\ pc' \in {"merge", "collect"}
      /\ UNCHANGED << wallet, swept, chain, collecting >>
  BY DEF Merge, MergeNothingLeft, MergeNoOutputs, MergeCancelled, MergeFound,
     MergeNotFound, MergeTooFew, MergeDone, Looked, Searching, Popping, PopsTransaction
<1>1. /\ txs = << >> /\ txs' = << >> /\ swept = 0 /\ swept' = 0
      /\ chain'.kernels = {} /\ chain'.outputs = {}
  BY <1>0 DEF ReportInv, EntriesOK, EvidenceOK, SweptOK, collecting
<1>2. ResOK'
  <2>1. CASE MergeNothingLeft
    BY <2>1, PushResOK DEF MergeNothingLeft, Inv, ReportInv
  <2>2. CASE MergeNoOutputs
    BY <2>2, PushResOK DEF MergeNoOutputs, Inv, ReportInv
  <2>3. CASE MergeCancelled
    BY <2>3, PushResOK DEF MergeCancelled, Inv, ReportInv
  <2>4. CASE MergeFound
    <3> DEFINE w == Window(outputs, First(Matches(Tx)), Tx.num_outputs)
    <3>1. Tx.num_outputs \in Nat /\ Tx.num_outputs > 0
      BY <2>4, TxTyped DEF MergeFound, Looked, Searching, Inv
    <3>2. DOMAIN w = 1 .. Tx.num_outputs
      BY DEF Window
    <3>3. w # << >>
      <4>1. 1 \in DOMAIN w
        BY <3>1, <3>2
      <4>2. DOMAIN << >> = {}
        OBVIOUS
      <4> HIDE DEF w
      <4> QED BY <4>1, <4>2
    <3>4. Push(w, TRUE) /\ PopsTransaction
      BY <2>4 DEF MergeFound
    <3> HIDE DEF w
    <3> QED BY <3>3, <3>4, PushResOK DEF Inv, ReportInv
  <2>5. CASE MergeNotFound
    BY <2>5, PushResOK DEF MergeNotFound, Inv, ReportInv
  <2>6. CASE MergeTooFew
    BY <2>6 DEF MergeTooFew, PopsTransaction, ReportInv, ResOK
  <2>7. CASE MergeDone
    BY <2>7 DEF MergeDone, merging, ReportInv, ResOK
  <2> QED BY <2>1, <2>2, <2>3, <2>4, <2>5, <2>6, <2>7 DEF Merge
<1>3. DOMAIN txs' = {} /\ Len(txs') = 0 /\ Len(res') \in Nat
  BY <1>1, MergeInv, SeqShape DEF Inv, TypeOK
<1>4. EntriesOK' /\ EvidenceOK' /\ SweptOK' /\ FoundOK'
  BY <1>0, <1>1, <1>3 DEF EntriesOK, EvidenceOK, SweptOK, FoundOK
<1>5. IndexOK'
  BY <1>0, <1>1, <1>3 DEF collecting, indices, ReportInv, IndexOK
<1> QED BY <1>2, <1>4, <1>5 DEF ReportInv

\* Marking the entries in hit: everything else about them stays.
MarkStep(hit, f) ==
    /\ DOMAIN txs' = DOMAIN txs
    /\ \A i \in DOMAIN txs :
          /\ txs'[i].tx = txs[i].tx
          /\ txs'[i].outs = txs[i].outs
          /\ txs'[i].kernels = txs[i].kernels
          /\ txs'[i].warnings = txs[i].warnings
          /\ txs'[i].validated <=> txs[i].validated \/ i \in hit
          /\ txs'[i].flags = IF i \in hit THEN txs[i].flags \cup {f} ELSE txs[i].flags

LEMMA MarkFields ==
    ASSUME TypeOK, NEW i \in DOMAIN txs, NEW f
    PROVE  /\ Mark(txs[i], f).tx = txs[i].tx
           /\ Mark(txs[i], f).outs = txs[i].outs
           /\ Mark(txs[i], f).kernels = txs[i].kernels
           /\ Mark(txs[i], f).warnings = txs[i].warnings
           /\ Mark(txs[i], f).validated = TRUE
           /\ Mark(txs[i], f).flags = txs[i].flags \cup {f}
<1> DEFINE I == [tx : 1 .. Len(wallet.txs), outs : Seq(Outputs),
                 kernels : SUBSET Kernels, validated : BOOLEAN,
                 flags : SUBSET Flags, warnings : SUBSET Warnings]
<1>1. txs \in Seq(I)
  BY DEF TypeOK
<1>2. \A info \in I :
           /\ Mark(info, f).tx = info.tx
           /\ Mark(info, f).outs = info.outs
           /\ Mark(info, f).kernels = info.kernels
           /\ Mark(info, f).warnings = info.warnings
           /\ Mark(info, f).validated = TRUE
           /\ Mark(info, f).flags = info.flags \cup {f}
  BY DEF Mark
<1> HIDE DEF I
<1>3. txs[i] \in I
  BY <1>1
<1> QED BY <1>2, <1>3

LEMMA MarkedIsMarkStep ==
    ASSUME TypeOK, NEW index, NEW lines, NEW f, txs' = Marked(index, lines, f)
    PROVE  MarkStep({index[l] : l \in lines \cap DOMAIN index}, f)
<1> DEFINE hit == {index[l] : l \in lines \cap DOMAIN index}
<1>1. /\ DOMAIN txs' = DOMAIN txs
      /\ \A i \in DOMAIN txs : txs'[i] = IF i \in hit THEN Mark(txs[i], f) ELSE txs[i]
  BY DEF Marked
<1>2. \A i \in DOMAIN txs :
           /\ Mark(txs[i], f).tx = txs[i].tx
           /\ Mark(txs[i], f).outs = txs[i].outs
           /\ Mark(txs[i], f).kernels = txs[i].kernels
           /\ Mark(txs[i], f).warnings = txs[i].warnings
           /\ Mark(txs[i], f).validated = TRUE
           /\ Mark(txs[i], f).flags = txs[i].flags \cup {f}
  BY MarkFields
<1>3. \A i \in DOMAIN txs : txs[i].validated \in BOOLEAN
  <2> DEFINE I == [tx : 1 .. Len(wallet.txs), outs : Seq(Outputs),
                   kernels : SUBSET Kernels, validated : BOOLEAN,
                   flags : SUBSET Flags, warnings : SUBSET Warnings]
  <2>1. txs \in Seq(I) /\ \A info \in I : info.validated \in BOOLEAN
    BY DEF TypeOK
  <2> HIDE DEF I
  <2> QED BY <2>1
<1> HIDE DEF hit
<1>4. MarkStep(hit, f)
  BY <1>1, <1>2, <1>3 DEF MarkStep
<1> QED BY <1>4 DEF hit

LEMMA SweepIsMarkStep ==
    ASSUME TypeOK, NEW i \in DOMAIN txs, NEW hit,
           \/ hit = {} /\ txs' = txs
           \/ hit = {i} /\ txs' = [txs EXCEPT ![i] = Mark(@, "S")]
    PROVE  MarkStep(hit, "S")
<1>1. CASE hit = {} /\ txs' = txs
  BY <1>1 DEF MarkStep
<1>2. CASE hit = {i} /\ txs' = [txs EXCEPT ![i] = Mark(@, "S")]
  <2> DEFINE m == Mark(txs[i], "S")
  <2>1. /\ m.tx = txs[i].tx /\ m.outs = txs[i].outs /\ m.kernels = txs[i].kernels
        /\ m.warnings = txs[i].warnings /\ m.validated = TRUE
        /\ m.flags = txs[i].flags \cup {"S"}
    BY MarkFields
  <2>2. DOMAIN txs' = DOMAIN txs /\ txs'[i] = m /\ \A j \in DOMAIN txs : j # i => txs'[j] = txs[j]
    BY <1>2
  <2> HIDE DEF m
  <2> QED BY <1>2, <2>1, <2>2 DEF MarkStep
<1> QED BY <1>1, <1>2

\* Marks leave entries and indices right, and take no verdict back.
LEMMA MarkKeeps ==
    ASSUME ReportInv, NEW hit, NEW f, MarkStep(hit, f), Len(txs') = Len(txs),
           pc # "merge", pc' # "merge",
           UNCHANGED << wallet, res, kernel_to_tx, output_to_tx, tx_id_to_tx >>
    PROVE  /\ ResOK' /\ EntriesOK' /\ IndexOK'
           /\ \A o : SpentByValidated(o) => SpentByValidated(o)'
<1>1. ResOK'
  BY DEF ReportInv, ResOK
<1>2. EntriesOK'
  BY DEF ReportInv, EntriesOK, MarkStep
<1>3. IndexOK'
  <2>1. IndexOK
    BY DEF ReportInv
  <2>2. \A k \in DOMAIN kernel_to_tx' :
           /\ kernel_to_tx'[k] \in DOMAIN txs' /\ k \in txs'[kernel_to_tx'[k]].kernels
           /\ \A j \in DOMAIN txs' : k \in txs'[j].kernels => j <= kernel_to_tx'[k]
    BY <2>1 DEF IndexOK, MarkStep
  <2>3. \A o \in DOMAIN output_to_tx' :
           output_to_tx'[o] \in DOMAIN txs' /\ o \in Range(txs'[output_to_tx'[o]].outs)
    BY <2>1 DEF IndexOK, MarkStep
  <2>4. /\ \A t \in DOMAIN tx_id_to_tx' : tx_id_to_tx'[t] \in DOMAIN txs'
        /\ \A i \in DOMAIN txs' :
              /\ txs'[i].kernels \subseteq DOMAIN kernel_to_tx'
              /\ Range(txs'[i].outs) \subseteq DOMAIN output_to_tx'
    BY <2>1 DEF IndexOK, MarkStep
  <2> QED BY <2>2, <2>3, <2>4 DEF IndexOK
<1>4. ASSUME NEW o, SpentByValidated(o) PROVE SpentByValidated(o)'
  <2> DEFINE id == wallet.outs[o].tx_log_entry
  <2>1. /\ id \in DOMAIN tx_id_to_tx
        /\ wallet.txs[txs[tx_id_to_tx[id]].tx].type \in Sent
        /\ txs[tx_id_to_tx[id]].validated
    BY <1>4 DEF SpentByValidated
  <2>2. tx_id_to_tx[id] \in DOMAIN txs
    BY <2>1 DEF ReportInv, IndexOK
  <2>3. /\ txs'[tx_id_to_tx[id]].tx = txs[tx_id_to_tx[id]].tx
        /\ txs'[tx_id_to_tx[id]].validated
    BY <2>1, <2>2 DEF MarkStep
  <2> QED BY <2>1, <2>3 DEF SpentByValidated
<1> QED BY <1>1, <1>2, <1>3, <1>4

\* The evidence of an entry does not depend on its marks.
LEMMA EvidenceOfMarked ==
    ASSUME NEW hit, NEW f, MarkStep(hit, f), wallet' = wallet, NEW i \in DOMAIN txs
    PROVE  /\ KernelOnChain(i)' <=>
                 \E k \in chain'.kernels :
                    /\ HasKernel(txs[i], k)
                    /\ \A j \in DOMAIN txs : j > i => ~ HasKernel(txs[j], k)
           /\ OutputOnChain(txs[i])' <=> Range(txs[i].outs) \cap chain'.outputs # {}
<1>1. \A j \in DOMAIN txs : \A k : HasKernel(txs[j], k)' <=> HasKernel(txs[j], k)
  BY DEF HasKernel, MarkStep
<1>2. DOMAIN txs' = DOMAIN txs
  BY DEF MarkStep
<1>3. KernelOnChain(i)' <=>
         \E k \in chain'.kernels :
            /\ HasKernel(txs[i], k)
            /\ \A j \in DOMAIN txs : j > i => ~ HasKernel(txs[j], k)
  BY <1>1, <1>2 DEF KernelOnChain
<1>4. OutputOnChain(txs[i])' <=> Range(txs[i].outs) \cap chain'.outputs # {}
  BY DEF OutputOnChain, MarkStep
<1> QED BY <1>3, <1>4

\* An entry was stored with the kernels it is looked up by.
LEMMA KernelsOfEntry ==
    ASSUME EntriesOK, NEW i \in DOMAIN txs, NEW k
    PROVE  HasKernel(txs[i], k) <=> k \in txs[i].kernels
<1>1. txs[i].kernels = KernelsOf(wallet.txs[txs[i].tx])
  BY DEF EntriesOK
<1> QED BY <1>1 DEF HasKernel, KernelsOf

\* An entry is added to the report and to the three indices.
LEMMA CollectReport == Inv /\ ReportInv /\ Collect => ReportInv' /\ FoundOK'
<1> SUFFICES ASSUME Inv, ReportInv, Collect PROVE ReportInv' /\ FoundOK'
  OBVIOUS
<1> DEFINE n  == Len(txs) + 1
           e  == res[n]
           tx == wallet.txs[e.tx]
           x  == [tx |-> e.tx, outs |-> e.outs, kernels |-> KernelsOf(tx),
                  validated |-> FALSE, flags |-> {},
                  warnings |-> WarningsOf(tx, e.success)]
<1>1. /\ DOMAIN txs = 1 .. Len(txs) /\ Len(txs) \in Nat
      /\ DOMAIN res = 1 .. Len(res) /\ Len(res) \in Nat
      /\ n \in 1 .. Len(res)
  BY SeqShape DEF Inv, Collect
<1>2. /\ pc = "collect" /\ pc' = "collect"
      /\ UNCHANGED << wallet, swept, chain, res >>
      /\ kernel_to_tx' = Insert(kernel_to_tx, KernelsOf(tx), n)
      /\ output_to_tx' = Insert(output_to_tx, Range(e.outs), n)
      /\ tx_id_to_tx' = Insert(tx_id_to_tx, {e.tx}, n)
  BY DEF Collect, merging
<1>3. /\ DOMAIN txs' = 1 .. n /\ Len(txs') = n
      /\ \A i \in 1 .. Len(txs) : txs'[i] = txs[i]
      /\ txs'[n] = x
  <2> DEFINE I == [tx : 1 .. Len(wallet.txs), outs : Seq(Outputs),
                   kernels : SUBSET Kernels, validated : BOOLEAN,
                   flags : SUBSET Flags, warnings : SUBSET Warnings]
  <2>1. txs \in Seq(I) /\ txs' = Append(txs, x)
    BY DEF Inv, TypeOK, Collect
  <2> HIDE DEF I, x
  <2> QED BY <2>1
<1>4. /\ txs'[n].tx = e.tx /\ txs'[n].outs = e.outs /\ txs'[n].kernels = KernelsOf(tx)
      /\ txs'[n].validated = FALSE /\ txs'[n].warnings = WarningsOf(tx, e.success)
  BY <1>3
<1> HIDE DEF e, tx, x
<1>5. ResOK'
  BY <1>2 DEF ReportInv, ResOK
<1>6. EntriesOK'
  <2>1. \A i \in 1 .. n :
           /\ txs'[i].tx = res[i].tx
           /\ txs'[i].outs = res[i].outs
           /\ txs'[i].kernels = KernelsOf(wallet.txs[res[i].tx])
           /\ txs'[i].warnings = WarningsOf(wallet.txs[res[i].tx], res[i].success)
    <3>1. \A i \in 1 .. Len(txs) :
             /\ txs'[i].tx = res[i].tx
             /\ txs'[i].outs = res[i].outs
             /\ txs'[i].kernels = KernelsOf(wallet.txs[res[i].tx])
             /\ txs'[i].warnings = WarningsOf(wallet.txs[res[i].tx], res[i].success)
      BY <1>1, <1>3 DEF ReportInv, EntriesOK
    <3>2. \A i \in 1 .. n : i = n \/ i \in 1 .. Len(txs)
      BY <1>1
    <3> QED BY <1>4, <3>1, <3>2 DEF e, tx
  <2> QED BY <1>1, <1>2, <1>3, <2>1 DEF EntriesOK
<1>7. IndexOK'
  <2>0. IndexOK /\ \A i \in 1 .. Len(txs) : i \in 1 .. n
    BY <1>1 DEF ReportInv
  <2>1. ASSUME NEW k \in DOMAIN kernel_to_tx'
        PROVE  /\ kernel_to_tx'[k] \in DOMAIN txs' /\ k \in txs'[kernel_to_tx'[k]].kernels
               /\ \A j \in DOMAIN txs' : k \in txs'[j].kernels => j <= kernel_to_tx'[k]
    <3>1. CASE k \in KernelsOf(tx)
      <4>1. kernel_to_tx'[k] = n
        BY <1>2, <3>1 DEF Insert
      <4>2. \A j \in 1 .. n : j <= n
        BY <1>1
      <4> QED BY <1>1, <1>3, <1>4, <3>1, <4>1, <4>2
    <3>2. CASE k \notin KernelsOf(tx)
      <4>1. k \in DOMAIN kernel_to_tx /\ kernel_to_tx'[k] = kernel_to_tx[k]
        BY <1>2, <2>1, <3>2 DEF Insert
      <4>2. ASSUME NEW j \in 1 .. n, k \in txs'[j].kernels PROVE j \in DOMAIN txs /\ k \in txs[j].kernels
        <5>1. j # n
          BY <1>4, <3>2, <4>2
        <5>2. j \in 1 .. Len(txs)
          BY <1>1, <5>1
        <5> QED BY <1>1, <1>3, <4>2, <5>2
      <4> QED BY <1>1, <1>3, <2>0, <4>1, <4>2 DEF IndexOK
    <3> QED BY <3>1, <3>2
  <2>2. ASSUME NEW o \in DOMAIN output_to_tx'
        PROVE  output_to_tx'[o] \in DOMAIN txs' /\ o \in Range(txs'[output_to_tx'[o]].outs)
    <3>1. CASE o \in Range(e.outs)
      <4>1. output_to_tx'[o] = n
        BY <1>2, <3>1 DEF Insert
      <4> QED BY <1>1, <1>3, <1>4, <3>1, <4>1
    <3>2. CASE o \notin Range(e.outs)
      <4>1. o \in DOMAIN output_to_tx /\ output_to_tx'[o] = output_to_tx[o]
        BY <1>2, <2>2, <3>2 DEF Insert
      <4> QED BY <1>1, <1>3, <2>0, <4>1 DEF IndexOK
    <3> QED BY <3>1, <3>2
  <2>3. ASSUME NEW t \in DOMAIN tx_id_to_tx' PROVE tx_id_to_tx'[t] \in DOMAIN txs'
    <3>1. CASE t = e.tx
      <4>1. tx_id_to_tx'[t] = n
        BY <1>2, <3>1 DEF Insert
      <4> QED BY <1>1, <1>3, <4>1
    <3>2. CASE t # e.tx
      <4>1. t \in DOMAIN tx_id_to_tx /\ tx_id_to_tx'[t] = tx_id_to_tx[t]
        BY <1>2, <2>3, <3>2 DEF Insert
      <4> QED BY <1>1, <1>3, <2>0, <4>1 DEF IndexOK
    <3> QED BY <3>1, <3>2
  <2>4. ASSUME NEW i \in DOMAIN txs'
        PROVE  /\ txs'[i].kernels \subseteq DOMAIN kernel_to_tx'
               /\ Range(txs'[i].outs) \subseteq DOMAIN output_to_tx'
    <3>1. /\ DOMAIN kernel_to_tx' = DOMAIN kernel_to_tx \cup KernelsOf(tx)
          /\ DOMAIN output_to_tx' = DOMAIN output_to_tx \cup Range(e.outs)
      BY <1>2 DEF Insert
    <3>2. CASE i = n
      BY <1>4, <3>1, <3>2
    <3>3. CASE i \in 1 .. Len(txs)
      BY <1>1, <1>3, <2>0, <3>1, <3>3 DEF IndexOK
    <3> QED BY <1>1, <1>3, <3>2, <3>3
  <2> QED BY <2>1, <2>2, <2>3, <2>4 DEF IndexOK
<1>8. \A i \in DOMAIN txs' : ~ txs'[i].validated
  <2>1. \A i \in 1 .. Len(txs) : ~ txs[i].validated
    BY <1>1, <1>2 DEF ReportInv, EvidenceOK
  <2> QED BY <1>1, <1>3, <1>4, <2>1
<1>9. chain'.kernels = {} /\ chain'.outputs = {}
  BY <1>2 DEF ReportInv, EvidenceOK
<1>10. EvidenceOK'
  BY <1>2, <1>8, <1>9 DEF EvidenceOK
<1>11. SweptOK'
  <2>1. swept' = 0
    BY <1>2 DEF ReportInv, SweptOK
  <2> QED BY <1>2, <2>1 DEF SweptOK
<1>12. FoundOK'
  BY <1>9 DEF FoundOK, KernelOnChain, OutputOnChain
<1> QED BY <1>5, <1>6, <1>7, <1>10, <1>11, <1>12 DEF ReportInv

\* A kernel line counts for the entry that has the kernel.
LEMMA ReadKernelsReport == Inv /\ ReportInv /\ ReadKernels => ReportInv'
<1> SUFFICES ASSUME Inv, ReportInv, ReadKernels PROVE ReportInv'
  OBVIOUS
<1>1. PICK lines \in SUBSET Kernels :
         /\ chain' = [chain EXCEPT !.kernels = lines]
         /\ txs' = Marked(kernel_to_tx, lines, "K")
  BY DEF ReadKernels
<1> DEFINE hit == {kernel_to_tx[l] : l \in lines \cap DOMAIN kernel_to_tx}
<1>2. /\ pc = "kernels" /\ pc' = "outputs" /\ swept' = swept /\ swept = 0
      /\ UNCHANGED << wallet, res, kernel_to_tx, output_to_tx, tx_id_to_tx >>
      /\ chain.outputs = {} /\ \A i \in DOMAIN txs : ~ txs[i].validated
  BY DEF ReadKernels, merging, indices, ReportInv, EvidenceOK, SweptOK
<1>3. chain'.kernels = lines /\ chain'.outputs = {}
  BY <1>1, <1>2 DEF Inv, TypeOK
<1>4. MarkStep(hit, "K") /\ Len(txs') = Len(txs)
  BY <1>1, MarkedIsMarkStep, MarkedTyped DEF Inv, Flags
<1>5. ResOK' /\ EntriesOK' /\ IndexOK'
  BY <1>2, <1>4, MarkKeeps
<1>6. ASSUME NEW i \in DOMAIN txs', txs'[i].validated PROVE KernelOnChain(i)'
  <2>1. i \in DOMAIN txs /\ i \in hit
    BY <1>2, <1>4, <1>6 DEF MarkStep
  <2>2. PICK l \in lines \cap DOMAIN kernel_to_tx : i = kernel_to_tx[l]
    BY <2>1
  <2>3. l \in txs[i].kernels /\ \A j \in DOMAIN txs : l \in txs[j].kernels => j <= i
    BY <2>2 DEF ReportInv, IndexOK
  <2>4. HasKernel(txs[i], l)
    BY <2>1, <2>3, KernelsOfEntry DEF ReportInv
  <2>5. ASSUME NEW j \in DOMAIN txs, j > i PROVE ~ HasKernel(txs[j], l)
    <3>1. i \in Nat /\ j \in Nat
      BY <2>1, SeqShape DEF Inv
    <3>2. l \notin txs[j].kernels
      BY <2>3, <2>5, <3>1
    <3> QED BY <3>2, KernelsOfEntry DEF ReportInv
  <2> HIDE DEF hit
  <2> QED BY <1>2, <1>3, <1>4, <2>1, <2>2, <2>4, <2>5, EvidenceOfMarked
<1>7. EvidenceOK'
  BY <1>2, <1>3, <1>6 DEF EvidenceOK
<1>8. SweptOK'
  BY <1>2 DEF SweptOK
<1> QED BY <1>5, <1>7, <1>8 DEF ReportInv

\* An output line counts for the entry that has the output.
LEMMA ReadOutputsReport == Inv /\ ReportInv /\ ReadOutputs => ReportInv'
<1> SUFFICES ASSUME Inv, ReportInv, ReadOutputs PROVE ReportInv'
  OBVIOUS
<1>1. PICK lines \in SUBSET Outputs :
         /\ chain' = [chain EXCEPT !.outputs = lines]
         /\ txs' = Marked(output_to_tx, lines, "O")
  BY DEF ReadOutputs, Outputs
<1> DEFINE hit == {output_to_tx[l] : l \in lines \cap DOMAIN output_to_tx}
<1>2. /\ pc = "outputs" /\ pc' = "sweep" /\ swept' = swept /\ swept = 0
      /\ UNCHANGED << wallet, res, kernel_to_tx, output_to_tx, tx_id_to_tx >>
      /\ chain.outputs = {}
  BY DEF ReadOutputs, merging, indices, ReportInv, EvidenceOK, SweptOK
<1>3. chain'.kernels = chain.kernels /\ chain'.outputs = lines
  BY <1>1 DEF Inv, TypeOK
<1>4. MarkStep(hit, "O") /\ Len(txs') = Len(txs)
  BY <1>1, MarkedIsMarkStep, MarkedTyped DEF Inv, Flags
<1>5. /\ ResOK' /\ EntriesOK' /\ IndexOK'
      /\ \A o : SpentByValidated(o) => SpentByValidated(o)'
  BY <1>2, <1>4, MarkKeeps
<1>6. ASSUME NEW i \in DOMAIN txs', txs'[i].validated
      PROVE  \/ KernelOnChain(i)' \/ OutputOnChain(txs[i])'
             \/ \E o \in Range(txs'[i].outs) : SpentByValidated(o)'
  <2>0. i \in DOMAIN txs /\ txs'[i].outs = txs[i].outs
    BY <1>4 DEF MarkStep
  <2>1. CASE i \in hit
    <3>1. PICK l \in lines \cap DOMAIN output_to_tx : i = output_to_tx[l]
      BY <2>1
    <3>2. l \in Range(txs[i].outs)
      BY <3>1 DEF ReportInv, IndexOK
    <3>3. Range(txs[i].outs) \cap chain'.outputs # {}
      BY <1>3, <3>1, <3>2
    <3> QED BY <1>2, <1>4, <2>0, <3>3, EvidenceOfMarked
  <2>2. CASE txs[i].validated
    <3>1. CASE KernelOnChain(i)
      BY <1>2, <1>3, <1>4, <2>0, <3>1, EvidenceOfMarked DEF KernelOnChain
    <3>2. ~ OutputOnChain(txs[i])
      BY <1>2 DEF OutputOnChain
    <3>3. CASE \E o \in Range(txs[i].outs) : SpentByValidated(o)
      BY <1>5, <2>0, <3>3
    <3> QED BY <2>0, <2>2, <3>1, <3>2, <3>3 DEF ReportInv, EvidenceOK
  <2> QED BY <1>4, <1>6, <2>0, <2>1, <2>2 DEF MarkStep
<1>7. EvidenceOK'
  BY <1>2, <1>6 DEF EvidenceOK
<1>8. SweptOK'
  BY <1>2 DEF SweptOK
<1> QED BY <1>5, <1>7, <1>8 DEF ReportInv

\* The last loop looks at one entry.
LEMMA SweepReport == Inv /\ ReportInv /\ Sweep => ReportInv'
<1> SUFFICES ASSUME Inv, ReportInv, Sweep PROVE ReportInv'
  OBVIOUS
<1> DEFINE i == swept + 1
           spent == \E o \in Range(txs[i].outs) : SpentByValidated(o)
           hit == IF ~ txs[i].validated /\ spent THEN {i} ELSE {}
<1>0. /\ DOMAIN txs = 1 .. Len(txs) /\ Len(txs) \in Nat
      /\ swept \in 0 .. Len(txs) /\ i \in 1 .. Len(txs)
  BY SeqShape DEF Inv, Sweep
<1>1. /\ pc = "sweep" /\ pc' = "sweep" /\ swept' = i
      /\ UNCHANGED << wallet, res, kernel_to_tx, output_to_tx, tx_id_to_tx, chain >>
      /\ txs' = IF ~ txs[i].validated /\ spent THEN [txs EXCEPT ![i] = Mark(@, "S")] ELSE txs
  BY DEF Sweep, merging, indices
<1> HIDE DEF spent
<1>2. MarkStep(hit, "S")
  BY <1>0, <1>1, SweepIsMarkStep DEF Inv
<1>3. Len(txs') = Len(txs)
  <2>1. TypeOK'
    BY ValidateInv DEF Validate, Inv
  <2>2. DOMAIN txs' = 1 .. Len(txs') /\ Len(txs') \in Nat
    BY <2>1, SeqShape
  <2> QED BY <1>0, <1>2, <2>2 DEF MarkStep
<1>4. /\ ResOK' /\ EntriesOK' /\ IndexOK'
      /\ \A o : SpentByValidated(o) => SpentByValidated(o)'
  BY <1>1, <1>2, <1>3, MarkKeeps
<1>5. ASSUME NEW j \in DOMAIN txs', txs'[j].validated
      PROVE  \/ KernelOnChain(j)' \/ OutputOnChain(txs[j])'
             \/ \E o \in Range(txs'[j].outs) : SpentByValidated(o)'
  <2>0. j \in DOMAIN txs /\ txs'[j].outs = txs[j].outs
    BY <1>2 DEF MarkStep
  <2>1. CASE j \in hit
    BY <1>4, <2>0, <2>1 DEF spent
  <2>2. CASE txs[j].validated
    <3>1. CASE KernelOnChain(j) \/ OutputOnChain(txs[j])
      BY <1>1, <1>2, <2>0, <3>1, EvidenceOfMarked DEF KernelOnChain, OutputOnChain
    <3>2. CASE \E o \in Range(txs[j].outs) : SpentByValidated(o)
      BY <1>4, <2>0, <3>2
    <3> QED BY <2>0, <2>2, <3>1, <3>2 DEF ReportInv, EvidenceOK
  <2> QED BY <1>2, <1>5, <2>0, <2>1, <2>2 DEF MarkStep
<1>6. EvidenceOK'
  BY <1>1, <1>5 DEF EvidenceOK
<1>7. SweptOK'
  <2> SUFFICES ASSUME NoSentSwept', NEW j \in 1 .. swept', ~ txs'[j].validated,
                      NEW o \in Range(txs'[j].outs), SpentByValidated(o)'
               PROVE  FALSE
    BY <1>1 DEF SweptOK
  <2>a. j \in DOMAIN txs
    BY <1>0, <1>1
  <2>1. /\ j \in DOMAIN txs /\ ~ txs[j].validated /\ j \notin hit
        /\ txs'[j].outs = txs[j].outs
    <3> HIDE DEF hit
    <3> QED BY <1>2, <2>a DEF MarkStep
  <2>2. NoSentSwept
    <3> SUFFICES ASSUME NEW k \in DOMAIN txs, wallet.txs[txs[k].tx].type \in Sent
                 PROVE  "S" \notin txs[k].flags
      BY DEF NoSentSwept
    <3>1. "S" \notin txs'[k].flags
      BY <1>1, <1>2 DEF NoSentSwept, MarkStep
    <3> QED BY <1>2, <3>1 DEF MarkStep
  <2>3. SpentByValidated(o)
    <3> DEFINE id == wallet.outs[o].tx_log_entry
               k  == tx_id_to_tx[id]
    <3>1. /\ id \in DOMAIN tx_id_to_tx
          /\ wallet.txs[txs'[k].tx].type \in Sent /\ txs'[k].validated
      BY <1>1 DEF SpentByValidated
    <3>2. k \in DOMAIN txs
      BY <3>1 DEF ReportInv, IndexOK
    <3>3. wallet.txs[txs[k].tx].type \in Sent
      BY <1>2, <3>1, <3>2 DEF MarkStep
    <3>4. "S" \notin txs'[k].flags
      BY <1>1, <1>2, <3>1, <3>2 DEF NoSentSwept, MarkStep
    <3>5. k \notin hit
      BY <1>2, <3>2, <3>4 DEF MarkStep
    <3>6. txs[k].validated
      BY <1>2, <3>1, <3>2, <3>5 DEF MarkStep
    <3> QED BY <3>1, <3>3, <3>6 DEF SpentByValidated
  <2>4. CASE j = i
    BY <2>1, <2>3, <2>4 DEF spent
  <2>5. CASE j # i
    <3>1. j \in 1 .. swept
      BY <1>0, <1>1, <2>5
    <3> QED BY <2>1, <2>2, <2>3, <3>1 DEF ReportInv, SweptOK
  <2> QED BY <2>4, <2>5
<1> QED BY <1>4, <1>6, <1>7 DEF ReportInv

\* The steps that only say what comes next.
LEMMA QuietReport ==
    Inv /\ ReportInv /\ (CollectDone \/ CallFails \/ SweepDone \/ Report \/ UNCHANGED vars)
        => ReportInv' /\ (FoundOK => FoundOK')
<1> SUFFICES ASSUME Inv, ReportInv,
                    CollectDone \/ CallFails \/ SweepDone \/ Report \/ UNCHANGED vars
             PROVE  ReportInv' /\ (FoundOK => FoundOK')
  OBVIOUS
<1>1. /\ UNCHANGED << wallet, swept, chain, res, txs, kernel_to_tx, output_to_tx, tx_id_to_tx >>
      /\ \/ pc' = pc
         \/ pc = "collect" /\ pc' = "kernels"
         \/ pc' = "failed"
         \/ pc = "sweep" /\ swept = Len(txs) /\ pc' = "report"
         \/ pc = "report" /\ pc' = "done"
  BY DEF CollectDone, CallFails, SweepDone, Report, vars, merging, collecting, indices
<1>2. \A o : SpentByValidated(o)' <=> SpentByValidated(o)
  BY <1>1 DEF SpentByValidated
<1>3. \A i : /\ KernelOnChain(i)' <=> KernelOnChain(i)
             /\ OutputOnChain(txs[i])' <=> OutputOnChain(txs[i])
  BY <1>1 DEF KernelOnChain, HasKernel, OutputOnChain
<1>4. ResOK' /\ IndexOK'
  BY <1>1 DEF ReportInv, ResOK, IndexOK
<1>5. EntriesOK'
  BY <1>1 DEF ReportInv, EntriesOK
<1>6. EvidenceOK'
  BY <1>1, <1>2, <1>3 DEF ReportInv, EvidenceOK
<1>7. SweptOK'
  <2>1. NoSentSwept' <=> NoSentSwept
    BY <1>1 DEF NoSentSwept
  <2> QED BY <1>1, <1>2, <2>1 DEF ReportInv, SweptOK
<1>8. FoundOK => FoundOK'
  BY <1>1, <1>3 DEF FoundOK
<1> QED BY <1>4, <1>5, <1>6, <1>7, <1>8 DEF ReportInv

LEMMA StepReport == Inv /\ ReportInv /\ [Next]_vars => ReportInv'
<1> SUFFICES ASSUME Inv, ReportInv, [Next]_vars PROVE ReportInv'
  OBVIOUS
<1>1. CASE Merge
  <2>1. FoundOK
    <3>1. pc = "merge"
      BY <1>1 DEF Merge, MergeNothingLeft, MergeNoOutputs, MergeCancelled, MergeFound,
         MergeNotFound, MergeTooFew, MergeDone, Looked, Searching, Popping
    <3>2. chain.kernels = {} /\ chain.outputs = {}
      BY <3>1 DEF ReportInv, EvidenceOK
    <3> QED BY <3>2 DEF FoundOK, KernelOnChain, OutputOnChain
  <2> QED BY <1>1, <2>1, MergeReport
<1> QED
  BY <1>1, CollectReport, ReadKernelsReport, ReadOutputsReport, SweepReport, QuietReport
     DEF Next, Validate

LEMMA ReportInvariant == Spec => [](Inv /\ ReportInv)
<1>1. Init => ReportInv
  BY InitReport
<1> QED BY <1>1, InitInv, StepInv, StepReport, PTL DEF Spec

\* For every wallet, whatever the node's dumps hold: a transaction that stands,
\* is reported as not validated and had nothing to be looked up by carries a
\* warning that says so.
THEOREM GapsAreWarned == Spec => []NoSilentGap
<1>1. Inv /\ ReportInv => NoSilentGap
  <2> SUFFICES ASSUME Inv, ReportInv, NEW i \in DOMAIN txs,
                      txs[i].kernels = {}, txs[i].outs = << >>,
                      wallet.txs[txs[i].tx].type \notin Cancelled
               PROVE  txs[i].warnings # {}
    BY DEF NoSilentGap
  <2> DEFINE tx == wallet.txs[res[i].tx]
             ok == res[i].success
  <2>1. /\ i \in DOMAIN res /\ tx.type \notin Cancelled
        /\ txs[i].warnings = WarningsOf(tx, ok) /\ KernelsOf(tx) = {}
        /\ res[i].outs = << >>
    BY SeqShape DEF Inv, ReportInv, EntriesOK
  <2>2. ok => tx.num_outputs = 0
    BY <2>1 DEF ReportInv, ResOK
  <2>3. tx.type \in {"TxReceived", "TxSent", "ConfirmedCoinbase"}
    <3>1. wallet.txs \in Seq(TxLogEntry)
      BY DEF Inv, TypeOK
    <3>2. res[i].tx \in 1 .. Len(wallet.txs)
      <4> DEFINE I == [tx : 1 .. Len(wallet.txs), outs : Seq(Outputs),
                       kernels : SUBSET Kernels, validated : BOOLEAN,
                       flags : SUBSET Flags, warnings : SUBSET Warnings]
      <4>1. txs \in Seq(I) /\ \A info \in I : info.tx \in 1 .. Len(wallet.txs)
        BY DEF Inv, TypeOK
      <4> HIDE DEF I
      <4>2. txs[i].tx \in 1 .. Len(wallet.txs)
        BY <4>1
      <4> QED BY <4>2 DEF ReportInv, EntriesOK
    <3>3. tx \in TxLogEntry
      BY <3>1, <3>2
    <3>4. tx.type \in TxTypes
      BY <3>3 DEF TxLogEntry
    <3> QED BY <2>1, <3>4 DEF TxTypes, Received, Sent, Cancelled
  <2> HIDE DEF tx, ok
  <2>4. WarningsOf(tx, ok) # {}
    BY <2>1, <2>2, <2>3 DEF WarningsOf
  <2> QED BY <2>1, <2>4
<1> QED BY <1>1, ReportInvariant, PTL

\* For every wallet, one pass over the list is enough for the cut-throughs
\* unless a send owes its own verdict to that pass.
THEOREM OnePassCloses == Spec => []SweepClosed
<1>1. Inv /\ ReportInv => SweepClosed
  <2> SUFFICES ASSUME Inv, ReportInv, pc = "done", NoSentSwept,
                      NEW i \in DOMAIN txs, ~ txs[i].validated,
                      NEW o \in Range(txs[i].outs)
               PROVE  ~ SpentByValidated(o)
    BY DEF SweepClosed, NoSentSwept
  <2>1. i \in 1 .. swept
    BY SeqShape DEF Inv, ReportInv, SweptOK
  <2> QED BY <2>1 DEF ReportInv, SweptOK
<1> QED BY <1>1, ReportInvariant, PTL

\* A kernel on the chain counts for the last transaction that has it.
LEMMA ReadKernelsFound ==
    ASSUME Inv, ReportInv, FoundOK, ReadKernels
    PROVE  FoundOK'
<1>1. PICK lines \in SUBSET Kernels :
         /\ chain' = [chain EXCEPT !.kernels = lines]
         /\ txs' = Marked(kernel_to_tx, lines, "K")
  BY DEF ReadKernels
<1> DEFINE hit == {kernel_to_tx[l] : l \in lines \cap DOMAIN kernel_to_tx}
<1>2. wallet' = wallet /\ chain.outputs = {}
  BY DEF ReadKernels, ReportInv, EvidenceOK
<1>3. chain'.kernels = lines /\ chain'.outputs = {}
  BY <1>1, <1>2 DEF Inv, TypeOK
<1>4. MarkStep(hit, "K")
  BY <1>1, MarkedIsMarkStep DEF Inv
<1> SUFFICES ASSUME NEW i \in DOMAIN txs',
                    KernelOnChain(i)' \/ OutputOnChain(txs[i])'
             PROVE  txs'[i].validated
  BY DEF FoundOK
<1>5. i \in DOMAIN txs
  BY <1>4 DEF MarkStep
<1>6. PICK k \in lines : /\ HasKernel(txs[i], k)
                        /\ \A j \in DOMAIN txs : j > i => ~ HasKernel(txs[j], k)
  <2>1. ~ OutputOnChain(txs[i])'
    BY <1>3 DEF OutputOnChain
  <2> HIDE DEF hit
  <2> QED BY <1>2, <1>3, <1>4, <1>5, <2>1, EvidenceOfMarked
<1>7. k \in txs[i].kernels
  BY <1>5, <1>6, KernelsOfEntry DEF ReportInv
<1> DEFINE j == kernel_to_tx[k]
<1>8. k \in DOMAIN kernel_to_tx /\ j \in DOMAIN txs /\ k \in txs[j].kernels /\ i <= j
  BY <1>5, <1>7 DEF ReportInv, IndexOK
<1>9. HasKernel(txs[j], k)
  BY <1>8, KernelsOfEntry DEF ReportInv
<1>10. i \in Nat /\ j \in Nat
  BY <1>5, <1>8, SeqShape DEF Inv
<1>11. i = j
  BY <1>6, <1>8, <1>9, <1>10
<1>12. i \in hit
  BY <1>6, <1>8, <1>11
<1> HIDE DEF hit
<1> QED BY <1>4, <1>5, <1>12 DEF MarkStep

\* An output on the chain counts for its transaction: the merge gave it to one.
LEMMA ReadOutputsFound ==
    ASSUME Inv, ReportInv, FoundOK, ReadOutputs
    PROVE  FoundOK'
<1>1. PICK lines \in SUBSET Outputs :
         /\ chain' = [chain EXCEPT !.outputs = lines]
         /\ txs' = Marked(output_to_tx, lines, "O")
  BY DEF ReadOutputs, Outputs
<1> DEFINE hit == {output_to_tx[l] : l \in lines \cap DOMAIN output_to_tx}
<1>2. wallet' = wallet
  BY DEF ReadOutputs
<1>3. chain'.kernels = chain.kernels /\ chain'.outputs = lines
  BY <1>1 DEF Inv, TypeOK
<1>4. MarkStep(hit, "O")
  BY <1>1, MarkedIsMarkStep DEF Inv
<1> SUFFICES ASSUME NEW i \in DOMAIN txs',
                    KernelOnChain(i)' \/ OutputOnChain(txs[i])'
             PROVE  txs'[i].validated
  BY DEF FoundOK
<1>5. i \in DOMAIN txs
  BY <1>4 DEF MarkStep
<1>6. CASE KernelOnChain(i)'
  <2>1. KernelOnChain(i)
    BY <1>2, <1>3, <1>4, <1>5, <1>6, EvidenceOfMarked DEF KernelOnChain
  <2>2. txs[i].validated
    BY <1>5, <2>1 DEF FoundOK
  <2> HIDE DEF hit
  <2> QED BY <1>4, <1>5, <2>2 DEF MarkStep
<1>7. CASE OutputOnChain(txs[i])'
  <2>1. Range(txs[i].outs) \cap lines # {}
    BY <1>2, <1>3, <1>4, <1>5, <1>7, EvidenceOfMarked
  <2>2. PICK o : o \in Range(txs[i].outs) /\ o \in lines
    BY <2>1
  <2> DEFINE j == output_to_tx[o]
  <2>3. o \in DOMAIN output_to_tx /\ j \in DOMAIN txs /\ o \in Range(txs[j].outs)
    BY <1>5, <2>2 DEF ReportInv, IndexOK
  <2>4. /\ i \in DOMAIN res /\ j \in DOMAIN res
        /\ o \in Range(res[i].outs) /\ o \in Range(res[j].outs)
    BY <1>5, <2>2, <2>3, SeqShape DEF Inv, ReportInv, EntriesOK
  <2> HIDE DEF j
  <2>5. i = j
    BY <2>4 DEF Inv, OutputsPartitioned
  <2>6. i \in hit
    BY <2>2, <2>3, <2>5 DEF j
  <2> HIDE DEF hit
  <2> QED BY <1>4, <1>5, <2>6 DEF MarkStep
<1> QED BY <1>6, <1>7

LEMMA SweepFound ==
    ASSUME Inv, ReportInv, FoundOK, Sweep
    PROVE  FoundOK'
<1> DEFINE i == swept + 1
<1>1. i \in DOMAIN txs
  BY SeqShape DEF Inv, Sweep
<1>2. PICK hit : \/ hit = {} /\ txs' = txs
                 \/ hit = {i} /\ txs' = [txs EXCEPT ![i] = Mark(@, "S")]
  BY DEF Sweep
<1>3. MarkStep(hit, "S")
  BY <1>1, <1>2, SweepIsMarkStep DEF Inv
<1>4. wallet' = wallet /\ chain' = chain
  BY DEF Sweep
<1> SUFFICES ASSUME NEW j \in DOMAIN txs',
                    KernelOnChain(j)' \/ OutputOnChain(txs[j])'
             PROVE  txs'[j].validated
  BY DEF FoundOK
<1>5. j \in DOMAIN txs
  BY <1>3 DEF MarkStep
<1>6. KernelOnChain(j) \/ OutputOnChain(txs[j])
  BY <1>3, <1>4, <1>5, EvidenceOfMarked DEF KernelOnChain, OutputOnChain
<1>7. txs[j].validated
  BY <1>5, <1>6 DEF FoundOK
<1> QED BY <1>3, <1>5, <1>7 DEF MarkStep

LEMMA StepFound == Inv /\ ReportInv /\ FoundOK /\ [Next]_vars => FoundOK'
BY MergeReport, CollectReport, ReadKernelsFound, ReadOutputsFound, SweepFound, QuietReport
   DEF Next, Validate

\* For every wallet, whatever the node's dumps hold: txs_bulk_validate reports a
\* transaction as validated if the chain has one of its outputs, or a kernel of
\* which it is the last entry not received, and else only if a validated send
\* spent one of its outputs.
THEOREM VerdictsAreRight == Spec => []VerdictMatchesEvidence
<1>1. ReportInv /\ FoundOK => VerdictMatchesEvidence
  BY DEF ReportInv, EvidenceOK, FoundOK, VerdictMatchesEvidence
<1>2. Init => FoundOK
  BY InitReport
<1> QED BY <1>1, <1>2, StepFound, ReportInvariant, PTL DEF Spec

(***************************************************************************)
(* Where amounts are unambiguous the merge finds the truth                 *)
(***************************************************************************)

\* What is left of the outputs is in the order of the database.
LeftInOrder ==
    \A j, k \in DOMAIN outputs : j < k => outputs[j] < outputs[k]

\* No transaction has another one's output.
OwnOutputs ==
    Unambiguous => \A j \in DOMAIN res : Range(res[j].outs) \subseteq MadeBy(res[j].tx)

\* The transactions popped so far that stand have the outputs they made.
HaveTheirs ==
    Unambiguous /\ Booked =>
        \A t \in 1 .. popped :
            Standing(t) =>
                \E j \in DOMAIN res : res[j].tx = t /\ Range(res[j].outs) = MadeBy(t)

\* The merge ends when every transaction was popped.
AllPopped == pc = "collect" => popped = Len(wallet.txs)

ExactInv == LeftInOrder /\ OwnOutputs /\ HaveTheirs /\ AllPopped

LEMMA InitExact == Init => ExactInv
<1> SUFFICES ASSUME Init PROVE ExactInv
  OBVIOUS
<1>1. wallet \in [txs : Seq(TxLogEntry), outs : Seq(OutputData)] /\ Len(wallet.outs) \in Nat
  BY WalletsAssumption DEF Init
<1>2. DOMAIN outputs = 1 .. Len(wallet.outs) /\ \A o \in DOMAIN outputs : outputs[o] = o
  BY DEF Init
<1>3. LeftInOrder
  BY <1>1, <1>2 DEF LeftInOrder
<1>4. DOMAIN res = {} /\ popped = 0 /\ pc = "merge"
  BY DEF Init
<1> QED BY <1>3, <1>4 DEF ExactInv, OwnOutputs, HaveTheirs, AllPopped

\* A window of what is left, and what is left without it, are in order.
LEMMA WindowInOrder ==
    ASSUME TypeOK, LeftInOrder, NEW n \in Nat, n > 0, n <= Len(outputs),
           NEW i \in 1 .. Len(outputs) - (n - 1)
    PROVE  /\ Window(outputs, i, n) \in InOrder(n)
           /\ \A j, k \in DOMAIN WithoutWindow(outputs, i, n) :
                 j < k => WithoutWindow(outputs, i, n)[j] < WithoutWindow(outputs, i, n)[k]
<1> DEFINE w == Window(outputs, i, n)
           r == WithoutWindow(outputs, i, n)
           P(k) == IF k < i THEN k ELSE k + n
<1>1. /\ outputs \in Seq(Outputs) /\ Len(outputs) \in Nat /\ DOMAIN outputs = 1 .. Len(outputs)
  BY DEF TypeOK
<1>2. /\ w \in [1 .. n -> Outputs]
      /\ \A k \in 1 .. n : w[k] = outputs[i + k - 1] /\ i + k - 1 \in DOMAIN outputs
  BY <1>1 DEF Window
<1>3. DOMAIN r = 1 .. Len(outputs) - n
  BY DEF WithoutWindow
<1>4. \A k \in DOMAIN r : r[k] = outputs[P(k)] /\ P(k) \in DOMAIN outputs
  BY <1>1 DEF WithoutWindow
<1>5. \A j, k \in DOMAIN r : j < k => P(j) < P(k)
  BY <1>1, <1>3
<1> HIDE DEF w, r, P
<1>6. ASSUME NEW j \in 1 .. n, NEW k \in 1 .. n, j < k PROVE w[j] < w[k]
  <2>1. i + j - 1 < i + k - 1
    BY <1>6
  <2> QED BY <1>2, <2>1 DEF LeftInOrder
<1>7. ASSUME NEW j \in DOMAIN r, NEW k \in DOMAIN r, j < k PROVE r[j] < r[k]
  BY <1>4, <1>5, <1>7 DEF LeftInOrder
<1> QED BY <1>2, <1>6, <1>7 DEF w, r, InOrder

\* A choice of n outputs has n outputs.
LEMMA InOrderSize ==
    ASSUME NEW n \in Nat, NEW q \in InOrder(n), Outputs \subseteq Nat
    PROVE  IsFiniteSet(Range(q)) /\ Cardinality(Range(q)) = n
<1>1. q \in [1 .. n -> Outputs] /\ \A j, k \in 1 .. n : j < k => q[j] < q[k]
  BY DEF InOrder
<1>2. \A j, k \in 1 .. n : q[j] = q[k] => j = k
  <2> SUFFICES ASSUME NEW j \in 1 .. n, NEW k \in 1 .. n, q[j] = q[k] PROVE j = k
    OBVIOUS
  <2>1. q[j] \in Nat /\ q[k] \in Nat
    BY <1>1
  <2>2. ~ (q[j] < q[k]) /\ ~ (q[k] < q[j])
    BY <2>1
  <2> QED BY <1>1, <2>2
<1>3. q \in [1 .. n -> Range(q)] /\ \A t \in Range(q) : \E s \in 1 .. n : q[s] = t
  BY <1>1 DEF Range
<1>4. ExistsBijection(1 .. n, Range(q))
  <2>1. DOMAIN q = 1 .. n
    BY <1>1
  <2>2. q \in Bijection(1 .. n, Range(q))
    BY <1>2, <1>3, <2>1 DEF Bijection, Injection, Surjection, IsInjective
  <2> QED BY <2>2 DEF ExistsBijection
<1>5. IsFiniteSet(1 .. n) /\ Cardinality(1 .. n) = n
  BY FS_Interval
<1> QED BY <1>4, <1>5, FS_Bijection

\* A transaction that stands finds its outputs: none of them is taken, and what
\* is left between two of them is its own as well, so they are a window.
LEMMA TheirsMatch ==
    ASSUME Inv, LeftInOrder, OwnOutputs, Unambiguous, Booked, Popping, Standing(popped + 1)
    PROVE  /\ outputs # << >> /\ Tx.num_outputs > 0 /\ Tx.num_outputs <= Len(outputs)
           /\ Matches(Tx) # {}
           /\ Cardinality(MadeBy(popped + 1)) = Tx.num_outputs
           /\ IsFiniteSet(MadeBy(popped + 1))
<1> DEFINE t == popped + 1
           n == Tx.num_outputs
<1>1. /\ popped \in Nat /\ t \in DOMAIN wallet.txs
      /\ n \in Nat /\ Tx = wallet.txs[t]
  BY TxTyped DEF Inv, TypeOK, Popping, Tx
<1>2. /\ outputs \in Seq(Outputs) /\ Len(outputs) \in Nat
      /\ DOMAIN outputs = 1 .. Len(outputs) /\ Outputs \subseteq Nat
      /\ \A j \in DOMAIN outputs : outputs[j] \in Outputs
  BY DEF Inv, TypeOK, Outputs
<1>3. PICK q \in InOrder(n) : Range(q) = MadeBy(t) /\ Amount(q) = Tx.amount_credited
  BY <1>1 DEF Booked
<1>4. /\ q \in [1 .. n -> Outputs] /\ \A j, k \in 1 .. n : j < k => q[j] < q[k]
      /\ \A k \in 1 .. n : q[k] \in MadeBy(t)
      /\ \A o \in MadeBy(t) : \E k \in 1 .. n : o = q[k]
  BY <1>3 DEF InOrder, Range
<1>5. MadeBy(t) # {} /\ MadeBy(t) \subseteq Outputs
  BY DEF Standing, MadeBy
<1>6. n > 0 /\ 1 \in 1 .. n
  BY <1>1, <1>4, <1>5
<1>7. ASSUME NEW o \in MadeBy(t) PROVE \E p \in DOMAIN outputs : outputs[p] = o
  <2>1. ASSUME NEW j \in DOMAIN res, o \in Range(res[j].outs) PROVE FALSE
    <3>1. wallet.outs[o].by = res[j].tx
      BY <2>1 DEF OwnOutputs, MadeBy
    <3>2. wallet.outs[o].by = t
      BY DEF MadeBy
    <3>3. res[j].tx \in 1 .. popped
      <4> DEFINE E == [tx : 1 .. popped, outs : Seq(Outputs), success : BOOLEAN]
      <4>1. res \in Seq(E)
        BY DEF Inv, TypeOK
      <4>2. \A e \in E : e.tx \in 1 .. popped
        OBVIOUS
      <4> HIDE DEF E
      <4> QED BY <4>1, <4>2
    <3> QED BY <1>1, <3>1, <3>2, <3>3
  <2>2. o \in Range(outputs)
    BY <1>5, <2>1 DEF Inv, OutputsPartitioned
  <2> QED BY <2>2 DEF Range
<1>8. PICK i \in DOMAIN outputs : outputs[i] = q[1]
  BY <1>4, <1>6, <1>7
<1> HIDE DEF n, t
<1> DEFINE At(k) == i + k - 1 \in DOMAIN outputs /\ outputs[i + k - 1] = q[k]
           Off == {k \in 1 .. n : ~ At(k)}
<1>9. Off = {}
  <2> SUFFICES ASSUME Off # {} PROVE FALSE
    OBVIOUS
  <2> PICK k : k = First(Off)
    OBVIOUS
  <2>1. k \in 1 .. n /\ ~ At(k) /\ \A j \in 1 .. n : j < k => At(j)
    <3>1. Off \subseteq Nat
      BY <1>1
    <3>2. k \in Off /\ \A j \in Off : k <= j
      <4> HIDE DEF Off
      <4> QED BY <3>1, FirstLeast
    <3>3. k \in 1 .. n /\ ~ At(k)
      BY <3>2
    <3>4. ASSUME NEW j \in 1 .. n, j < k PROVE At(j)
      <4> SUFFICES ASSUME ~ At(j) PROVE FALSE
        OBVIOUS
      <4>1. j \in Off
        OBVIOUS
      <4>2. k <= j
        BY <3>2, <4>1
      <4> QED BY <3>3, <3>4, <4>2, <1>1
    <3> QED BY <3>3, <3>4
  <2>2. k # 1
    BY <1>2, <1>8, <2>1
  <2>3. k - 1 \in 1 .. n /\ k - 1 < k /\ k \in Nat
    BY <1>1, <2>1, <2>2
  <2>4. i + (k - 1) - 1 \in DOMAIN outputs /\ outputs[i + (k - 1) - 1] = q[k - 1]
    BY <2>1, <2>3
  <2>5. PICK p \in DOMAIN outputs : outputs[p] = q[k]
    BY <1>4, <1>7, <2>1
  <2>6. q[k - 1] < q[k]
    BY <1>4, <2>1, <2>3
  <2>7. p > i + (k - 1) - 1
    <3> DEFINE e == i + (k - 1) - 1
    <3>1. outputs[e] < outputs[p] /\ outputs[e] \in Nat /\ outputs[p] \in Nat
      BY <1>2, <2>4, <2>5, <2>6
    <3>2. ~ (p < e) /\ p # e
      <4>1. p < e => outputs[p] < outputs[e]
        BY <2>4, <2>5 DEF LeftInOrder
      <4> QED BY <3>1, <4>1
    <3> QED BY <1>2, <2>4, <3>2
  <2> DEFINE m == i + k - 1
  <2>8. m \in DOMAIN outputs /\ m <= p /\ m > i + (k - 1) - 1
    BY <1>2, <2>1, <2>3, <2>4, <2>7, SMTT(30)
  <2>9. q[k - 1] < outputs[m] /\ outputs[m] <= q[k]
    <3>1. outputs[i + (k - 1) - 1] < outputs[m]
      BY <2>4, <2>8 DEF LeftInOrder
    <3>2. m < p => outputs[m] < outputs[p]
      BY <2>8 DEF LeftInOrder
    <3>3. outputs[m] \in Nat /\ outputs[p] \in Nat
      BY <1>2, <2>8
    <3>4. m < p \/ m = p
      BY <1>2, <2>8
    <3> HIDE DEF m
    <3> QED BY <2>4, <2>5, <3>1, <3>2, <3>3, <3>4
  <2>10. outputs[m] \in MadeBy(t)
    <3> DEFINE o == outputs[m]
    <3>1. o \in Outputs /\ q[k - 1] \in MadeBy(t) /\ q[k] \in MadeBy(t)
      BY <1>2, <1>4, <2>1, <2>3, <2>8
    <3>2. q[k - 1] \in Outputs /\ q[k] \in Outputs /\ wallet.outs[q[k - 1]].by = t /\ wallet.outs[q[k]].by = t
      BY <3>1 DEF MadeBy
    <3>3. wallet.outs[q[k - 1]].by <= wallet.outs[o].by
      BY <2>9, <3>1, <3>2 DEF Unambiguous
    <3>4. o < q[k] => wallet.outs[o].by <= wallet.outs[q[k]].by
      BY <3>1, <3>2 DEF Unambiguous
    <3>5. o < q[k] \/ o = q[k]
      <4>1. o \in Nat /\ q[k] \in Nat
        BY <1>2, <3>1, <3>2
      <4> HIDE DEF m
      <4> QED BY <2>9, <4>1
    <3>6. wallet.outs[o].by \in Nat
      <4>1. wallet.outs \in Seq(OutputData) /\ o \in 1 .. Len(wallet.outs)
        BY <3>1 DEF Inv, TypeOK, Outputs
      <4>2. wallet.outs[o] \in OutputData
        BY <4>1
      <4> QED BY <4>2 DEF OutputData
    <3>7. t \in Nat
      BY <1>1 DEF t
    <3>8. wallet.outs[o].by = t
      <4> HIDE DEF o
      <4> QED BY <3>2, <3>3, <3>4, <3>5, <3>6, <3>7
    <3> QED BY <3>1, <3>8 DEF MadeBy
  <2>11. PICK l \in 1 .. n : outputs[m] = q[l]
    BY <1>4, <2>10
  <2>12. l = k
    <3> HIDE DEF m
    <3>1. q[l] \in Nat /\ q[k] \in Nat /\ q[k - 1] \in Nat
      BY <1>2, <1>4, <2>1, <2>3
    <3>2. ~ (l < k - 1) /\ l # k - 1
      <4>1. l < k - 1 => q[l] < q[k - 1]
        BY <1>4, <2>3
      <4> QED BY <2>9, <2>11, <3>1, <4>1
    <3>3. ~ (l > k)
      <4>1. l > k => q[k] < q[l]
        BY <1>4, <2>1
      <4> QED BY <2>9, <2>11, <3>1, <4>1
    <3> QED BY <1>1, <2>1, <3>2, <3>3
  <2> QED BY <2>1, <2>8, <2>11, <2>12
<1>10. ASSUME NEW k \in 1 .. n PROVE At(k)
  BY <1>9
<1> HIDE DEF Off
<1>11. n <= Len(outputs) /\ i \in 1 .. Len(outputs) - (n - 1)
  <2>1. n \in 1 .. n
    BY <1>1, <1>6
  <2>2. i + n - 1 \in DOMAIN outputs
    BY <1>10, <2>1
  <2> QED BY <1>1, <1>2, <2>2
<1>12. Window(outputs, i, n) = q
  <2>1. \A k \in 1 .. n : outputs[i + k - 1] = q[k]
    BY <1>10
  <2> QED BY <1>4, <2>1 DEF Window
<1>13. i \in Matches(Tx)
  BY <1>3, <1>11, <1>12 DEF Matches, n
<1>14. IsFiniteSet(MadeBy(t)) /\ Cardinality(MadeBy(t)) = n
  BY <1>1, <1>2, <1>3, InOrderSize
<1>15. outputs # << >>
  BY <1>8
<1> QED BY <1>6, <1>11, <1>13, <1>14, <1>15 DEF n, t

\* A step that pushes one entry with outputs of its transaction.
LEMMA PushExact ==
    ASSUME Inv, ExactInv, Popping, PopsTransaction,
           \A j, k \in DOMAIN outputs' : j < k => outputs'[j] < outputs'[k],
           NEW w, NEW b, res' = Append(res, Entry(popped + 1, w, b)),
           Unambiguous => Range(w) \subseteq MadeBy(popped + 1),
           Unambiguous /\ Booked /\ Standing(popped + 1) => Range(w) = MadeBy(popped + 1)
    PROVE  ExactInv'
<1> DEFINE n == Len(res) + 1
<1>1. /\ wallet' = wallet /\ popped' = popped + 1 /\ pc' = pc /\ pc = "merge"
      /\ popped \in Nat
  BY DEF Inv, TypeOK, Popping, PopsTransaction
<1>2. /\ DOMAIN res = 1 .. Len(res) /\ Len(res) \in Nat /\ DOMAIN res' = 1 .. n
      /\ \A j \in 1 .. Len(res) : res'[j] = res[j]
      /\ res'[n].tx = popped + 1 /\ res'[n].outs = w
  BY DEF Inv, TypeOK, Entry
<1>3. Outputs' = Outputs /\ Unambiguous' = Unambiguous /\ Booked' = Booked
      /\ \A t : MadeBy(t)' = MadeBy(t) /\ Standing(t)' = Standing(t)
  BY <1>1 DEF Outputs, Unambiguous, Booked, MadeBy, Standing, InOrder, Amount, Value
<1>4. LeftInOrder'
  BY DEF LeftInOrder
<1>5. OwnOutputs'
  <2> SUFFICES ASSUME Unambiguous, NEW j \in 1 .. n
               PROVE  Range(res'[j].outs) \subseteq MadeBy(res'[j].tx)
    BY <1>1, <1>2, <1>3 DEF OwnOutputs, MadeBy, Outputs
  <2>1. CASE j = n
    BY <1>2, <2>1
  <2>2. CASE j # n
    <3>1. j \in 1 .. Len(res)
      BY <1>2, <2>2
    <3> QED BY <1>2, <3>1 DEF ExactInv, OwnOutputs
  <2> QED BY <2>1, <2>2
<1>6. HaveTheirs'
  <2> SUFFICES ASSUME Unambiguous, Booked, NEW t \in 1 .. popped + 1, Standing(t)
               PROVE  \E j \in 1 .. n : res'[j].tx = t /\ Range(res'[j].outs) = MadeBy(t)
    BY <1>1, <1>2, <1>3, SMTT(30) DEF HaveTheirs, Standing, MadeBy, Outputs
  <2>1. CASE t = popped + 1
    BY <1>2, <2>1
  <2>2. CASE t # popped + 1
    <3>1. t \in 1 .. popped
      BY <1>1, <2>2
    <3>2. PICK j \in DOMAIN res : res[j].tx = t /\ Range(res[j].outs) = MadeBy(t)
      BY <3>1 DEF ExactInv, HaveTheirs
    <3>3. j \in 1 .. n /\ res'[j] = res[j]
      BY <1>2
    <3> QED BY <3>2, <3>3
  <2> QED BY <2>1, <2>2
<1>7. AllPopped'
  BY <1>1 DEF AllPopped
<1> QED BY <1>4, <1>5, <1>6, <1>7 DEF ExactInv

\* The first window that makes up the amount is the transaction's own.
LEMMA FoundExact == Inv /\ ExactInv /\ MergeFound => ExactInv'
<1> SUFFICES ASSUME Inv, ExactInv, MergeFound PROVE ExactInv'
  OBVIOUS
<1> DEFINE n == Tx.num_outputs
           i == First(Matches(Tx))
           t == popped + 1
<1>1. Popping /\ PopsTransaction /\ LeftInOrder
  BY DEF MergeFound, Looked, Searching, PopsTransaction, ExactInv
<1>2. n \in Nat /\ n > 0 /\ n <= Len(outputs) /\ Len(outputs) \in Nat
  BY <1>1, TxTyped DEF Inv, TypeOK, MergeFound, Looked, Searching
<1>3. i \in 1 .. Len(outputs) - (n - 1) /\ Amount(Window(outputs, i, n)) = Tx.amount_credited
  <2>1. Matches(Tx) \subseteq Nat /\ Matches(Tx) # {}
    BY <1>2 DEF Matches, MergeFound
  <2>2. i \in Matches(Tx)
    BY <2>1, FirstIn
  <2> QED BY <2>2 DEF Matches
<1> DEFINE w == Window(outputs, i, n)
           r == WithoutWindow(outputs, i, n)
<1>4. outputs' = r /\ res' = Append(res, Entry(popped + 1, w, TRUE))
  BY DEF MergeFound, Push, Entry
<1>5. t \in DOMAIN wallet.txs /\ Tx = wallet.txs[t] /\ Outputs \subseteq Nat
  BY <1>1 DEF Inv, TypeOK, Popping, Tx, Outputs
<1> HIDE DEF i, n
<1>6. w \in InOrder(n) /\ \A j, k \in DOMAIN r : j < k => r[j] < r[k]
  BY <1>1, <1>2, <1>3, WindowInOrder DEF Inv
<1> HIDE DEF w, r
<1>7. Unambiguous => Range(w) \subseteq MadeBy(t)
  BY <1>3, <1>5, <1>6 DEF Unambiguous, n, w
<1>8. ASSUME Unambiguous, Booked, Standing(t) PROVE Range(w) = MadeBy(t)
  <2>1. IsFiniteSet(MadeBy(t)) /\ Cardinality(MadeBy(t)) = n
    BY <1>1, <1>8, TheirsMatch DEF ExactInv, n
  <2>2. Cardinality(Range(w)) = n
    BY <1>2, <1>5, <1>6, InOrderSize
  <2> QED BY <1>7, <1>8, <2>1, <2>2, FS_Subset
<1> QED BY <1>1, <1>4, <1>6, <1>7, <1>8, PushExact

\* Wherever nothing is found the transaction made no outputs, or was cancelled.
LEMMA NothingExact ==
    ASSUME Inv, ExactInv, Popping, PopsTransaction, UNCHANGED outputs,
           NEW b, Push(<< >>, b),
           Unambiguous /\ Booked => ~ Standing(popped + 1)
    PROVE  ExactInv'
<1>1. res' = Append(res, Entry(popped + 1, << >>, b)) /\ Range(<< >>) = {}
  BY DEF Push, Entry, Range
<1>2. \A j, k \in DOMAIN outputs' : j < k => outputs'[j] < outputs'[k]
  BY DEF ExactInv, LeftInOrder
<1> QED BY <1>1, <1>2, PushExact

LEMMA MergeExactStep == Inv /\ ExactInv /\ Merge => ExactInv'
<1> SUFFICES ASSUME Inv, ExactInv, Merge PROVE ExactInv'
  OBVIOUS
<1> USE DEF ExactInv
<1>1. CASE MergeNothingLeft
  <2>1. Unambiguous /\ Booked => ~ Standing(popped + 1)
    BY <1>1, TheirsMatch DEF MergeNothingLeft
  <2> QED BY <1>1, <2>1, NothingExact DEF MergeNothingLeft
<1>2. CASE MergeNoOutputs
  <2>1. Unambiguous /\ Booked => ~ Standing(popped + 1)
    BY <1>2, TheirsMatch DEF MergeNoOutputs
  <2> QED BY <1>2, <2>1, NothingExact DEF MergeNoOutputs
<1>3. CASE MergeCancelled
  <2>1. ~ Standing(popped + 1)
    BY <1>3 DEF MergeCancelled, Tx, Standing
  <2> QED BY <1>3, <2>1, NothingExact DEF MergeCancelled, Searching
<1>4. CASE MergeFound
  BY <1>4, FoundExact
<1>5. CASE MergeNotFound
  <2>1. Unambiguous /\ Booked => ~ Standing(popped + 1)
    BY <1>5, TheirsMatch DEF MergeNotFound, Looked, Searching
  <2> QED BY <1>5, <2>1, NothingExact DEF MergeNotFound, Looked, Searching
<1>6. CASE MergeTooFew
  <2>1. Popping /\ UNCHANGED << wallet, outputs, res, pc >> /\ popped' = popped + 1
    BY <1>6 DEF MergeTooFew, Looked, Searching, PopsTransaction
  <2>2. Tx.num_outputs \in Nat /\ Len(outputs) \in Nat /\ popped \in Nat /\ pc = "merge"
    BY <2>1, TxTyped DEF Inv, TypeOK, Popping
  <2>3. Unambiguous /\ Booked => ~ Standing(popped + 1)
    BY <1>6, <2>1, <2>2, TheirsMatch DEF MergeTooFew
  <2>4. Unambiguous' = Unambiguous /\ Booked' = Booked
    BY <2>1 DEF Outputs, Unambiguous, Booked, MadeBy, Standing, InOrder, Amount, Value
  <2>5. LeftInOrder' /\ OwnOutputs' /\ AllPopped'
    BY <2>1, <2>2, <2>4 DEF LeftInOrder, OwnOutputs, AllPopped, MadeBy, Outputs
  <2>6. HaveTheirs'
    <3>1. ASSUME Unambiguous, Booked, NEW t \in 1 .. popped + 1, Standing(t)
          PROVE  \E j \in DOMAIN res : res[j].tx = t /\ Range(res[j].outs) = MadeBy(t)
      <4>1. t \in 1 .. popped
        BY <2>2, <2>3, <3>1
      <4> QED BY <3>1, <4>1 DEF HaveTheirs
    <3> QED BY <2>1, <2>4, <3>1 DEF HaveTheirs, Standing, MadeBy, Outputs
  <2> QED BY <2>5, <2>6
<1>7. CASE MergeDone
  <2>1. UNCHANGED << wallet, outputs, res, popped >> /\ popped = Len(wallet.txs)
    BY <1>7 DEF MergeDone, merging
  <2>2. Unambiguous' = Unambiguous /\ Booked' = Booked
    BY <2>1 DEF Outputs, Unambiguous, Booked, MadeBy, Standing, InOrder, Amount, Value
  <2> QED BY <2>1, <2>2
          DEF LeftInOrder, OwnOutputs, HaveTheirs, AllPopped, Standing, MadeBy, Outputs
<1> QED BY <1>1, <1>2, <1>3, <1>4, <1>5, <1>6, <1>7 DEF Merge

\* What follows the merge leaves its result alone.
LEMMA StepExact == Inv /\ ExactInv /\ [Next]_vars => ExactInv'
<1> SUFFICES ASSUME Inv, ExactInv, [Next]_vars PROVE ExactInv'
  OBVIOUS
<1>1. ASSUME UNCHANGED << wallet, outputs, res, popped >>, pc' = "collect" => pc = "collect"
      PROVE  ExactInv'
  <2>1. Unambiguous' = Unambiguous /\ Booked' = Booked
    BY <1>1 DEF Outputs, Unambiguous, Booked, MadeBy, Standing, InOrder, Amount, Value
  <2> QED BY <1>1, <2>1
          DEF ExactInv, LeftInOrder, OwnOutputs, HaveTheirs, AllPopped, Standing, MadeBy, Outputs
<1>2. CASE Validate
  <2>1. UNCHANGED << wallet, outputs, res, popped >> /\ (pc' = "collect" => pc = "collect")
    BY <1>2 DEF Validate, Collect, CollectDone, ReadKernels, ReadOutputs, CallFails, Sweep,
       SweepDone, Report, merging
  <2> QED BY <1>1, <2>1
<1>3. CASE UNCHANGED vars
  BY <1>1, <1>3 DEF vars
<1> QED BY <1>2, <1>3, MergeExactStep DEF Next

\* For every database: where only its own outputs add up to what a transaction
\* was credited, calc_best_merge (wallet/api/api.rs:381-452) gives no transaction
\* another one's output, and a transaction that stands and is booked with its
\* outputs is reported with all of them.
THEOREM MergeFindsTheTruth == Spec => []MergeExact
<1>1. Inv /\ ExactInv => MergeExact
  <2> SUFFICES ASSUME Inv, ExactInv, pc = "collect", Unambiguous
               PROVE  /\ \A j \in DOMAIN res : Range(res[j].outs) \subseteq MadeBy(res[j].tx)
                      /\ Booked =>
                            \A t \in DOMAIN wallet.txs :
                               Standing(t) =>
                                  \E j \in DOMAIN res :
                                     res[j].tx = t /\ Range(res[j].outs) = MadeBy(t)
    BY DEF MergeExact
  <2>1. DOMAIN wallet.txs = 1 .. popped
    BY DEF Inv, TypeOK, ExactInv, AllPopped
  <2> QED BY <2>1 DEF ExactInv, OwnOutputs, HaveTheirs
<1> QED BY <1>1, InitInv, StepInv, InitExact, StepExact, PTL DEF Spec
=============================================================================
