------------------------- MODULE MedacMempool_proofs -------------------------
(***************************************************************************)
(* What the mempool of a MEDAC node keeps, for every set of transactions,  *)
(* every peer and every number of frames in a tick.                        *)
(***************************************************************************)
EXTENDS MedacMempool, Totals

-----------------------------------------------------------------------------
(* The inductive invariant *)

\* What waits in the queue.
CallbackSet ==
    [kind : {"submitted"}, transactions : {<<tx>> : tx \in Transaction}]
        \cup [kind : {"included", "adopted"}, transactions : Seq(Transaction)]

ShapeOK ==
    /\ chain \in Seq(MempoolBlock)
    /\ mempool \in Seq(Transaction)
    /\ callbacks \in Seq(CallbackSet)
    /\ exposed \in BOOLEAN

\* A block or a reorganisation is still to be worked off, after place i.
ChangeAfter(i) == \E j \in (i + 1)..Len(callbacks) : callbacks[j].kind # "submitted"

\* Not below the chain's next nonce of its sender.
Fresh(blocks, tx) == tx.nonce >= LedgerOf(blocks).nonces[tx.from]

\* A transaction that waits is fresh, or a callback that will drop it comes later.
FreshOrDropped ==
    /\ \A i \in 1..Len(mempool) : Fresh(chain, mempool[i]) \/ ChangeAfter(0)
    /\ \A i \in 1..Len(callbacks) :
           callbacks[i].kind = "submitted" =>
               Fresh(chain, callbacks[i].transactions[1]) \/ ChangeAfter(i)

\* While nothing is exposed a submission waits at the head of the queue only,
\* and alone it keeps the mempool executable.
AloneExecutable ==
    ~exposed =>
        /\ \A i \in 2..Len(callbacks) : callbacks[i].kind # "submitted"
        /\ Len(callbacks) = 1 /\ callbacks[1].kind = "submitted" =>
               /\ callbacks[1].transactions[1] \notin ToSet(mempool)
               /\ Executable(chain, Append(mempool, callbacks[1].transactions[1]))
        /\ callbacks = <<>> => Executable(chain, mempool)

\* The search is for a block on this chain or on a shorter one, a shorter one
\* when a change of the chain waits; on this chain its list is executable.
SearchOK ==
    mining # None =>
        /\ mining.chain \in Seq(MempoolBlock)
        /\ mining.transactions \in Seq(Transaction)
        /\ Len(mining.chain) <= Len(chain)
        /\ ChangeAfter(0) => Len(mining.chain) < Len(chain)
        /\ mining.chain = chain /\ ~exposed => Executable(chain, mining.transactions)

MempoolInv == ShapeOK /\ FreshOrDropped /\ AloneExecutable /\ SearchOK

-----------------------------------------------------------------------------
(* A list of transactions, one after the other *)

\* The ledgers, between transactions too.
Ledgers ==
    [ok : BOOLEAN, balances : [Accounts -> Int], nonces : [Accounts -> Nat],
     totalFees : Int, seen : SUBSET Transaction]

\* One transaction: a ledger that is refused stays so, the nonces only grow, and
\* what is accepted has its sender's nonce.
LEMMA TransactionKeeps ==
    ASSUME NEW acc \in Ledgers, NEW tx \in Transaction
    PROVE  /\ ApplyTransaction(acc, tx) \in Ledgers
           /\ ApplyTransaction(acc, tx).ok => acc.ok /\ tx.nonce = acc.nonces[tx.from]
           /\ \A a \in Accounts : ApplyTransaction(acc, tx).nonces[a] >= acc.nonces[a]
<1>1. /\ acc.balances \in [Accounts -> Int] /\ acc.nonces \in [Accounts -> Nat]
      /\ acc.totalFees \in Int /\ acc.ok \in BOOLEAN /\ acc.seen \in SUBSET Transaction
      /\ acc = [ok |-> acc.ok, balances |-> acc.balances, nonces |-> acc.nonces,
                totalFees |-> acc.totalFees, seen |-> acc.seen]
    BY DEF Ledgers
<1>2. PICK debited, next : /\ debited = [acc.balances EXCEPT ![tx.from] = @ - tx.amount - tx.fee]
                           /\ next = ApplyTransaction(acc, tx)
    OBVIOUS
<1>3. CASE ~acc.ok \/ ~AcceptsTransaction(acc, tx)
  <2>1. next = [acc EXCEPT !.ok = FALSE]
      BY <1>2, <1>3 DEF ApplyTransaction
  <2>2. next = [ok |-> FALSE, balances |-> acc.balances, nonces |-> acc.nonces,
                totalFees |-> acc.totalFees, seen |-> acc.seen]
      BY <1>1, <2>1
  <2> QED BY <1>1, <1>2, <2>2 DEF Ledgers
<1>4. CASE acc.ok /\ AcceptsTransaction(acc, tx)
  <2>1. /\ tx.amount \in Nat /\ tx.fee \in Nat /\ tx.from \in Accounts
        /\ tx.nonce = acc.nonces[tx.from]
      BY <1>4, MempoolAssumption, SupplyAssumption DEF AcceptsTransaction, WellFormedTransaction
  <2>2. PICK credited, nonces : /\ credited = [debited EXCEPT ![tx.to] = @ + tx.amount]
                                /\ nonces = [acc.nonces EXCEPT ![tx.from] = @ + 1]
      OBVIOUS
  <2>3. next = [ok |-> acc.ok, balances |-> credited, nonces |-> nonces,
                totalFees |-> acc.totalFees + tx.fee, seen |-> acc.seen \cup {tx}]
    <3>1. next = [acc EXCEPT !.balances = credited, !.nonces[tx.from] = @ + 1,
                             !.totalFees = @ + tx.fee, !.seen = @ \cup {tx}]
        BY <1>2, <1>4, <2>2 DEF ApplyTransaction
    <3> QED BY <1>1, <2>2, <3>1
  <2>4. debited \in [Accounts -> Int]
      BY <1>1, <1>2, <2>1
  <2>5. credited \in [Accounts -> Int]
    <3>1. credited = [a \in Accounts |-> IF a = tx.to THEN debited[a] + tx.amount ELSE debited[a]]
        BY <2>2, <2>4
    <3> QED BY <2>1, <2>4, <3>1
  <2>6. nonces \in [Accounts -> Nat] /\ \A a \in Accounts : nonces[a] >= acc.nonces[a]
    <3>1. PICK old : old = acc.nonces
        OBVIOUS
    <3>2. nonces = [a \in Accounts |-> IF a = tx.from THEN old[a] + 1 ELSE old[a]]
        BY <1>1, <2>2, <3>1
    <3>3. \A a \in Accounts : old[a] \in Nat
        BY <1>1, <3>1
    <3> QED BY <3>1, <3>2, <3>3
  <2> QED BY <1>1, <1>2, <1>4, <2>1, <2>3, <2>5, <2>6 DEF Ledgers
<1> QED BY <1>3, <1>4

\* acc holds the ledgers before, between and after the transactions.
TakenInOrder(acc, base, txs) ==
    /\ acc[0] = base
    /\ \A k \in 1..Len(txs) : acc[k] = ApplyTransaction(acc[k - 1], txs[k])
    /\ \A k \in 0..Len(txs) : acc[k] \in Ledgers

\* The fold of applyTransactions takes the transactions in order.
LEMMA TransactionsInOrder ==
    ASSUME NEW txs \in Seq(Transaction), NEW base \in Ledgers
    PROVE  \E acc : /\ TakenInOrder(acc, base, txs)
                    /\ FoldLeft(ApplyTransaction, base, txs) = acc[Len(txs)]
<1>1. PICK n : n = Len(txs) /\ n \in Nat /\ DOMAIN txs = 1..n
    OBVIOUS
<1> DEFINE Folds(it) == it = [s \in SUBSET (1..n) |-> IF s = {} THEN base
                               ELSE ApplyTransaction(it[s \ {Max(s)}], txs[Max(s)])]
<1>2. \A acc \in Ledgers, k \in 1..n : ApplyTransaction(acc, txs[k]) \in Ledgers
    BY <1>1, TransactionKeeps
<1>3. PICK step : step = [k \in 1..n |-> [acc \in Ledgers |-> ApplyTransaction(acc, txs[k])]]
    OBVIOUS
<1>4. \A acc \in Ledgers, k \in 1..n : /\ step[k][acc] = ApplyTransaction(acc, txs[k])
                                       /\ step[k][acc] \in Ledgers
    BY <1>2, <1>3
<1>5. PICK it : FoldsAll(it, step, base, n) /\ StaysGood(it, n, Ledgers)
  <2>1. n \in Nat /\ base \in Ledgers /\ \A acc \in Ledgers, k \in 1..n : step[k][acc] \in Ledgers
      BY <1>1, <1>4
  <2> QED BY <2>1, FoldExists
<1>6. \A s \in SUBSET (1..n) : s # {} =>
          step[Max(s)][it[s \ {Max(s)}]] = ApplyTransaction(it[s \ {Max(s)}], txs[Max(s)])
    BY <1>1, <1>4, <1>5, LastOfPlaces DEF StaysGood
<1>7. \E g : Folds(g)
  <2>1. it = [s \in SUBSET (1..n) |-> IF s = {} THEN base
                ELSE ApplyTransaction(it[s \ {Max(s)}], txs[Max(s)])]
      BY <1>5, <1>6 DEF FoldsAll
  <2> QED BY <2>1
<1>8. PICK the : the = CHOOSE g : Folds(g)
    OBVIOUS
<1>9. Folds(the)
  <2> HIDE DEF Folds
  <2> QED BY <1>7, <1>8
<1>10. FoldLeft(ApplyTransaction, base, txs) = the[1..n]
    BY <1>1, <1>8 DEF FoldLeft, MapThenFoldSet
<1>11. PICK acc : acc = [k \in 0..n |-> the[1..k]]
    OBVIOUS
<1>12. acc[0] = base
  <2>1. 1..0 = {} /\ 0 \in 0..n
      BY <1>1
  <2> QED BY <1>9, <1>11, <2>1
<1>13. \A k \in 1..n : acc[k] = ApplyTransaction(acc[k - 1], txs[k])
  <2> SUFFICES ASSUME NEW k \in 1..n PROVE acc[k] = ApplyTransaction(acc[k - 1], txs[k])
      OBVIOUS
  <2>1. k \in 0..n /\ k - 1 \in 0..n
      BY <1>1
  <2>2. PICK s : s = 1..k
      OBVIOUS
  <2>3. s \in SUBSET (1..n) /\ s # {} /\ Max(s) = k /\ s \ {k} = 1..(k - 1)
      BY <1>1, <2>2, LastPlace
  <2>4. the[s] = ApplyTransaction(the[s \ {k}], txs[k])
      BY <1>9, <2>3
  <2> QED BY <1>11, <2>1, <2>2, <2>3, <2>4
<1>14. \A k \in 0..n : acc[k] \in Ledgers
  <2>1. acc[0] \in Ledgers
      BY <1>12
  <2>2. \A k \in 1..n : acc[k - 1] \in Ledgers => acc[k] \in Ledgers
      BY <1>2, <1>13
  <2> QED BY <1>1, <2>1, <2>2, StaysIn
<1>15. n \in 0..n /\ acc[n] = the[1..n]
    BY <1>1, <1>11
<1> QED BY <1>1, <1>10, <1>12, <1>13, <1>14, <1>15 DEF TakenInOrder

\* A list on a ledger: what is accepted fits in a block, and each of its
\* transactions has a nonce its sender has not used.
LEMMA ListApplied ==
    ASSUME NEW s, s.balances \in [Accounts -> Int], s.nonces \in [Accounts -> Nat],
           NEW txs \in Seq(Transaction)
    PROVE  /\ ApplyTransactions(s, txs) \in Ledgers
           /\ ApplyTransactions(s, txs).ok =>
                  /\ Len(txs) <= MaxTransactionsPerBlock
                  /\ \A i \in 1..Len(txs) : txs[i].nonce >= s.nonces[txs[i].from]
<1>1. PICK base : base = [ok |-> Len(txs) <= MaxTransactionsPerBlock,
                          balances |-> s.balances, nonces |-> s.nonces,
                          totalFees |-> 0, seen |-> {}]
    OBVIOUS
<1>2. base \in Ledgers /\ base.ok = (Len(txs) <= MaxTransactionsPerBlock) /\ base.nonces = s.nonces
  <2>1. (Len(txs) <= MaxTransactionsPerBlock) \in BOOLEAN
      OBVIOUS
  <2> QED BY <1>1, <2>1 DEF Ledgers
<1>3. PICK acc : /\ TakenInOrder(acc, base, txs)
                 /\ FoldLeft(ApplyTransaction, base, txs) = acc[Len(txs)]
    BY <1>2, TransactionsInOrder
<1>4. /\ acc[0] = base
      /\ \A k \in 1..Len(txs) : acc[k] = ApplyTransaction(acc[k - 1], txs[k])
      /\ ApplyTransactions(s, txs) = acc[Len(txs)]
      /\ \A k \in 0..Len(txs) : acc[k] \in Ledgers
    BY <1>1, <1>3 DEF ApplyTransactions, TakenInOrder
<1>5. PICK n : n = Len(txs) /\ n \in Nat /\ \A k \in 1..n : txs[k] \in Transaction
    OBVIOUS
<1>6. \A k \in 1..n : /\ k - 1 \in 0..n /\ k \in 0..n
                      /\ acc[k].ok => acc[k - 1].ok /\ txs[k].nonce = acc[k - 1].nonces[txs[k].from]
                      /\ \A a \in Accounts : acc[k].nonces[a] >= acc[k - 1].nonces[a]
  <2> SUFFICES ASSUME NEW k \in 1..n
               PROVE  /\ k - 1 \in 0..n /\ k \in 0..n
                      /\ acc[k].ok => acc[k - 1].ok /\ txs[k].nonce = acc[k - 1].nonces[txs[k].from]
                      /\ \A a \in Accounts : acc[k].nonces[a] >= acc[k - 1].nonces[a]
      OBVIOUS
  <2>1. k - 1 \in 0..n /\ k \in 0..n
      BY <1>5
  <2>2. acc[k] = ApplyTransaction(acc[k - 1], txs[k]) /\ acc[k - 1] \in Ledgers
      BY <1>4, <1>5, <2>1
  <2>3. PICK old, new, tx : old = acc[k - 1] /\ new = acc[k] /\ tx = txs[k]
      OBVIOUS
  <2>4. old \in Ledgers /\ tx \in Transaction /\ new = ApplyTransaction(old, tx)
      BY <1>5, <2>2, <2>3
  <2>5. /\ new.ok => old.ok /\ tx.nonce = old.nonces[tx.from]
        /\ \A a \in Accounts : new.nonces[a] >= old.nonces[a]
      BY <2>4, TransactionKeeps
  <2> QED BY <2>1, <2>3, <2>5
<1>7. n \in 0..n /\ acc[n] \in Ledgers
    BY <1>4, <1>5
<1>8. ASSUME acc[n].ok PROVE \A k \in 0..n : acc[k].ok
  <2> DEFINE Accepted == {k \in 0..n : acc[k].ok}
             back     == [j \in 0..n |-> n - j]
  <2>1. back[0] \in Accepted
      BY <1>5, <1>7, <1>8
  <2>2. ASSUME NEW j \in 1..n, back[j - 1] \in Accepted PROVE back[j] \in Accepted
    <3>1. /\ j - 1 \in 0..n /\ j \in 0..n /\ n - (j - 1) \in 1..n
          /\ (n - (j - 1)) - 1 = n - j /\ n - j \in 0..n
        BY <1>5
    <3>2. acc[n - (j - 1)].ok
        BY <2>2, <3>1
    <3> QED BY <1>6, <3>1, <3>2
  <2> HIDE DEF Accepted, back
  <2>3. \A j \in 0..n : back[j] \in Accepted
      BY <1>5, <2>1, <2>2, StaysIn
  <2>4. ASSUME NEW k \in 0..n PROVE k \in Accepted
    <3>1. n - k \in 0..n /\ back[n - k] = k
        BY <1>5 DEF back
    <3> QED BY <2>3, <3>1
  <2> QED BY <2>4 DEF Accepted
<1>9. \A k \in 0..n : \A a \in Accounts : acc[k].nonces[a] >= s.nonces[a]
  <2> DEFINE Grown == {l \in Ledgers : \A a \in Accounts : l.nonces[a] >= s.nonces[a]}
  <2>1. acc[0] \in Grown
      BY <1>2, <1>4
  <2>2. ASSUME NEW k \in 1..n, acc[k - 1] \in Grown PROVE acc[k] \in Grown
    <3>1. acc[k] \in Ledgers
        BY <1>4, <1>5, <1>6
    <3>2. /\ acc[k - 1].nonces \in [Accounts -> Nat] /\ acc[k].nonces \in [Accounts -> Nat]
        BY <2>2, <3>1 DEF Ledgers
    <3>3. ASSUME NEW a \in Accounts PROVE acc[k].nonces[a] >= s.nonces[a]
      <4>1. PICK x, y, z : x = s.nonces[a] /\ y = acc[k - 1].nonces[a] /\ z = acc[k].nonces[a]
          OBVIOUS
      <4>2. x \in Nat /\ y \in Nat /\ z \in Nat /\ y >= x /\ z >= y
          BY <1>6, <2>2, <3>2, <4>1
      <4>3. z >= x
          BY <4>2
      <4> QED BY <4>1, <4>3
    <3> QED BY <3>1, <3>3
  <2> HIDE DEF Grown
  <2>3. \A k \in 0..n : acc[k] \in Grown
      BY <1>5, <2>1, <2>2, StaysIn
  <2> QED BY <2>3 DEF Grown
<1>10. ASSUME acc[n].ok, NEW i \in 1..n PROVE txs[i].nonce >= s.nonces[txs[i].from]
  <2>1. i - 1 \in 0..n /\ acc[i].ok /\ txs[i].from \in Accounts
      BY <1>5, <1>6, <1>8, <1>10, MempoolAssumption
  <2> QED BY <1>6, <1>9, <2>1
<1>11. acc[n].ok => n <= MaxTransactionsPerBlock
  <2>1. 0 \in 0..n
      BY <1>5
  <2> QED BY <1>2, <1>4, <1>5, <1>8, <2>1
<1> QED BY <1>4, <1>5, <1>7, <1>10, <1>11

\* Every list of blocks leads to a ledger.
LEMMA LedgerTyped ==
    ASSUME NEW blocks \in Seq(MempoolBlock)
    PROVE  LedgerOf(blocks) \in Ledgers
<1>0. PICK base : base = ApplyTransactions(CreateGenesisState, <<>>) /\ base \in Ledgers
  <2>1. <<>> \in Seq(Transaction)
      OBVIOUS
  <2>2. /\ CreateGenesisState.balances = GenesisAllocation
        /\ CreateGenesisState.nonces = [a \in Accounts |-> 0]
      BY DEF CreateGenesisState
  <2>3. PICK s : s = CreateGenesisState
      OBVIOUS
  <2>4. s.balances \in [Accounts -> Int] /\ s.nonces \in [Accounts -> Nat]
      BY <2>2, <2>3, SupplyAssumption
  <2> QED BY <2>1, <2>3, <2>4, ListApplied
<1>1. PICK n : n = Len(blocks) /\ n \in Nat /\ DOMAIN blocks = 1..n
    OBVIOUS
<1> DEFINE Folds(it) == it = [s \in SUBSET (1..n) |-> IF s = {} THEN base
                               ELSE ApplyNext(it[s \ {Max(s)}], blocks[Max(s)])]
<1>2. \A acc \in Ledgers, k \in 1..n : ApplyNext(acc, blocks[k]) \in Ledgers
  <2> SUFFICES ASSUME NEW acc \in Ledgers, NEW k \in 1..n
               PROVE  ApplyNext(acc, blocks[k]) \in Ledgers
      OBVIOUS
  <2>1. blocks[k].transactions \in Seq(Transaction)
    <3>1. blocks[k] \in MempoolBlock
        BY <1>1
    <3> QED BY <3>1 DEF MempoolBlock
  <2>2. /\ acc.balances \in [Accounts -> Int] /\ acc.nonces \in [Accounts -> Nat]
        /\ acc.ok \in BOOLEAN
      BY DEF Ledgers
  <2>3. PICK next : next = ApplyTransactions(acc, blocks[k].transactions) /\ next \in Ledgers
      BY <2>1, <2>2, ListApplied
  <2>4. (next.ok /\ acc.ok) \in BOOLEAN
      OBVIOUS
  <2> QED BY <2>3, <2>4 DEF ApplyNext, Ledgers
<1>3. PICK step : step = [k \in 1..n |-> [acc \in Ledgers |-> ApplyNext(acc, blocks[k])]]
    OBVIOUS
<1>4. \A acc \in Ledgers, k \in 1..n : /\ step[k][acc] = ApplyNext(acc, blocks[k])
                                    /\ step[k][acc] \in Ledgers
    BY <1>2, <1>3
<1>5. PICK it : FoldsAll(it, step, base, n) /\ StaysGood(it, n, Ledgers)
  <2>1. n \in Nat /\ base \in Ledgers /\ \A acc \in Ledgers, k \in 1..n : step[k][acc] \in Ledgers
      BY <1>1, <1>4, <1>0
  <2> QED BY <2>1, FoldExists
<1>6. \A s \in SUBSET (1..n) : s # {} =>
          step[Max(s)][it[s \ {Max(s)}]] = ApplyNext(it[s \ {Max(s)}], blocks[Max(s)])
    BY <1>1, <1>4, <1>5, LastOfPlaces DEF StaysGood
<1>7. \E g : Folds(g)
  <2>1. it = [s \in SUBSET (1..n) |-> IF s = {} THEN base
                ELSE ApplyNext(it[s \ {Max(s)}], blocks[Max(s)])]
      BY <1>5, <1>6 DEF FoldsAll
  <2> QED BY <2>1
<1>8. PICK the : the = CHOOSE g : Folds(g)
    OBVIOUS
<1>9. Folds(the)
  <2> HIDE DEF Folds
  <2> QED BY <1>7, <1>8
<1>10. the[{}] \in Ledgers
    BY <1>1, <1>9, <1>0
<1>11. \A s \in SUBSET (1..n) : s # {} /\ the[s \ {Max(s)}] \in Ledgers => the[s] \in Ledgers
  <2> SUFFICES ASSUME NEW s \in SUBSET (1..n), s # {}, the[s \ {Max(s)}] \in Ledgers
               PROVE  the[s] \in Ledgers
      OBVIOUS
  <2>1. Max(s) \in 1..n
      BY <1>1, LastOfPlaces
  <2>2. the[s] = ApplyNext(the[s \ {Max(s)}], blocks[Max(s)])
      BY <1>9
  <2> QED BY <1>2, <2>1, <2>2
<1>12. StaysGood(the, n, Ledgers)
    BY <1>1, <1>10, <1>11, FoldGood
<1>13. LedgerOf(blocks) = the[1..n]
    BY <1>0, <1>1, <1>8 DEF LedgerOf, FoldLeft, MapThenFoldSet
<1> QED BY <1>1, <1>12, <1>13 DEF StaysGood

\* What can be mined fits in a block and is fresh.
LEMMA ExecutableFresh ==
    ASSUME NEW blocks \in Seq(MempoolBlock), NEW txs \in Seq(Transaction), Executable(blocks, txs)
    PROVE  /\ Len(txs) <= MaxTransactionsPerBlock
           /\ \A i \in 1..Len(txs) : txs[i].nonce >= LedgerOf(blocks).nonces[txs[i].from]
<1>1. PICK s : s = LedgerOf(blocks)
    OBVIOUS
<1>2. s.balances \in [Accounts -> Int] /\ s.nonces \in [Accounts -> Nat]
    BY <1>1, LedgerTyped DEF Ledgers
<1>3. ApplyTransactions(s, txs).ok
    BY <1>1 DEF Executable
<1> QED BY <1>1, <1>2, <1>3, ListApplied

\* Nothing is executable on every chain.
LEMMA NothingExecutable ==
    ASSUME NEW blocks \in Seq(MempoolBlock)
    PROVE  Executable(blocks, <<>>)
<1>1. PICK s, txs, base :
          /\ s = LedgerOf(blocks) /\ txs = <<>>
          /\ base = [ok |-> Len(txs) <= MaxTransactionsPerBlock,
                     balances |-> s.balances, nonces |-> s.nonces,
                     totalFees |-> 0, seen |-> {}]
    OBVIOUS
<1>2. txs \in Seq(Transaction) /\ Len(txs) = 0
    BY <1>1
<1>3. base \in Ledgers /\ base.ok
  <2>1. (Len(txs) <= MaxTransactionsPerBlock) = TRUE
      BY <1>2, MempoolAssumption
  <2>2. s.balances \in [Accounts -> Int] /\ s.nonces \in [Accounts -> Nat]
      BY <1>1, LedgerTyped DEF Ledgers
  <2>3. base = [ok |-> TRUE, balances |-> s.balances, nonces |-> s.nonces,
                totalFees |-> 0, seen |-> {}]
      BY <1>1, <2>1
  <2> QED BY <2>2, <2>3 DEF Ledgers
<1>4. FoldLeft(ApplyTransaction, base, txs) = base
    BY <1>2, <1>3, TransactionsInOrder DEF TakenInOrder
<1> QED BY <1>1, <1>3, <1>4 DEF Executable, ApplyTransactions

-----------------------------------------------------------------------------
(* The mempool after a block *)

\* The lists the chain can take next.
Minable(blocks) == {txs \in Seq(Transaction) : Executable(blocks, txs)}

\* _revalidateMempool leaves what can be mined, whatever it is given.
LEMMA RevalidatedExecutable ==
    ASSUME NEW blocks \in Seq(MempoolBlock), NEW txs \in Seq(Transaction)
    PROVE  Revalidated(blocks, txs) \in Minable(blocks)
<1> DEFINE Kept(retained, tx) == IF Executable(blocks, Append(retained, tx))
                                 THEN Append(retained, tx) ELSE retained
<1>0. PICK Good : Good = Minable(blocks) /\ <<>> \in Good
  <2>1. <<>> \in Seq(Transaction)
      OBVIOUS
  <2> QED BY <2>1, NothingExecutable DEF Minable
<1>1. PICK n : n = Len(txs) /\ n \in Nat /\ DOMAIN txs = 1..n
    OBVIOUS
<1> DEFINE Folds(it) == it = [s \in SUBSET (1..n) |-> IF s = {} THEN <<>>
                               ELSE Kept(it[s \ {Max(s)}], txs[Max(s)])]
<1>2. \A acc \in Good, k \in 1..n : Kept(acc, txs[k]) \in Good
    BY <1>0, <1>1 DEF Minable
<1>3. PICK step : step = [k \in 1..n |-> [acc \in Good |-> Kept(acc, txs[k])]]
    OBVIOUS
<1>4. \A acc \in Good, k \in 1..n : /\ step[k][acc] = Kept(acc, txs[k])
                                    /\ step[k][acc] \in Good
    BY <1>2, <1>3
<1>5. PICK it : FoldsAll(it, step, <<>>, n) /\ StaysGood(it, n, Good)
  <2>1. n \in Nat /\ <<>> \in Good /\ \A acc \in Good, k \in 1..n : step[k][acc] \in Good
      BY <1>1, <1>4, <1>0
  <2> QED BY <2>1, FoldExists
<1>6. \A s \in SUBSET (1..n) : s # {} =>
          step[Max(s)][it[s \ {Max(s)}]] = Kept(it[s \ {Max(s)}], txs[Max(s)])
    BY <1>1, <1>4, <1>5, LastOfPlaces DEF StaysGood
<1>7. \E g : Folds(g)
  <2>1. it = [s \in SUBSET (1..n) |-> IF s = {} THEN <<>>
                ELSE Kept(it[s \ {Max(s)}], txs[Max(s)])]
      BY <1>5, <1>6 DEF FoldsAll
  <2> QED BY <2>1
<1>8. PICK the : the = CHOOSE g : Folds(g)
    OBVIOUS
<1>9. Folds(the)
  <2> HIDE DEF Folds
  <2> QED BY <1>7, <1>8
<1>10. the[{}] \in Good
    BY <1>1, <1>9, <1>0
<1>11. \A s \in SUBSET (1..n) : s # {} /\ the[s \ {Max(s)}] \in Good => the[s] \in Good
  <2> SUFFICES ASSUME NEW s \in SUBSET (1..n), s # {}, the[s \ {Max(s)}] \in Good
               PROVE  the[s] \in Good
      OBVIOUS
  <2>1. Max(s) \in 1..n
      BY <1>1, LastOfPlaces
  <2>2. the[s] = Kept(the[s \ {Max(s)}], txs[Max(s)])
      BY <1>9
  <2> HIDE DEF Kept
  <2> QED BY <1>2, <2>1, <2>2
<1>12. StaysGood(the, n, Good)
    BY <1>1, <1>10, <1>11, FoldGood
<1>13. Revalidated(blocks, txs) = the[1..n]
    BY <1>1, <1>8 DEF Revalidated, FoldLeft, MapThenFoldSet
<1> QED BY <1>0, <1>1, <1>12, <1>13 DEF StaysGood

\* What is left after deletions are transactions.
LEMMA DeletedTyped ==
    ASSUME NEW txs \in Seq(Transaction), NEW included
    PROVE  Deleted(txs, included) \in Seq(Transaction)
<1> DEFINE Kept(kept, tx) == IF tx \in ToSet(included) THEN kept ELSE Append(kept, tx)
<1>0. PICK Good : Good = Seq(Transaction) /\ <<>> \in Good
  <2>1. <<>> \in Seq(Transaction)
      OBVIOUS
  <2> QED BY <2>1
<1>1. PICK n : n = Len(txs) /\ n \in Nat /\ DOMAIN txs = 1..n
    OBVIOUS
<1> DEFINE Folds(it) == it = [s \in SUBSET (1..n) |-> IF s = {} THEN <<>>
                               ELSE Kept(it[s \ {Max(s)}], txs[Max(s)])]
<1>2. \A acc \in Good, k \in 1..n : Kept(acc, txs[k]) \in Good
    BY <1>0, <1>1
<1>3. PICK step : step = [k \in 1..n |-> [acc \in Good |-> Kept(acc, txs[k])]]
    OBVIOUS
<1>4. \A acc \in Good, k \in 1..n : /\ step[k][acc] = Kept(acc, txs[k])
                                    /\ step[k][acc] \in Good
    BY <1>2, <1>3
<1>5. PICK it : FoldsAll(it, step, <<>>, n) /\ StaysGood(it, n, Good)
  <2>1. n \in Nat /\ <<>> \in Good /\ \A acc \in Good, k \in 1..n : step[k][acc] \in Good
      BY <1>1, <1>4, <1>0
  <2> QED BY <2>1, FoldExists
<1>6. \A s \in SUBSET (1..n) : s # {} =>
          step[Max(s)][it[s \ {Max(s)}]] = Kept(it[s \ {Max(s)}], txs[Max(s)])
    BY <1>1, <1>4, <1>5, LastOfPlaces DEF StaysGood
<1>7. \E g : Folds(g)
  <2>1. it = [s \in SUBSET (1..n) |-> IF s = {} THEN <<>>
                ELSE Kept(it[s \ {Max(s)}], txs[Max(s)])]
      BY <1>5, <1>6 DEF FoldsAll
  <2> QED BY <2>1
<1>8. PICK the : the = CHOOSE g : Folds(g)
    OBVIOUS
<1>9. Folds(the)
  <2> HIDE DEF Folds
  <2> QED BY <1>7, <1>8
<1>10. the[{}] \in Good
    BY <1>1, <1>9, <1>0
<1>11. \A s \in SUBSET (1..n) : s # {} /\ the[s \ {Max(s)}] \in Good => the[s] \in Good
  <2> SUFFICES ASSUME NEW s \in SUBSET (1..n), s # {}, the[s \ {Max(s)}] \in Good
               PROVE  the[s] \in Good
      OBVIOUS
  <2>1. Max(s) \in 1..n
      BY <1>1, LastOfPlaces
  <2>2. the[s] = Kept(the[s \ {Max(s)}], txs[Max(s)])
      BY <1>9
  <2> HIDE DEF Kept
  <2> QED BY <1>2, <2>1, <2>2
<1>12. StaysGood(the, n, Good)
    BY <1>1, <1>10, <1>11, FoldGood
<1>13. Deleted(txs, included) = the[1..n]
    BY <1>1, <1>8 DEF Deleted, FoldLeft, MapThenFoldSet
<1> QED BY <1>0, <1>1, <1>12, <1>13 DEF StaysGood

\* _removeIncludedTransactions leaves what can be mined.
LEMMA WithoutIncludedExecutable ==
    ASSUME NEW blocks \in Seq(MempoolBlock), NEW txs \in Seq(Transaction), NEW included
    PROVE  WithoutIncluded(blocks, txs, included) \in Minable(blocks)
BY DeletedTyped, RevalidatedExecutable DEF WithoutIncluded

-----------------------------------------------------------------------------
(* Steps *)

\* A callback at the end of the queue.
LEMMA Queued ==
    ASSUME ShapeOK, NEW callback \in CallbackSet, Queue(callback)
    PROVE  /\ callbacks' \in Seq(CallbackSet) /\ Len(callbacks') = Len(callbacks) + 1
           /\ callbacks'[Len(callbacks) + 1] = callback
           /\ \A i \in 1..Len(callbacks) : callbacks'[i] = callbacks[i]
BY DEF ShapeOK, Queue

\* The callback at the head leaves the queue.
LEMMA Dequeued ==
    ASSUME ShapeOK, callbacks # <<>>, callbacks' = Tail(callbacks)
    PROVE  /\ Len(callbacks) \in Nat \ {0} /\ callbacks[1] = Head(callbacks)
           /\ callbacks' \in Seq(CallbackSet) /\ Len(callbacks') = Len(callbacks) - 1
           /\ \A i \in 1..(Len(callbacks) - 1) : callbacks'[i] = callbacks[i + 1]
BY DEF ShapeOK

\* Every transaction that waits is fresh when the mempool can be mined.
LEMMA MinableFresh ==
    ASSUME ShapeOK, NEW txs \in Minable(chain)
    PROVE  \A i \in 1..Len(txs) : Fresh(chain, txs[i])
BY ExecutableFresh DEF ShapeOK, Minable, Fresh

\* A change of the chain waits at the end of the queue: every check is off.
LEMMA ChangeQueued ==
    ASSUME MempoolInv, NEW callback \in CallbackSet, callback.kind # "submitted",
           Queue(callback), chain' \in Seq(MempoolBlock), Len(chain') > Len(chain),
           UNCHANGED <<mempool, draining, mining, exposed>>
    PROVE  MempoolInv'
<1>1. /\ callbacks' \in Seq(CallbackSet) /\ Len(callbacks') = Len(callbacks) + 1
      /\ callbacks'[Len(callbacks) + 1] = callback
      /\ \A i \in 1..Len(callbacks) : callbacks'[i] = callbacks[i]
      /\ Len(callbacks) \in Nat /\ chain \in Seq(MempoolBlock) /\ Len(chain) \in Nat
    BY Queued DEF MempoolInv, ShapeOK
<1>2. \A i \in 0..Len(callbacks) : ChangeAfter(i)'
  <2> SUFFICES ASSUME NEW i \in 0..Len(callbacks)
               PROVE  \E j \in (i + 1)..Len(callbacks') : callbacks'[j].kind # "submitted"
      BY DEF ChangeAfter
  <2>1. Len(callbacks) + 1 \in (i + 1)..Len(callbacks')
      BY <1>1
  <2> QED BY <1>1, <2>1
<1>3. ShapeOK'
    BY <1>1 DEF MempoolInv, ShapeOK
<1>4. FreshOrDropped'
  <2>1. 0 \in 0..Len(callbacks)
      BY <1>1
  <2>2. \A i \in 1..Len(callbacks') : callbacks'[i].kind = "submitted" => i \in 0..Len(callbacks)
      BY <1>1
  <2> QED BY <1>2, <2>1, <2>2 DEF FreshOrDropped
<1>5. AloneExecutable'
  <2> SUFFICES ASSUME ~exposed
               PROVE  /\ \A i \in 2..Len(callbacks') : callbacks'[i].kind # "submitted"
                      /\ ~(Len(callbacks') = 1 /\ callbacks'[1].kind = "submitted")
                      /\ callbacks' # <<>>
      BY DEF AloneExecutable
  <2>1. \A i \in 2..Len(callbacks) : callbacks[i].kind # "submitted"
      BY DEF MempoolInv, AloneExecutable
  <2>2. \A i \in 2..Len(callbacks') : i \in 2..Len(callbacks) \/ i = Len(callbacks) + 1
      BY <1>1
  <2>3. \A i \in 2..Len(callbacks) : i \in 1..Len(callbacks)
      BY <1>1
  <2>4. \A i \in 2..Len(callbacks') : callbacks'[i].kind # "submitted"
      BY <1>1, <2>1, <2>2, <2>3
  <2>5. Len(callbacks') = 1 => callbacks'[1] = callback
    <3>1. Len(callbacks') = 1 => Len(callbacks) + 1 = 1
        BY <1>1
    <3> QED BY <1>1, <3>1
  <2>6. callbacks' # <<>>
    <3>1. Len(callbacks') # 0
        BY <1>1
    <3> QED BY <3>1
  <2> QED BY <2>4, <2>5, <2>6
<1>6. SearchOK'
  <2> SUFFICES ASSUME mining # None
               PROVE  /\ mining.chain \in Seq(MempoolBlock)
                      /\ mining.transactions \in Seq(Transaction)
                      /\ Len(mining.chain) < Len(chain')
    <3>1. \A c \in Seq(MempoolBlock) : Len(c) < Len(chain') => c # chain' /\ Len(c) <= Len(chain')
        BY <1>1
    <3> QED BY <3>1 DEF SearchOK
  <2>1. /\ mining.chain \in Seq(MempoolBlock) /\ mining.transactions \in Seq(Transaction)
        /\ Len(mining.chain) <= Len(chain)
      BY DEF MempoolInv, SearchOK
  <2>2. Len(mining.chain) \in Nat /\ Len(chain') \in Nat
      BY <2>1
  <2> QED BY <1>1, <2>1, <2>2
<1> QED BY <1>3, <1>4, <1>5, <1>6 DEF MempoolInv

\* A submission waits, checked on the mempool as it is.
LEMMA SubmitStep ==
    ASSUME MempoolInv, NEW tx \in Transaction, SubmitTransaction(tx)
    PROVE  MempoolInv'
<1>1. PICK callback : callback = [kind |-> "submitted", transactions |-> <<tx>>]
    OBVIOUS
<1>2. /\ callback \in CallbackSet /\ callback.kind = "submitted"
      /\ callback.transactions[1] = tx
    BY <1>1 DEF CallbackSet
<1>3. /\ Queue(callback) /\ UNCHANGED <<chain, mempool, draining, mining>>
      /\ exposed' = (exposed \/ callbacks # <<>>)
      /\ tx \notin ToSet(mempool) /\ Executable(chain, Append(mempool, tx))
    BY <1>1 DEF SubmitTransaction
<1>4. /\ callbacks' \in Seq(CallbackSet) /\ Len(callbacks') = Len(callbacks) + 1
      /\ callbacks'[Len(callbacks) + 1] = callback
      /\ \A i \in 1..Len(callbacks) : callbacks'[i] = callbacks[i]
      /\ Len(callbacks) \in Nat
      /\ chain \in Seq(MempoolBlock) /\ mempool \in Seq(Transaction) /\ exposed \in BOOLEAN
    BY <1>2, <1>3, Queued DEF MempoolInv, ShapeOK
<1>5. ShapeOK'
    BY <1>3, <1>4 DEF ShapeOK
<1>6. \A i \in Nat : ChangeAfter(i)' <=> ChangeAfter(i)
  <2> SUFFICES ASSUME NEW i \in Nat
               PROVE  (\E j \in (i + 1)..Len(callbacks') : callbacks'[j].kind # "submitted")
                      <=> \E j \in (i + 1)..Len(callbacks) : callbacks[j].kind # "submitted"
      BY DEF ChangeAfter
  <2>1. \A j \in (i + 1)..Len(callbacks) :
            /\ j \in (i + 1)..Len(callbacks') /\ callbacks'[j] = callbacks[j]
      BY <1>4
  <2>2. \A j \in (i + 1)..Len(callbacks') :
            j \in (i + 1)..Len(callbacks) \/ j = Len(callbacks) + 1
      BY <1>4
  <2> QED BY <1>2, <1>4, <2>1, <2>2
<1>7. Fresh(chain, tx)
  <2>1. PICK txs : txs = Append(mempool, tx)
      OBVIOUS
  <2>2. /\ txs \in Seq(Transaction) /\ Len(txs) \in 1..Len(txs) /\ txs[Len(txs)] = tx
      BY <1>4, <2>1
  <2> QED BY <1>3, <1>4, <2>1, <2>2, ExecutableFresh DEF Fresh
<1>8. FreshOrDropped'
  <2>1. \A i \in 1..Len(mempool') : Fresh(chain', mempool'[i]) \/ ChangeAfter(0)'
      BY <1>3, <1>6 DEF MempoolInv, FreshOrDropped
  <2>2. ASSUME NEW i \in 1..Len(callbacks'), callbacks'[i].kind = "submitted"
        PROVE  Fresh(chain', callbacks'[i].transactions[1]) \/ ChangeAfter(i)'
    <3>1. CASE i \in 1..Len(callbacks)
      <4>1. i \in Nat /\ callbacks'[i] = callbacks[i]
          BY <1>4, <3>1
      <4>2. Fresh(chain, callbacks[i].transactions[1]) \/ ChangeAfter(i)
          BY <2>2, <3>1, <4>1 DEF MempoolInv, FreshOrDropped
      <4> QED BY <1>3, <1>6, <4>1, <4>2
    <3>2. CASE i = Len(callbacks) + 1
        BY <1>2, <1>3, <1>4, <1>7, <3>2
    <3> QED BY <1>4, <3>1, <3>2
  <2> QED BY <2>1, <2>2 DEF FreshOrDropped
<1>9. AloneExecutable'
  <2>1. CASE callbacks = <<>>
    <3>1. Len(callbacks') = 1 /\ callbacks'[1] = callback
        BY <1>4, <2>1
    <3>2. \A i \in 2..1 : FALSE
        OBVIOUS
    <3>3. \A i \in 2..Len(callbacks') : callbacks'[i].kind # "submitted"
        BY <3>1, <3>2
    <3>4. callbacks' # <<>>
      <4>1. Len(callbacks') # 0
          BY <3>1
      <4> QED BY <4>1
    <3>5. /\ callbacks'[1].transactions[1] \notin ToSet(mempool')
          /\ Executable(chain', Append(mempool', callbacks'[1].transactions[1]))
        BY <1>2, <1>3, <3>1
    <3> QED BY <3>3, <3>4, <3>5 DEF AloneExecutable
  <2>2. CASE callbacks # <<>>
      BY <1>3, <2>2 DEF AloneExecutable
  <2> QED BY <2>1, <2>2
<1>10. SearchOK'
  <2>1. exposed => exposed'
      BY <1>3
  <2> QED BY <1>3, <1>6, <2>1 DEF MempoolInv, SearchOK
<1> QED BY <1>5, <1>8, <1>9, <1>10 DEF MempoolInv

\* What waited behind the head still waits when it has run.
LEMMA HeadRuns ==
    ASSUME MempoolInv, NEW kind, RunCallback(kind)
    PROVE  /\ callbacks # <<>> /\ Head(callbacks) = callbacks[1] /\ callbacks[1].kind = kind
           /\ callbacks[1] \in CallbackSet
           /\ callbacks' \in Seq(CallbackSet) /\ UNCHANGED <<chain, mining>>
           /\ Len(callbacks) \in Nat \ {0} /\ Len(callbacks') = Len(callbacks) - 1
           /\ \A i \in 1..Len(callbacks') :
                  i + 1 \in 2..Len(callbacks) /\ callbacks'[i] = callbacks[i + 1]
           /\ \A i \in Nat : ChangeAfter(i)' <=> ChangeAfter(i + 1)
<1>1. callbacks # <<>> /\ Head(callbacks).kind = kind /\ callbacks' = Tail(callbacks)
      /\ UNCHANGED <<chain, mining>>
    BY DEF RunCallback
<1>2. /\ Len(callbacks) \in Nat \ {0} /\ callbacks[1] = Head(callbacks)
      /\ callbacks' \in Seq(CallbackSet) /\ Len(callbacks') = Len(callbacks) - 1
      /\ \A i \in 1..(Len(callbacks) - 1) : callbacks'[i] = callbacks[i + 1]
    BY <1>1, Dequeued DEF MempoolInv
<1>3. \A i \in 1..Len(callbacks') : i + 1 \in 2..Len(callbacks) /\ callbacks'[i] = callbacks[i + 1]
    BY <1>2
<1>4. \A i \in Nat : ChangeAfter(i)' <=> ChangeAfter(i + 1)
  <2> SUFFICES ASSUME NEW i \in Nat
               PROVE  (\E j \in (i + 1)..Len(callbacks') : callbacks'[j].kind # "submitted")
                      <=> \E j \in ((i + 1) + 1)..Len(callbacks) : callbacks[j].kind # "submitted"
      BY DEF ChangeAfter
  <2>1. \A j \in (i + 1)..Len(callbacks') :
            j + 1 \in ((i + 1) + 1)..Len(callbacks) /\ callbacks'[j] = callbacks[j + 1]
      BY <1>2
  <2>2. \A j \in ((i + 1) + 1)..Len(callbacks) :
            j - 1 \in (i + 1)..Len(callbacks') /\ callbacks'[j - 1] = callbacks[j]
      BY <1>2
  <2>3. ASSUME NEW j \in (i + 1)..Len(callbacks'), callbacks'[j].kind # "submitted"
        PROVE  \E l \in ((i + 1) + 1)..Len(callbacks) : callbacks[l].kind # "submitted"
      BY <2>1, <2>3
  <2>4. ASSUME NEW j \in ((i + 1) + 1)..Len(callbacks), callbacks[j].kind # "submitted"
        PROVE  \E l \in (i + 1)..Len(callbacks') : callbacks'[l].kind # "submitted"
      BY <2>2, <2>4
  <2> QED BY <2>3, <2>4
<1>5. callbacks[1] \in CallbackSet
    BY <1>1 DEF MempoolInv, ShapeOK
<1> QED BY <1>1, <1>2, <1>3, <1>4, <1>5

\* A submission that ran is as fresh as when it was checked, or a callback that
\* drops it comes later.
LEMMA RunSubmittedStep ==
    ASSUME MempoolInv, RunSubmitted
    PROVE  MempoolInv'
<1>1. PICK tx : tx = callbacks[1].transactions[1]
    OBVIOUS
<1>2. RunCallback("submitted") /\ exposed' = exposed
    BY DEF RunSubmitted
<1>3. /\ callbacks # <<>> /\ Head(callbacks) = callbacks[1] /\ callbacks[1].kind = "submitted"
      /\ callbacks[1] \in CallbackSet
      /\ callbacks' \in Seq(CallbackSet) /\ UNCHANGED <<chain, mining>>
      /\ Len(callbacks) \in Nat \ {0} /\ Len(callbacks') = Len(callbacks) - 1
      /\ \A i \in 1..Len(callbacks') :
             i + 1 \in 2..Len(callbacks) /\ callbacks'[i] = callbacks[i + 1]
      /\ \A i \in Nat : ChangeAfter(i)' <=> ChangeAfter(i + 1)
    BY <1>2, HeadRuns
<1>4. tx \in Transaction
  <2>1. PICK c : c = callbacks[1] /\ c \in CallbackSet /\ c.kind = "submitted"
      BY <1>3
  <2>2. PICK T : T = {<<t>> : t \in Transaction}
      OBVIOUS
  <2>3. c \in [kind : {"submitted"}, transactions : T]
                \cup [kind : {"included", "adopted"}, transactions : Seq(Transaction)]
      BY <2>1, <2>2 DEF CallbackSet
  <2>4. c.transactions \in T
      BY <2>1, <2>3
  <2>5. PICK t \in Transaction : c.transactions = <<t>>
      BY <2>2, <2>4
  <2> QED BY <1>1, <2>1, <2>5
<1>5. mempool' = IF tx \in ToSet(mempool) THEN mempool ELSE Append(mempool, tx)
    BY <1>1, <1>3 DEF RunSubmitted
<1>6. mempool \in Seq(Transaction) /\ chain \in Seq(MempoolBlock) /\ exposed \in BOOLEAN
    BY DEF MempoolInv, ShapeOK
<1>7. /\ mempool' \in Seq(Transaction)
      /\ \A i \in 1..Len(mempool') :
             mempool'[i] = tx \/ (i \in 1..Len(mempool) /\ mempool'[i] = mempool[i])
  <2>1. CASE tx \in ToSet(mempool)
      BY <1>5, <1>6, <2>1
  <2>2. CASE tx \notin ToSet(mempool)
      BY <1>4, <1>5, <1>6, <2>2
  <2> QED BY <2>1, <2>2
<1>8. ShapeOK'
    BY <1>2, <1>3, <1>6, <1>7 DEF ShapeOK
<1>9. ChangeAfter(0) => ChangeAfter(1)
    BY <1>3 DEF ChangeAfter
<1>10. FreshOrDropped'
  <2>1. Fresh(chain, tx) \/ ChangeAfter(1)
    <3>1. 1 \in 1..Len(callbacks)
        BY <1>3
    <3> QED BY <1>1, <1>3, <3>1 DEF MempoolInv, FreshOrDropped
  <2>2. 0 \in Nat /\ 0 + 1 = 1
      OBVIOUS
  <2>3. \A i \in 1..Len(mempool') : Fresh(chain', mempool'[i]) \/ ChangeAfter(0)'
      BY <1>3, <1>7, <1>9, <2>1, <2>2 DEF MempoolInv, FreshOrDropped
  <2>4. ASSUME NEW i \in 1..Len(callbacks'), callbacks'[i].kind = "submitted"
        PROVE  Fresh(chain', callbacks'[i].transactions[1]) \/ ChangeAfter(i)'
    <3>1. i + 1 \in 1..Len(callbacks) /\ i \in Nat /\ callbacks'[i] = callbacks[i + 1]
        BY <1>3
    <3> QED BY <1>3, <2>4, <3>1 DEF MempoolInv, FreshOrDropped
  <2> QED BY <2>3, <2>4 DEF FreshOrDropped
<1>11. AloneExecutable'
  <2> SUFFICES ASSUME ~exposed PROVE AloneExecutable'
      BY <1>2 DEF AloneExecutable
  <2>1. \A i \in 2..Len(callbacks) : callbacks[i].kind # "submitted"
      BY DEF MempoolInv, AloneExecutable
  <2>2. \A i \in 1..Len(callbacks') : callbacks'[i].kind # "submitted"
      BY <1>3, <2>1
  <2>3. callbacks' = <<>> => Executable(chain', mempool')
    <3> SUFFICES ASSUME callbacks' = <<>> PROVE Executable(chain', mempool')
        OBVIOUS
    <3>1. Len(callbacks) = 1
        BY <1>3
    <3>2. tx \notin ToSet(mempool) /\ Executable(chain, Append(mempool, tx))
        BY <1>1, <1>3, <3>1 DEF MempoolInv, AloneExecutable
    <3> QED BY <1>3, <1>5, <3>2
  <2>4. \A i \in 2..Len(callbacks') : i \in 1..Len(callbacks')
    <3>1. PICK m \in Int : m = Len(callbacks')
        BY <1>3
    <3>2. \A i \in 2..m : i \in 1..m
        OBVIOUS
    <3> QED BY <3>1, <3>2
  <2>5. Len(callbacks') = 1 => 1 \in 1..Len(callbacks')
    <3>1. 1 \in 1..1
        OBVIOUS
    <3> QED BY <3>1
  <2> QED BY <2>2, <2>3, <2>4, <2>5 DEF AloneExecutable
<1>12. SearchOK'
  <2>1. 0 \in Nat /\ 0 + 1 = 1
      OBVIOUS
  <2>2. ChangeAfter(0)' => ChangeAfter(0)
      BY <1>3, <2>1 DEF ChangeAfter
  <2> QED BY <1>2, <1>3, <2>2 DEF MempoolInv, SearchOK
<1> QED BY <1>8, <1>10, <1>11, <1>12 DEF MempoolInv

\* A callback that rechecks the mempool leaves one that can be mined.
LEMMA RecheckStep ==
    ASSUME MempoolInv, NEW kind \in {"included", "adopted"}, RunCallback(kind),
           mempool' \in Minable(chain), exposed' = (exposed /\ Waiting("submitted"))
    PROVE  MempoolInv'
<1>1. /\ callbacks # <<>> /\ callbacks[1].kind = kind
      /\ callbacks' \in Seq(CallbackSet) /\ UNCHANGED <<chain, mining>>
      /\ Len(callbacks) \in Nat \ {0} /\ Len(callbacks') = Len(callbacks) - 1
      /\ \A i \in 1..Len(callbacks') :
             i + 1 \in 2..Len(callbacks) /\ callbacks'[i] = callbacks[i + 1]
      /\ \A i \in Nat : ChangeAfter(i)' <=> ChangeAfter(i + 1)
    BY HeadRuns
<1>2. chain \in Seq(MempoolBlock) /\ exposed \in BOOLEAN
    BY DEF MempoolInv, ShapeOK
<1>3. mempool' \in Seq(Transaction) /\ Executable(chain, mempool')
    BY DEF Minable
<1>4. ShapeOK'
  <2>1. exposed' \in BOOLEAN
      OBVIOUS
  <2> QED BY <1>1, <1>2, <1>3, <2>1 DEF ShapeOK
<1>5. FreshOrDropped'
  <2>1. PICK txs : txs = mempool'
      OBVIOUS
  <2>2. \A i \in 1..Len(txs) : Fresh(chain, txs[i])
      BY <2>1, MinableFresh DEF MempoolInv
  <2>3. ASSUME NEW i \in 1..Len(callbacks'), callbacks'[i].kind = "submitted"
        PROVE  Fresh(chain', callbacks'[i].transactions[1]) \/ ChangeAfter(i)'
    <3>1. i + 1 \in 1..Len(callbacks) /\ i \in Nat /\ callbacks'[i] = callbacks[i + 1]
        BY <1>1
    <3> QED BY <1>1, <2>3, <3>1 DEF MempoolInv, FreshOrDropped
  <2> QED BY <1>1, <2>1, <2>2, <2>3 DEF FreshOrDropped
<1>6. AloneExecutable'
  <2> SUFFICES ASSUME ~exposed' PROVE AloneExecutable'
      BY DEF AloneExecutable
  <2>1. \A i \in 2..Len(callbacks) : callbacks[i].kind # "submitted"
    <3>1. CASE ~exposed
        BY <3>1 DEF MempoolInv, AloneExecutable
    <3>2. CASE ~Waiting("submitted")
        BY <3>2 DEF Waiting
    <3> QED BY <1>2, <3>1, <3>2
  <2>2. \A i \in 1..Len(callbacks') : callbacks'[i].kind # "submitted"
      BY <1>1, <2>1
  <2>3. \A i \in 2..Len(callbacks') : i \in 1..Len(callbacks')
    <3>1. PICK m \in Int : m = Len(callbacks')
        BY <1>1
    <3>2. \A i \in 2..m : i \in 1..m
        OBVIOUS
    <3> QED BY <3>1, <3>2
  <2>4. Len(callbacks') = 1 => 1 \in 1..Len(callbacks')
    <3>1. 1 \in 1..1
        OBVIOUS
    <3> QED BY <3>1
  <2> QED BY <1>1, <1>3, <2>2, <2>3, <2>4 DEF AloneExecutable
<1>7. SearchOK'
  <2>1. ChangeAfter(0)
    <3>1. 1 \in (0 + 1)..Len(callbacks)
        BY <1>1
    <3> QED BY <1>1, <3>1 DEF ChangeAfter
  <2> SUFFICES ASSUME mining # None PROVE SearchOK'
      BY <1>1 DEF SearchOK
  <2>2. /\ mining.chain \in Seq(MempoolBlock) /\ mining.transactions \in Seq(Transaction)
        /\ Len(mining.chain) < Len(chain)
      BY <2>1 DEF MempoolInv, SearchOK
  <2>3. mining.chain # chain /\ Len(mining.chain) <= Len(chain)
      BY <1>2, <2>2
  <2> QED BY <1>1, <2>2, <2>3 DEF SearchOK
<1> QED BY <1>4, <1>5, <1>6, <1>7 DEF MempoolInv
\* A search begins: a mempool that can be mined is selected whole.
LEMMA BeginStep ==
    ASSUME MempoolInv, BeginMining
    PROVE  MempoolInv'
<1>1. /\ callbacks = <<>> /\ UNCHANGED <<chain, mempool, callbacks, draining, exposed>>
      /\ mining' = [chain |-> chain, transactions |-> Selected]
    BY DEF BeginMining
<1>2. chain \in Seq(MempoolBlock) /\ Len(chain) \in Nat /\ mempool \in Seq(Transaction)
    BY DEF MempoolInv, ShapeOK
<1>3. Selected \in Seq(Transaction)
  <2>1. \A k \in Nat : k <= Len(mempool) => SubSeq(mempool, 1, k) \in Seq(Transaction)
      BY <1>2
  <2>2. PICK k \in Nat : Selected = SubSeq(mempool, 1, k) /\ k <= Len(mempool)
      BY <1>2, MempoolAssumption DEF Selected
  <2> QED BY <2>1, <2>2
<1>4. ~exposed => Executable(chain, Selected)
  <2> SUFFICES ASSUME ~exposed PROVE Executable(chain, Selected)
      OBVIOUS
  <2>1. Executable(chain, mempool)
      BY <1>1 DEF MempoolInv, AloneExecutable
  <2>2. Len(mempool) <= MaxTransactionsPerBlock
      BY <1>2, <2>1, ExecutableFresh
  <2>3. Selected = SubSeq(mempool, 1, Len(mempool))
    <3>1. Len(mempool) \in Nat /\ MaxTransactionsPerBlock \in Nat
        BY <1>2, MempoolAssumption
    <3>2. Len(mempool) < MaxTransactionsPerBlock \/ Len(mempool) = MaxTransactionsPerBlock
        BY <2>2, <3>1
    <3> QED BY <3>2 DEF Selected
  <2>4. SubSeq(mempool, 1, Len(mempool)) = mempool
      BY <1>2
  <2> QED BY <2>1, <2>3, <2>4
<1>5. ~ChangeAfter(0)'
  <2>1. Len(callbacks') = 0 /\ \A i \in (0 + 1)..0 : FALSE
      BY <1>1
  <2> QED BY <2>1 DEF ChangeAfter
<1>6. SearchOK'
    BY <1>1, <1>2, <1>3, <1>4, <1>5 DEF SearchOK
<1>7. ShapeOK' /\ FreshOrDropped' /\ AloneExecutable'
    BY <1>1 DEF MempoolInv, ShapeOK, FreshOrDropped, ChangeAfter, AloneExecutable
<1> QED BY <1>6, <1>7 DEF MempoolInv

\* A block of its own: what is left in the mempool can be mined.
LEMMA FindStep ==
    ASSUME MempoolInv, MineFinds
    PROVE  MempoolInv'
<1>1. /\ callbacks = <<>> /\ callbacks' = callbacks /\ exposed' = FALSE /\ mining' = None
      /\ mining # None
      /\ chain' = Append(chain, Block("own", mining.transactions))
      /\ mempool' = WithoutIncluded(chain', mempool, mining.transactions)
    BY DEF MineFinds
<1>2. /\ chain \in Seq(MempoolBlock) /\ mempool \in Seq(Transaction)
      /\ mining.transactions \in Seq(Transaction)
    BY <1>1 DEF MempoolInv, ShapeOK, SearchOK
<1>3. chain' \in Seq(MempoolBlock)
  <2>1. Block("own", mining.transactions) \in MempoolBlock
      BY <1>2 DEF Block, MempoolBlock
  <2> QED BY <1>1, <1>2, <2>1
<1>4. PICK blocks, txs : blocks = chain' /\ txs = mempool'
    OBVIOUS
<1>5. blocks \in Seq(MempoolBlock) /\ txs \in Minable(blocks)
    BY <1>1, <1>2, <1>3, <1>4, WithoutIncludedExecutable
<1>6. txs \in Seq(Transaction) /\ Executable(blocks, txs)
    BY <1>5 DEF Minable
<1>7. \A i \in 1..Len(txs) : Fresh(blocks, txs[i])
    BY <1>5, <1>6, ExecutableFresh DEF Fresh
<1>8. Len(callbacks') = 0 /\ (\A i \in 1..0 : FALSE) /\ (\A i \in 2..0 : FALSE)
    BY <1>1
<1>9. ShapeOK'
    BY <1>1, <1>3, <1>4, <1>6 DEF MempoolInv, ShapeOK
<1>10. FreshOrDropped'
    BY <1>4, <1>7, <1>8 DEF FreshOrDropped
<1>11. AloneExecutable'
    BY <1>4, <1>6, <1>8 DEF AloneExecutable
<1>12. SearchOK'
    BY <1>1 DEF SearchOK
<1> QED BY <1>9, <1>10, <1>11, <1>12 DEF MempoolInv

\* The invariant holds of a node that starts.
LEMMA MempoolStart == Init => MempoolInv
<1> SUFFICES ASSUME Init PROVE MempoolInv
    OBVIOUS
<1>1. chain = <<>> /\ mempool = <<>> /\ callbacks = <<>> /\ mining = None /\ exposed = FALSE
    BY DEF Init
<1>2. <<>> \in Seq(MempoolBlock) /\ <<>> \in Seq(Transaction) /\ <<>> \in Seq(CallbackSet)
    OBVIOUS
<1>3. (\A i \in 1..0 : FALSE) /\ (\A i \in 2..0 : FALSE) /\ Len(callbacks) = 0 /\ Len(mempool) = 0
    BY <1>1
<1>4. Executable(chain, mempool)
    BY <1>1, <1>2, NothingExecutable
<1>5. ShapeOK /\ SearchOK
    BY <1>1, <1>2 DEF ShapeOK, SearchOK
<1>6. FreshOrDropped
    BY <1>3 DEF FreshOrDropped
<1>7. AloneExecutable
    BY <1>3, <1>4 DEF AloneExecutable
<1> QED
    BY <1>5, <1>6, <1>7 DEF MempoolInv

\* Every frame, callback and batch of a search keeps it.
LEMMA MempoolStep == MempoolInv /\ [Next]_vars => MempoolInv'
<1> SUFFICES ASSUME MempoolInv, [Next]_vars PROVE MempoolInv'
    OBVIOUS
<1>0. chain \in Seq(MempoolBlock) /\ mempool \in Seq(Transaction) /\ callbacks \in Seq(CallbackSet)
    BY DEF MempoolInv, ShapeOK
<1>1. CASE \E tx \in Transaction : SubmitTransaction(tx)
    BY <1>1, SubmitStep
<1>2. ASSUME NEW transactions \in PeerLists, ReceiveBlock(transactions) PROVE MempoolInv'
  <2>1. PICK callback : callback = [kind |-> "included", transactions |-> transactions]
      OBVIOUS
  <2>2. transactions \in Seq(Transaction)
      BY MempoolAssumption
  <2>3. callback \in CallbackSet /\ callback.kind # "submitted"
      BY <2>1, <2>2 DEF CallbackSet
  <2>4. Block("peer", transactions) \in MempoolBlock
      BY <2>2 DEF Block, MempoolBlock
  <2>5. /\ Queue(callback) /\ UNCHANGED <<mempool, draining, mining, exposed>>
        /\ chain' = Append(chain, Block("peer", transactions))
      BY <1>2, <2>1 DEF ReceiveBlock
  <2>6. chain' \in Seq(MempoolBlock) /\ Len(chain') > Len(chain)
      BY <1>0, <2>4, <2>5
  <2> QED BY <2>3, <2>5, <2>6, ChangeQueued
<1>3. ASSUME NEW candidate \in PeerChains, ReceiveChain(candidate) PROVE MempoolInv'
  <2>1. PICK callback : callback = [kind |-> "adopted", transactions |-> <<>>]
      OBVIOUS
  <2>2. callback \in CallbackSet /\ callback.kind # "submitted"
    <3>1. <<>> \in Seq(Transaction)
        OBVIOUS
    <3> QED BY <2>1, <3>1 DEF CallbackSet
  <2>3. /\ Queue(callback) /\ UNCHANGED <<mempool, draining, mining, exposed>>
        /\ chain' = candidate /\ Len(candidate) > Len(chain)
      BY <1>3, <2>1 DEF ReceiveChain
  <2>4. chain' \in Seq(MempoolBlock)
      BY <2>3, MempoolAssumption
  <2> QED BY <2>2, <2>3, <2>4, ChangeQueued
<1>4. CASE RunSubmitted
    BY <1>4, RunSubmittedStep
<1>5. CASE RunIncluded
  <2>1. /\ RunCallback("included") /\ exposed' = (exposed /\ Waiting("submitted"))
        /\ mempool' = WithoutIncluded(chain, mempool, Head(callbacks).transactions)
      BY <1>5 DEF RunIncluded
  <2>2. PICK included : included = Head(callbacks).transactions
      OBVIOUS
  <2>3. mempool' \in Minable(chain)
      BY <1>0, <2>1, <2>2, WithoutIncludedExecutable
  <2> QED BY <2>1, <2>3, RecheckStep
<1>6. CASE RunAdopted
  <2>1. /\ RunCallback("adopted") /\ exposed' = (exposed /\ Waiting("submitted"))
        /\ mempool' = Revalidated(chain, mempool)
      BY <1>6 DEF RunAdopted
  <2>2. mempool' \in Minable(chain)
      BY <1>0, <2>1, RevalidatedExecutable
  <2> QED BY <2>1, <2>2, RecheckStep
<1>7. CASE BeginMining
    BY <1>7, BeginStep
<1>8. CASE MineFinds
    BY <1>8, FindStep
<1>9. CASE MineThrows
  <2>1. mining' = None /\ UNCHANGED <<chain, mempool, callbacks, draining, exposed>>
      BY <1>9 DEF MineThrows
  <2> QED BY <2>1 DEF MempoolInv, ShapeOK, FreshOrDropped, ChangeAfter, AloneExecutable, SearchOK
<1>10. CASE UNCHANGED vars
    BY <1>10
    DEF vars, MempoolInv, ShapeOK, FreshOrDropped, ChangeAfter, AloneExecutable, SearchOK
<1> QED
    BY <1>1, <1>2, <1>3, <1>4, <1>5, <1>6, <1>7, <1>8, <1>9, <1>10 DEF Next

-----------------------------------------------------------------------------
(* Theorems *)

\* MempoolInv is an invariant of the mempool: what waits in it and in the
\* callback queue is fresh and executable, or a callback that puts it right waits.
THEOREM MempoolInvariant == Spec => []MempoolInv
BY MempoolStart, MempoolStep, PTL DEF Spec

\* Between events no transaction waits that the chain has overtaken, however
\* submissions, blocks and reorganisations share the ticks.
THEOREM MempoolStaysFresh == Spec => []MempoolFresh
<1>1. MempoolInv => MempoolFresh
  <2> SUFFICES ASSUME MempoolInv, callbacks = <<>>, NEW tx \in ToSet(mempool)
               PROVE  tx.nonce >= LedgerOf(chain).nonces[tx.from]
      BY DEF MempoolFresh
  <2>1. PICK i \in 1..Len(mempool) : mempool[i] = tx
      BY DEF ToSet, MempoolInv, ShapeOK
  <2>2. ~ChangeAfter(0)
    <3>1. Len(callbacks) = 0 /\ \A j \in (0 + 1)..0 : FALSE
        OBVIOUS
    <3> QED BY <3>1 DEF ChangeAfter
  <2> QED BY <2>1, <2>2 DEF MempoolInv, FreshOrDropped, Fresh
<1> QED
    BY MempoolInvariant, <1>1, PTL

\* Between events the whole mempool can be mined in one block, unless a
\* submission was checked beside another callback of its tick.
THEOREM MempoolStaysExecutable == Spec => []MempoolExecutable
<1>1. MempoolInv => MempoolExecutable
    BY DEF MempoolInv, AloneExecutable, MempoolExecutable
<1> QED
    BY MempoolInvariant, <1>1, PTL

\* mine gives up a search only when the tip has moved: what it selected from an
\* executable mempool is never refused by applyMinedBlock.
THEOREM SearchNeverWasted == Spec => SearchNotWasted
<1>1. MempoolInv /\ [Next]_vars =>
          [mining # None /\ mining' = None /\ chain' = chain
               => mining.chain # chain \/ exposed]_vars
  <2> SUFFICES ASSUME MempoolInv, Next, mining # None, mining' = None, chain' = chain,
                      mining.chain = chain, ~exposed
               PROVE  FALSE
      OBVIOUS
  <2>1. Executable(chain, mining.transactions)
      BY DEF MempoolInv, SearchOK
  <2>2. ~MineThrows
      BY <2>1 DEF MineThrows
  <2>3. ~MineFinds
    <3>1. \A b : Append(chain, b) # chain
        BY DEF MempoolInv, ShapeOK
    <3> QED BY <3>1 DEF MineFinds
  <2>4. mining' # mining
      OBVIOUS
  <2> QED
      BY <2>2, <2>3, <2>4
      DEF Next, SubmitTransaction, ReceiveBlock, ReceiveChain, RunSubmitted, RunIncluded,
          RunAdopted, RunCallback, BeginMining
<1> QED
    BY MempoolInvariant, <1>1, PTL DEF Spec, SearchNotWasted
=============================================================================
