----------------------------- MODULE MedorChain -----------------------------
(***************************************************************************)
(* The C++ chain (src/src/blockchain.cpp) with its UTXO set in memory, its *)
(* block database (src/src/db/blockdb.cpp) and the balances and two totals *)
(* it keeps in the account database: building, storing, applying, rolling  *)
(* back and committing a block, and closing, crashing and reopening.       *)
(*                                                                         *)
(* addBlock holds the chain's lock throughout, so no other call is seen    *)
(* inside it; a process that dies inside it is.  Writes reach the          *)
(* operating system in program order and survive the process.  The UTXO    *)
(* set has a header and tests here (src/include/utxo.h,                    *)
(* src/tests/test_utxo.cpp) but no implementation: it is as they say.      *)
(*                                                                         *)
(* A transaction's hash is the tuple of the fields hashed; a block's hash  *)
(* its header, which leaves out the transactions.  The difficulty is       *)
(* constant and the nonce search starts at 0, so the nonce is a function   *)
(* of the other fields.  A signature is the address it recovers to.        *)
(***************************************************************************)
EXTENDS Integers, FiniteSetsExt, SequencesExt

CONSTANTS
    Address, Miner,    \* all addresses; those that call addBlock
    Owner, Treasury,   \* cfg_.ownerAddress, cfg_.treasuryAddress
    NoSignature,       \* r = s = 0
    NoHash,            \* "", the previous hash of a genesis block
    None,              \* a key the account database does not hold
    SupplyKey, FeeKey, \* KEY_TOTAL_SUPPLY, KEY_BASE_FEE
    Schedule,          \* cfg_.rewardSchedule, a sequence of <<threshold, reward>>
    MaxSupply,         \* cfg_.maxSupply
    InitialBaseFee, TargetGas,
    Maturity,          \* UTXOSet::COINBASE_MATURITY
    MaxAmount,         \* the largest uint64_t
    MaxTransactions,   \* Block::MAX_TRANSACTIONS
    Garbled,           \* addresses with a '|' in them, which leave no number
                       \* where deserialize reads one
    MaxTime, MaxWrites \* bounds: of the clock, and of the blocks ever written

\* What the code takes for granted of its configuration.  Once the schedule
\* pays nothing it never pays again: addBlock asks it twice, and a first
\* transaction that spends would be checked against a later reward.
ChainAssumption ==
    /\ Miner \subseteq Address /\ {Owner, Treasury} \subseteq Address /\ Garbled \subseteq Address
    /\ NoSignature \notin Address /\ None \notin Nat
    /\ SupplyKey # FeeKey /\ {SupplyKey, FeeKey} \cap Address = {}
    /\ Schedule \in Seq(Nat \X Nat)
    /\ \A i, j \in DOMAIN Schedule : i < j /\ Schedule[i][2] = 0 => Schedule[j][2] = 0
    /\ MaxAmount \in Nat \ {0} /\ MaxSupply \in 0..MaxAmount
    /\ InitialBaseFee \in Nat /\ TargetGas \in Nat /\ MaxTransactions \in Nat
    /\ Maturity \in Nat /\ MaxTime \in Nat /\ MaxWrites \in Nat

VARIABLES
    pc,                \* where addBlock is; "closed" when there is no process
    chain,             \* chain_, as a sequence of block hashes
    utxo,              \* utxoSet_, from outpoints to unspent outputs
    supply, baseFee,   \* totalSupply_, baseFeePerGas_
    block,             \* the block addBlock works on, and its next transaction
    blockDB,           \* from hashes to the hashes of a block's transactions
    accounts,          \* accountDB_: "bal:" and an address, or one of two totals
    clock,             \* std::time, in seconds
    writes,            \* bound: blocks written so far
    committed,         \* history: hashes addBlock returned true for
    skipped,           \* history: hashes this process failed to load
    hidden             \* history: what the outputs of the transactions this
                       \* process added are worth above their 64-bit sums

memory == <<chain, utxo, supply, baseFee>>
disk == <<blockDB, accounts>>
history == <<committed, skipped, hidden>>
vars == <<pc, memory, block, disk, clock, writes, history>>

NoBlock == [header |-> NoHash, txs |-> <<>>, next |-> 0]
Open == pc # "closed"
Key == Address \cup {SupplyKey, FeeKey}

Init ==
    /\ pc = "closed" /\ chain = <<>> /\ utxo = <<>> /\ supply = 0 /\ baseFee = 1
    /\ block = NoBlock
    /\ blockDB = <<>> /\ accounts = [k \in Key |-> None]
    /\ clock = 0 /\ writes = 0 /\ committed = {} /\ skipped = {} /\ hidden = 0

-----------------------------------------------------------------------------
(* The UTXO set *)

SpendableAt(u, outpoint, height) ==
    /\ outpoint \in DOMAIN u
    /\ u[outpoint].coinbase => height >= u[outpoint].height + Maturity

Without(u, outpoints) == [o \in DOMAIN u \ outpoints |-> u[o]]
With(u, outpoint, coin) == [o \in DOMAIN u \cup {outpoint} |-> IF o = outpoint THEN coin ELSE u[o]]
Total(u) ==
    LET worth == [o \in DOMAIN u |-> u[o].value] IN MapThenSumSet(LAMBDA o : worth[o], DOMAIN u)

TxHash(tx) == <<tx.inputs, tx.outputs>>
Outpoints(tx) == {<<TxHash(tx), i>> : i \in DOMAIN tx.outputs}

Values(outputs) == [i \in DOMAIN outputs |-> outputs[i].value]

\* uint64_t sums wrap.
SumOf(values) == FoldLeft(LAMBDA a, b : (a + b) % (MaxAmount + 1), 0, values)

\* What is lost of a sum that wraps, of one transaction and of several.
ExactSum(values) == FoldLeft(LAMBDA a, b : a + b, 0, values)
Hidden(tx) == ExactSum(Values(tx.outputs)) - SumOf(Values(tx.outputs))
HiddenIn(txs) == ExactSum([i \in DOMAIN txs |-> Hidden(txs[i])])

-----------------------------------------------------------------------------
(* The databases *)

Put(db, key, value) == [db EXCEPT ![key] = value]
Get(db, key, default) == IF db[key] = None THEN default ELSE db[key]

\* What serialize and deserialize keep of a block's transactions: their
\* hashes and, of those that spend, toAddress (here the first output's).
Stored(txs) == [i \in DOMAIN txs |-> TxHash(txs[i])]
WriteBlock(db, hash, txs) ==
    [h \in DOMAIN db \cup {hash} |-> IF h = hash THEN Stored(txs) ELSE db[h]]

\* deserialize refuses more transactions than addBlock does, and loses its
\* place at a '|' in the miner's or in a recipient's address.
Readable(hash, stored) ==
    /\ Len(stored) <= MaxTransactions
    /\ hash.miner \notin Garbled
    /\ \A i \in DOMAIN stored :
           LET inputs == stored[i][1]  outputs == stored[i][2]
           IN  inputs # <<>> /\ outputs # <<>> => outputs[1].address \notin Garbled

ReadableIn(db) == {h \in DOMAIN db : Readable(h, db[h])}

-----------------------------------------------------------------------------
(* Balances, fees, rewards *)

GetBalance(db, a) == Get(db, a, 0)

AddBalance(db, a, amount) ==
    IF amount > MaxAmount - GetBalance(db, a) THEN db
    ELSE Put(db, a, GetBalance(db, a) + amount)

DeductBalance(db, a, amount) == Put(db, a, GetBalance(db, a) - amount)

NetworkFee(value) == IF value <= 1000 THEN 9 ELSE (value * 2) \div 100

\* Variant: the fee is not limited to what the output brings in.
TakeWholeFee(db, a, value) ==
    LET fee == NetworkFee(value)
    IN  IF fee > GetBalance(db, a) THEN db
        ELSE AddBalance(DeductBalance(db, a, fee), Treasury, fee)

\* The network fee moves from the recipient to the treasury, and not at all
\* when the recipient cannot pay it.
TakeNetworkFee(db, a, value) ==
    LET fee == Min({NetworkFee(value), value})
    IN  IF fee > GetBalance(db, a) THEN db
        ELSE AddBalance(DeductBalance(db, a, fee), Treasury, fee)

BlockReward(now) ==
    LET elapsed == now - chain[1].time
        ahead == {i \in DOMAIN Schedule : elapsed < Schedule[i][1]}
    IN  IF Schedule = <<>> THEN 0
        ELSE IF chain = <<>> THEN Schedule[1][2]
        ELSE IF ahead = {} THEN Last(Schedule)[2] ELSE Schedule[Min(ahead)][2]

AllowedReward(now) == Min({BlockReward(now), MaxSupply - supply})

Coinbase(miner, reward) ==
    LET share == (reward * 90) \div 100
    IN  [inputs |-> <<>>, signer |-> NoSignature,
         outputs |-> << [value |-> share, address |-> miner],
                        [value |-> reward - share, address |-> Owner] >>]

\* Less than half full, an eighth down and at least 1; else up likewise.
NextBaseFee(fee, gasUsed) ==
    LET delta == Max({1, fee \div 8})
    IN  IF TargetGas = 0 THEN fee
        ELSE IF gasUsed * 2 > TargetGas THEN fee + delta
        ELSE IF fee > delta THEN fee - delta ELSE 1

-----------------------------------------------------------------------------
(* validateTransactions *)

ValidCoinbase(tx, now) ==
    SumOf(Values(tx.outputs)) <= AllowedReward(now)

ValidSpend(tx) ==
    /\ \A i \in DOMAIN tx.inputs :
           /\ tx.inputs[i] \in DOMAIN utxo
           /\ tx.signer \in {NoSignature, utxo[tx.inputs[i]].address}
    /\ SumOf(Values(tx.outputs)) <= SumOf([i \in DOMAIN tx.inputs |-> utxo[tx.inputs[i]].value])

\* The first transaction is taken for a coinbase, even when there is none,
\* and maturity is left to the application.
ValidTransactions(txs, now) ==
    LET spent == FlattenSeq([i \in 1..Len(txs) |-> IF i = 1 THEN <<>> ELSE txs[i].inputs])
    IN  /\ IsInjective([i \in DOMAIN txs |-> TxHash(txs[i])])
        /\ IsInjective(spent)
        /\ \A i \in DOMAIN txs : IF i = 1 THEN ValidCoinbase(txs[1], now) ELSE ValidSpend(txs[i])

-----------------------------------------------------------------------------
(* Opening and closing *)

ByTime(hashes) ==
    {s \in SetToSeqs(hashes) : \A i, j \in DOMAIN s : i < j => s[i].time <= s[j].time}

\* Variant: of blocks of one second, one is loaded.
OnePerSecond(db) ==
    UNION {ByTime(some) : some \in {S \in SUBSET ReadableIn(db) :
        /\ {h.time : h \in S} = {h.time : h \in ReadableIn(db)}
        /\ \A g, h \in S : g.time = h.time => g = h}}

\* What loadChainFromDB may load: all that reads back, sorted by time.  The
\* sort is not stable and the iterator is in the order of the hashes.
LoadedChains(db) == ByTime(ReadableIn(db))

\* addBlock up to the write of the block.  The wall clock is read for the
\* reward, then for its check and for the timestamp, and may move meanwhile.
StoreBlock(onto, miner, offered, before, now) ==
    LET reward == AllowedReward(before)
        txs == IF reward > 0 THEN <<Coinbase(miner, reward)>> \o offered ELSE offered
        header == [prev |-> IF onto = <<>> THEN NoHash ELSE Last(onto),
                   miner |-> miner, time |-> now, reward |-> reward, baseFee |-> baseFee]
    IN  /\ clock <= before /\ before <= now
        /\ writes < MaxWrites /\ writes' = writes + 1
        /\ ValidTransactions(txs, now)
        /\ clock' = now
        /\ blockDB' = WriteBlock(blockDB, header, txs)
        /\ block' = [header |-> header, txs |-> txs, next |-> 1]
        /\ pc' = "apply"

Times == clock..MaxTime

\* The constructor: the totals are read, the chain is loaded.
Start ==
    /\ pc = "closed"
    /\ supply' = Get(accounts, SupplyKey, 0)
    /\ baseFee' = Get(accounts, FeeKey, InitialBaseFee)
    /\ chain' \in LoadedChains(blockDB)
    /\ skipped' = DOMAIN blockDB \ ReadableIn(blockDB)
    /\ pc' = IF chain' = <<>> THEN "genesis" ELSE "idle"
    /\ UNCHANGED <<utxo, block, disk, clock, writes, committed, hidden>>

\* The constructor, when no block was loaded: the owner mines the genesis block.
MineGenesis ==
    /\ pc = "genesis"
    /\ \E before, now \in Times : StoreBlock(<<>>, Owner, <<>>, before, now)
    /\ UNCHANGED <<memory, accounts, history>>

Lose ==
    /\ pc' = "closed" /\ chain' = <<>> /\ utxo' = <<>> /\ supply' = 0 /\ baseFee' = 1
    /\ block' = NoBlock /\ skipped' = {} /\ hidden' = 0

\* The destructor.
Stop ==
    /\ pc = "idle"
    /\ Lose
    /\ accounts' = Put(Put(accounts, SupplyKey, supply), FeeKey, baseFee)
    /\ UNCHANGED <<blockDB, clock, writes, committed>>

Crash ==
    /\ Open
    /\ Lose
    /\ UNCHANGED <<disk, clock, writes, committed>>

-----------------------------------------------------------------------------
(* addBlock *)

\* A call that is refused changes nothing and is left out.
AddBlock(miner, offered) ==
    /\ pc = "idle"
    /\ \E before, now \in Times : StoreBlock(chain, miner, offered, before, now)
    /\ UNCHANGED <<memory, accounts, history>>

\* The inputs in order, up to the first that cannot be spent.
SpendInputs(tx, height) ==
    FoldLeft(LAMBDA acc, o : IF acc.ok /\ SpendableAt(acc.utxo, o, height)
                             THEN [acc EXCEPT !.utxo = Without(@, {o})]
                             ELSE [acc EXCEPT !.ok = FALSE],
             [ok |-> TRUE, utxo |-> utxo, accounts |-> accounts], tx.inputs)

\* The outputs in order, up to the first that is already there.
AddOutputs(tx, height, coinbase, spent) ==
    LET Credited(db, out) ==
            LET paid == AddBalance(db, out.address, out.value)
            IN  IF coinbase THEN paid ELSE TakeNetworkFee(paid, out.address, out.value)
        Coin(out) == [value |-> out.value, address |-> out.address,
                      height |-> height, coinbase |-> coinbase]
        Add(acc, i) ==
            IF acc.ok /\ <<TxHash(tx), i>> \notin DOMAIN acc.utxo
            THEN [ok |-> TRUE,
                  utxo |-> With(acc.utxo, <<TxHash(tx), i>>, Coin(tx.outputs[i])),
                  accounts |-> Credited(acc.accounts, tx.outputs[i])]
            ELSE [acc EXCEPT !.ok = FALSE]
    IN  FoldLeft(Add, spent, [i \in 1..Len(tx.outputs) |-> i])

\* One turn of applyBlockToState.
ApplyTransaction ==
    /\ pc = "apply" /\ block.next <= Len(block.txs)
    /\ LET tx == block.txs[block.next]
           height == Len(chain)
           spent == SpendInputs(tx, height)
           done == IF spent.ok THEN AddOutputs(tx, height, block.next = 1, spent) ELSE spent
       IN  /\ utxo' = done.utxo
           /\ accounts' = done.accounts
           /\ pc' = IF done.ok THEN "apply" ELSE "rollback"
           /\ block' = IF done.ok THEN [block EXCEPT !.next = @ + 1] ELSE block
    /\ UNCHANGED <<chain, supply, baseFee, blockDB, clock, writes, history>>

\* Variant: the loop ends before the first transaction.
RollBackToSecond ==
    /\ pc = "rollback"
    /\ utxo' = Without(utxo, UNION {Outpoints(tx) : tx \in Range(Tail(block.txs))})
    /\ pc' = "idle"
    /\ block' = NoBlock
    /\ UNCHANGED <<chain, supply, baseFee, disk, clock, writes, history>>

\* rollbackBlockFromState: the outputs go; what was spent and credited stays.
RollBack ==
    /\ pc = "rollback"
    /\ utxo' = Without(utxo, UNION {Outpoints(tx) : tx \in Range(block.txs)})
    /\ pc' = "idle"
    /\ block' = NoBlock
    /\ UNCHANGED <<chain, supply, baseFee, disk, clock, writes, history>>

\* The rest of addBlock up to the first write of persistState.  No block
\* that addBlock builds uses gas.
Commit ==
    /\ pc = "apply" /\ block.next > Len(block.txs)
    /\ chain' = Append(chain, block.header)
    /\ supply' = supply + block.header.reward
    /\ baseFee' = NextBaseFee(baseFee, 0)
    /\ accounts' = Put(accounts, SupplyKey, supply')
    /\ pc' = "persist"
    /\ hidden' = hidden + HiddenIn(block.txs)
    /\ UNCHANGED <<utxo, block, blockDB, clock, writes, committed, skipped>>

Persist ==
    /\ pc = "persist"
    /\ accounts' = Put(accounts, FeeKey, baseFee)
    /\ pc' = "idle"
    /\ committed' = committed \cup {block.header}
    /\ block' = NoBlock
    /\ UNCHANGED <<memory, blockDB, clock, writes, skipped, hidden>>

-----------------------------------------------------------------------------
(* Callers: the miner, and whoever offers transactions *)

\* A transaction that spends the outpoint o whole to one address.
Pays(o, signer, value, to) ==
    [inputs |-> <<o>>, signer |-> signer, outputs |-> << [value |-> value, address |-> to] >>]

\* Transactions whose outputs are worth more than a uint64_t holds, so that
\* they sum to nothing, and those that spend two outputs.
PaysTooMuch(o) ==
    [inputs |-> <<o>>, signer |-> NoSignature,
     outputs |-> << [value |-> MaxAmount, address |-> Owner], [value |-> 1, address |-> Owner] >>]
Joins(o, p) ==
    [inputs |-> <<o, p>>, signer |-> NoSignature,
     outputs |-> << [value |-> SumOf(<<utxo[o].value, utxo[p].value>>), address |-> Owner] >>]

\* Miner::mineMedor offers none; the mempool has a few.  One transaction pays
\* on an output whole or all but lost, or claims more, one way or the other;
\* or it joins two outputs, or one with itself; two pay on one each.
Offered ==
    LET one == UNION {{Pays(o, signer, value, to) :
                          signer \in {NoSignature, Owner}, to \in Address,
                          value \in {1, utxo[o].value, utxo[o].value + 1} \cap (0..MaxAmount)} :
                       o \in DOMAIN utxo}
        many == {PaysTooMuch(o) : o \in DOMAIN utxo} \cup {Joins(o, p) : o, p \in DOMAIN utxo}
        whole == {Pays(o, NoSignature, utxo[o].value, Owner) : o \in DOMAIN utxo}
    IN  {<<>>} \cup {<<tx>> : tx \in one \cup many} \cup (whole \X whole)

Next ==
    \/ Start \/ MineGenesis \/ Stop \/ Crash
    \/ \E miner \in Miner, offered \in Offered : AddBlock(miner, offered)
    \/ ApplyTransaction \/ RollBack \/ Commit \/ Persist

Spec == Init /\ [][Next]_vars

-----------------------------------------------------------------------------
(* Properties *)

TypeOK ==
    /\ pc \in {"closed", "genesis", "idle", "apply", "rollback", "persist"}
    /\ supply \in Nat /\ baseFee \in Nat \ {0}
    /\ accounts \in [Key -> Nat \cup {None}]
    /\ \A o \in DOMAIN utxo : utxo[o].value \in 0..MaxAmount /\ utxo[o].address \in Address
    /\ Range(chain) \cup committed \subseteq DOMAIN blockDB
    /\ clock \in 0..MaxTime /\ writes \in 0..MaxWrites
    /\ skipped \subseteq DOMAIN blockDB /\ hidden \in Nat

\* The unspent outputs are never worth more than what was issued, the block
\* under way included, and that is never more than the cap: not after a
\* block failed half way and was rolled back, nor after a restart.  Only sums
\* of outputs that wrap let out more, and no more than what they lose.
UnderWay == pc \in {"apply", "rollback"}
InFlight == IF UnderWay THEN block.header.reward ELSE 0
HiddenInFlight == IF UnderWay THEN HiddenIn(block.txs) ELSE 0
OutputsBacked ==
    /\ Total(utxo) <= supply + InFlight + hidden + HiddenInFlight
    /\ supply + InFlight <= MaxSupply

\* A block addBlock reported as added is stored, and is in the chain of
\* every later process that has loaded it, whatever crashed in between,
\* unless what is stored of it did not read back.
CommittedSurvive ==
    /\ committed \subseteq DOMAIN blockDB
    /\ pc = "idle" => committed \subseteq Range(chain) \cup skipped

\* What the transaction under way pays, all its outputs together.
Paying ==
    IF pc = "apply" /\ block.next <= Len(block.txs) THEN block.txs[block.next].outputs ELSE <<>>
Paid == ExactSum(Values(Paying))

\* Paying into an account never leaves it poorer: the network fee is taken
\* from what the output brings, even when that is less than the flat fee.
\* Said of accounts with room for what is paid: addBalance refuses a credit
\* that overflows, and the block takes the fee from the account all the same.
NoneLowered ==
    \A a \in Address :
        GetBalance(accounts, a) + Paid <= MaxAmount =>
            GetBalance(accounts', a) >= GetBalance(accounts, a)

CreditsNeverLower == [][NoneLowered]_accounts

\* src/tests/test_blockchain.cpp:121: five blocks of one miner, without
\* transactions, are all added.  Here: applying such a block succeeds.
EmptyBlocksAdd == pc = "rollback" => Len(block.txs) > 1
=============================================================================
