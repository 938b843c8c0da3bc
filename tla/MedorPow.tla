------------------------------ MODULE MedorPow ------------------------------
(***************************************************************************)
(* ProofOfWork (src/src/proof_of_work.cpp): the search for a nonce by one  *)
(* thread, which goes on where the last search stopped, and by several,    *)
(* which share the nonces out and stop at the first that one finds.        *)
(* A hash is known by its block, its nonce and its number of leading       *)
(* zeros.                                                                  *)
(***************************************************************************)
EXTENDS Integers, FiniteSets

CONSTANTS
    Block,
    Threads,        \* cfg_.threads, numbered from 0
    MaxNonce,       \* cfg_.maxNonce
    Zeros,          \* Zeros[b][n]: the leading zeros of the hash of b with nonce n
    MinDifficulty, MaxDifficulty,
    NoNonce,
    MaxSearches     \* bound

VARIABLES
    mined,          \* the block looked for, its difficulty, and what was found
    difficulty,
    miner,          \* for each thread, where it is and its nonce
    abort, found,   \* the flags the threads look at
    foundNonce, foundHash,
    nonceState,     \* the file: where to go on
    tried,          \* history: the nonces hashed in this search
    stopped,        \* history: the search was aborted or refused
    searches        \* bound

powVars == <<mined, difficulty, miner, abort, found, foundNonce, foundHash, nonceState,
             tried, stopped, searches>>

Thread == 0..(Threads - 1)
Idle == [t \in Thread |-> [at |-> "idle", nonce |-> 0]]

Init ==
    /\ mined = [block |-> NoNonce, nonce |-> NoNonce, hash |-> NoNonce]
    /\ difficulty = MinDifficulty
    /\ miner = Idle
    /\ abort = FALSE /\ found = FALSE /\ foundNonce = 0 /\ foundHash = NoNonce
    /\ nonceState = 0 /\ tried = {} /\ stopped = FALSE /\ searches = 0

HashMeetsTarget(b, n) == Zeros[b][n] >= difficulty
ValidateHash == Zeros[mined.block][mined.hash] >= difficulty /\ mined.hash = mined.nonce

Searching == \E t \in Thread : miner[t].at # "idle"

-----------------------------------------------------------------------------
(* mine *)

\* The nonces from n on, up to where the loop looks at the limit.
Candidates(n) == n..(IF n < MaxNonce THEN MaxNonce - 1 ELSE n)
Hits(b, n) == {k \in Candidates(n) : HashMeetsTarget(b, k)}

StartMine(b) ==
    /\ ~Searching /\ searches < MaxSearches /\ searches' = searches + 1
    /\ UNCHANGED <<difficulty, miner, abort, found, foundNonce, foundHash>>

MineFinds(b) ==
    /\ StartMine(b)
    /\ \E n \in Hits(b, nonceState) :
           /\ \A k \in Hits(b, nonceState) : n <= k
           /\ mined' = [block |-> b, nonce |-> n, hash |-> n]
           /\ tried' = nonceState..n
    /\ nonceState' = 0 /\ stopped' = FALSE

\* abort, or what the progress callback says: the nonce reached is kept.
MineStops(b) ==
    /\ StartMine(b)
    /\ \E n \in Candidates(nonceState) :
           /\ \A k \in Hits(b, nonceState) : n <= k
           /\ nonceState' = n /\ tried' = nonceState..(n - 1)
    /\ mined' = [block |-> b, nonce |-> NoNonce, hash |-> NoNonce] /\ stopped' = TRUE

\* The limit is looked at after a nonce is hashed: at or beyond it, one is.
MineExhausts(b) ==
    /\ nonceState <= MaxNonce
    /\ StartMine(b)
    /\ Hits(b, nonceState) = {}
    /\ tried' = Candidates(nonceState)
    /\ nonceState' = IF nonceState < MaxNonce THEN MaxNonce ELSE nonceState + 1
    /\ mined' = [block |-> b, nonce |-> NoNonce, hash |-> NoNonce] /\ stopped' = FALSE

-----------------------------------------------------------------------------
(* mineParallel *)

First(t) == t * (MaxNonce \div Threads)

End(t) == IF t = Threads - 1 THEN MaxNonce ELSE (t + 1) * (MaxNonce \div Threads)

Rest(t) == miner' = [miner EXCEPT ![t].at = "done"]

StartParallel(b) ==
    /\ ~Searching /\ searches < MaxSearches /\ searches' = searches + 1
    /\ mined' = [block |-> b, nonce |-> NoNonce, hash |-> NoNonce]
    /\ miner' = [t \in Thread |-> [at |-> "look", nonce |-> First(t)]]
    /\ abort' = FALSE /\ found' = FALSE /\ foundNonce' = 0 /\ foundHash' = NoNonce
    /\ tried' = {} /\ stopped' = FALSE
    /\ UNCHANGED <<difficulty, nonceState>>

Abort ==
    /\ Searching /\ ~abort
    /\ abort' = TRUE /\ stopped' = TRUE
    /\ UNCHANGED <<mined, difficulty, miner, found, foundNonce, foundHash, nonceState, tried, searches>>

Look(t) ==
    /\ miner[t].at = "look"
    /\ IF abort \/ found \/ miner[t].nonce >= End(t) THEN Rest(t)
       ELSE miner' = [miner EXCEPT ![t].at = "hash"]
    /\ UNCHANGED <<mined, difficulty, abort, found, foundNonce, foundHash, nonceState,
                   tried, stopped, searches>>

HashFails(t) ==
    /\ miner[t].at = "hash" /\ ~HashMeetsTarget(mined.block, miner[t].nonce)
    /\ tried' = tried \cup {miner[t].nonce}
    /\ miner' = [miner EXCEPT ![t] = [at |-> "look", nonce |-> @.nonce + 1]]
    /\ UNCHANGED <<mined, difficulty, abort, found, foundNonce, foundHash, nonceState, stopped, searches>>

\* The progress callback, of thread 0 only, refuses to go on.
ProgressRefuses ==
    /\ miner[0].at = "look" /\ miner[0].nonce > First(0)
    /\ found' = TRUE /\ stopped' = TRUE /\ Rest(0)
    /\ UNCHANGED <<mined, difficulty, abort, foundNonce, foundHash, nonceState, tried, searches>>

\* Variant: the winner is not decided by an exchange.
EveryHitWins == TRUE

WinsExchange == ~found

HashMeets(t) ==
    /\ miner[t].at = "hash" /\ HashMeetsTarget(mined.block, miner[t].nonce)
    /\ tried' = tried \cup {miner[t].nonce}
    /\ IF WinsExchange THEN found' = TRUE /\ miner' = [miner EXCEPT ![t].at = "nonce"]
       ELSE Rest(t) /\ UNCHANGED found
    /\ UNCHANGED <<mined, difficulty, abort, foundNonce, foundHash, nonceState, stopped, searches>>

StoreNonce(t) ==
    /\ miner[t].at = "nonce"
    /\ foundNonce' = miner[t].nonce /\ miner' = [miner EXCEPT ![t].at = "store"]
    /\ UNCHANGED <<mined, difficulty, abort, found, foundHash, nonceState, tried, stopped, searches>>

StoreHash(t) ==
    /\ miner[t].at = "store"
    /\ foundHash' = miner[t].nonce /\ Rest(t)
    /\ UNCHANGED <<mined, difficulty, abort, found, foundNonce, nonceState, tried, stopped, searches>>

\* A search that finds nothing saves 0, the initial value of foundNonce.
JoinMiners ==
    /\ \A t \in Thread : miner[t].at = "done"
    /\ miner' = Idle
    /\ mined' = IF found /\ foundHash # NoNonce
                THEN [mined EXCEPT !.nonce = foundNonce, !.hash = foundHash] ELSE mined
    /\ nonceState' = IF found /\ foundHash = NoNonce THEN nonceState ELSE 0
    /\ UNCHANGED <<difficulty, abort, found, foundNonce, foundHash, tried, stopped, searches>>

-----------------------------------------------------------------------------

Step == IF difficulty \div 10 > 1 THEN difficulty \div 10 ELSE 1

AdjustDifficulty ==
    /\ ~Searching
    /\ \/ difficulty' = IF difficulty + Step > MaxDifficulty THEN MaxDifficulty ELSE difficulty + Step
       \/ difficulty' = IF difficulty <= MinDifficulty + Step THEN MinDifficulty ELSE difficulty - Step
    /\ mined' = [block |-> NoNonce, nonce |-> NoNonce, hash |-> NoNonce]
    /\ tried' = {} /\ stopped' = FALSE
    /\ UNCHANGED <<miner, abort, found, foundNonce, foundHash, nonceState, searches>>

Next ==
    \/ \E b \in Block : MineFinds(b) \/ MineStops(b) \/ MineExhausts(b) \/ StartParallel(b)
    \/ \E t \in Thread : Look(t) \/ HashFails(t) \/ HashMeets(t) \/ StoreNonce(t) \/ StoreHash(t)
    \/ Abort \/ ProgressRefuses \/ JoinMiners \/ AdjustDifficulty

-----------------------------------------------------------------------------
(* Properties *)

\* The block that is found is the one looked for: its hash is that of its
\* nonce and meets the target.
FoundIsValid ==
    ~Searching /\ mined.nonce # NoNonce => ValidateHash

\* Several threads that find nothing, and were not told to stop, have tried
\* every nonce below the limit.
NothingSkipped ==
    (\A t \in Thread : miner[t].at = "done") /\ ~found /\ ~stopped => tried = 0..(MaxNonce - 1)

\* The threads of a search cover every nonce between them and make one valid
\* block of their hits, whatever was found or given up at the same moment.
SearchIsExact == FoundIsValid /\ NothingSkipped
=============================================================================
