----------------------------- MODULE MedorSubmit -----------------------------
(***************************************************************************)
(* Transactions handed to the C++ servers as JSON: deserializeTx and its   *)
(* replay cache (src/src/net/serialization.cpp), called by the HTTP        *)
(* handler of src/src/api_server.cpp and the RPC handler of                *)
(* src/src/rpc_server.cpp, which give addBlock what it returns.  Handlers  *)
(* run in several threads and share the cache.                             *)
(*                                                                         *)
(* A JSON object is a record of the fields it has.  Strings are sequences, *)
(* and r, s and data what Base64 makes of theirs.  The hash of a           *)
(* transaction is the record of the fields that are hashed; the field      *)
(* signed says that a key can be recovered from the signature, which then  *)
(* verifies: no sender is named for it to be compared with.  The fields of *)
(* inputs and outputs that are optional are there.                         *)
(***************************************************************************)
EXTENDS Integers, Sequences

CONSTANTS
    Thread,
    Request,             \* the JSON objects that clients send
    CURRENT_TX_VERSION,  \* which is MIN_TX_VERSION too
    Uint32,              \* 2^32
    Uint64,              \* 2^64, the modulus of the cache's differences
    MAX_ADDRESS_LEN, MAX_TX_DATA_BYTES,
    WordBytes,           \* the bytes of r and s: 32
    MEDORCOIN_CHAIN_ID,
    REPLAY_WINDOW_SECONDS,
    MaxClock, MaxCalls   \* bounds

VARIABLES
    clock,               \* the steady clock, in seconds
    seen,                \* g_replay_cache.seen, from hashes to seconds
    call,                \* what each thread is at
    returned,            \* history: what deserializeTx returned, and when
    wrapped,             \* history: a check met an entry later than its now
    calls                \* bound: requests received

submitVars == <<clock, seen, call, returned, wrapped, calls>>

Free == [at |-> "free"]

Init ==
    /\ clock = 0
    /\ seen = <<>>
    /\ call = [t \in Thread |-> Free]
    /\ returned = <<>> /\ wrapped = FALSE /\ calls = 0

-----------------------------------------------------------------------------
(* What a request must be *)

NumberFields == {"value", "gasLimit", "maxFeePerGas", "maxPriorityFeePerGas", "nonce",
                 "chainId", "v"}
Required == NumberFields \cup {"version", "txHash", "toAddress", "r", "s", "data"}
Hashed == (NumberFields \ {"v"}) \cup {"toAddress", "data", "inputs", "outputs"}

\* The version is cut to 32 bits before it is compared.
FieldsValid(j) ==
    /\ Required \subseteq DOMAIN j
    /\ j.version % Uint32 = CURRENT_TX_VERSION
    /\ \A f \in NumberFields : j[f] >= 0
    /\ Len(j.r) = WordBytes /\ Len(j.s) = WordBytes
    /\ Len(j.data) <= MAX_TX_DATA_BYTES
    /\ j.toAddress # <<>> /\ Len(j.toAddress) <= MAX_ADDRESS_LEN
    /\ j.chainId = MEDORCOIN_CHAIN_ID
    /\ \A i \in DOMAIN j.inputs : j.inputs[i].outputIndex >= 0

ComputeTxContentHash(j) == [f \in Hashed |-> j[f]]

\* -1 when there is none.
ComputeRecoveryId(v, chainId) ==
    IF chainId > 0 /\ v \in {35 + 2 * chainId, 36 + 2 * chainId} THEN v - (35 + 2 * chainId)
    ELSE IF v \in {27, 28} THEN v - 27
    ELSE -1

Verified(j) ==
    /\ j.txHash = ComputeTxContentHash(j)
    /\ ComputeRecoveryId(j.v, j.chainId) >= 0
    /\ j.signed

-----------------------------------------------------------------------------
(* The replay cache *)

\* Variant: an entry is dropped when its window ends, not after it.
ExpiresEarly(since, now) == (now - since) % Uint64 >= REPLAY_WINDOW_SECONDS

\* uint64_t differences wrap: an entry made after now was read has expired.
Expired(since, now) == (now - since) % Uint64 > REPLAY_WINDOW_SECONDS

Purged(now) == {h \in DOMAIN seen : ~Expired(seen[h], now)}

\* Whether check lets hash pass at now; it is remembered either way, before
\* it is known to be the hash of the transaction.
Fresh(hash, now) == hash \notin Purged(now)
Remember(hash, now) ==
    seen' = [h \in Purged(now) \cup {hash} |-> IF h = hash THEN now ELSE seen[h]]

-----------------------------------------------------------------------------
(* Handlers *)

Answer(t) == call' = [call EXCEPT ![t] = Free]

\* A request is parsed and its fields are checked; check reads the clock and
\* is not yet at its lock.
Receive(t, j) ==
    /\ call[t] = Free /\ calls < MaxCalls
    /\ calls' = calls + 1
    /\ IF FieldsValid(j)
       THEN call' = [call EXCEPT ![t] = [at |-> "check", tx |-> j, now |-> clock]]
       ELSE Answer(t)
    /\ UNCHANGED <<clock, seen, returned, wrapped>>

\* The rest of deserializeTx, of which only the cache is shared.
Deserialize(t) ==
    /\ call[t].at = "check"
    /\ LET tx == call[t].tx
           now == call[t].now
       IN  /\ Remember(tx.txHash, now)
           /\ wrapped' = (wrapped \/ \E h \in DOMAIN seen : seen[h] > now)
           /\ IF Fresh(tx.txHash, now) /\ Verified(tx)
              THEN /\ returned' = Append(returned, [hash |-> tx.txHash, now |-> now])
                   /\ call' = [call EXCEPT ![t].at = "add"]
              ELSE Answer(t) /\ UNCHANGED returned
    /\ UNCHANGED <<clock, calls>>

\* addBlock takes or refuses a block of it, and the client is told; a refused
\* transaction stays in the cache.
AddBlock(t) ==
    /\ call[t].at = "add"
    /\ Answer(t)
    /\ UNCHANGED <<clock, seen, returned, wrapped, calls>>

Tick ==
    /\ clock < MaxClock
    /\ clock' = clock + 1
    /\ UNCHANGED <<seen, call, returned, wrapped, calls>>

\* The cache is in memory only, and what is promised of it ends with it.
Restart ==
    /\ seen' = <<>> /\ call' = [t \in Thread |-> Free]
    /\ returned' = <<>> /\ wrapped' = FALSE
    /\ UNCHANGED <<clock, calls>>

Next ==
    \/ \E t \in Thread :
         \/ \E j \in Request : Receive(t, j)
         \/ Deserialize(t)
         \/ AddBlock(t)
    \/ Tick
    \/ Restart

Spec == Init /\ [][Next]_submitVars

-----------------------------------------------------------------------------
(* Properties *)

\* One process hands on a transaction once within the window, whichever
\* handlers and threads bring it and whatever else they bring; unless a
\* check was overtaken between its clock and its lock by one that read a
\* later second, and forgot what that one remembered.
OncePerWindow ==
    wrapped \/ \A i, j \in DOMAIN returned :
        i < j /\ returned[i].hash = returned[j].hash
            => returned[j].now - returned[i].now > REPLAY_WINDOW_SECONDS
=============================================================================
