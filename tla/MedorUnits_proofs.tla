-------------------------- MODULE MedorUnits_proofs ---------------------------
(***************************************************************************)
(* What the units of MedorUnits promise, for every value of their          *)
(* constants: those that keep keys, accounts and records or share out work *)
(* first, then those that answer peers and clients.  Each has an inductive *)
(* invariant of its own, which the steps of the other units leave alone.   *)
(***************************************************************************)
EXTENDS MedorUnits, FiniteSetTheorems, SequenceTheorems, Totals

-----------------------------------------------------------------------------
(* The key file: MedorNodeIdentity                                         *)

IdentityTypeOK ==
    /\ file \in [SecretKey -> [holds : SecretKey \cup {Torn}, synced : BOOLEAN]]
    /\ tmp \in SecretKey \cup {NoFile} /\ name \in SecretKey \cup {NoFile}
    /\ disk \in SecretKey \cup {NoFile} /\ key \in SecretKey \cup {NoFile}
    /\ step \in {"down", "open", "write", "sync", "rename", "up"}

\* A file the path leads to, in the kernel or on the disk, is whole and synced;
\* the temporary name leads to another.
NamedWhole ==
    /\ \A f \in {name, disk} \ {NoFile} : file[f].holds \in SecretKey /\ file[f].synced
    /\ tmp # NoFile => tmp \notin {name, disk}

\* What generate has done by each of its calls.
GenerateAt ==
    /\ step = "open" => key \in SecretKey /\ key \notin {name, disk}
    /\ step \in {"write", "sync", "rename"} => key \in SecretKey /\ tmp # NoFile
    /\ step \in {"sync", "rename"} => file[tmp].holds = key
    /\ step = "rename" => file[tmp].synced
    /\ step = "up" => name # NoFile /\ file[name].holds = key

IdentityInv == IdentityTypeOK /\ NamedWhole /\ GenerateAt

\* The invariant of save_to_file and generate: each call finds what the ones
\* before it left (src/src/net/node_identity.cpp).
LEMMA KeyFileKept ==
    /\ Identity!Init => IdentityInv
    /\ IdentityInv /\ [Identity!Next]_(Identity!identityVars) => IdentityInv'
<1>1. Identity!Init => IdentityInv
    BY DEF Identity!Init, Identity!Unwritten, IdentityInv, IdentityTypeOK, NamedWhole, GenerateAt
<1>2. IdentityInv /\ [Identity!Next]_Identity!identityVars => IdentityInv'
  <2> SUFFICES ASSUME IdentityInv, [Identity!Next]_Identity!identityVars
               PROVE  IdentityInv'
      OBVIOUS
  <2> USE DEF IdentityInv, IdentityTypeOK, NamedWhole, GenerateAt, Identity!Unwritten
  <2>1. CASE Identity!Generate
      BY <2>1 DEF Identity!Generate
  <2>2. CASE Identity!OpenTemporary
      BY IdentityAssumption, <2>2 DEF Identity!OpenTemporary
  <2>3. CASE Identity!WriteKey
      BY <2>3 DEF Identity!WriteKey
  <2>4. CASE Identity!SyncKey
    <3>1. /\ step = "sync" /\ step' = "rename" /\ tmp \in SecretKey
          /\ UNCHANGED <<tmp, name, disk, key>>
        BY <2>4 DEF Identity!SyncKey
    <3> DEFINE File == [holds : SecretKey \cup {Torn}, synced : BOOLEAN]
               whole == [file[tmp] EXCEPT !.synced = TRUE]
    <3>2. file' = [file EXCEPT ![tmp] = whole]
        BY <2>4 DEF Identity!SyncKey
    <3>3. file \in [SecretKey -> File] /\ file[tmp] \in File
        BY <3>1
    <3>4. whole \in File
        BY <3>3, Zenon
    <3>5. whole.synced = TRUE /\ whole.holds = file[tmp].holds
        BY <3>3
    <3> HIDE DEF whole
    <3>6. file' \in [SecretKey -> File]
        BY <3>2, <3>3, <3>4
    <3> QED BY <3>1, <3>2, <3>3, <3>5, <3>6
  <2>5. CASE Identity!RenameTemporary
      BY <2>5 DEF Identity!RenameTemporary
  <2>6. CASE Identity!CallFails
      BY <2>6 DEF Identity!CallFails
  <2>7. CASE Identity!LoadFromFile
      BY <2>7 DEF Identity!LoadFromFile
  <2>8. CASE Identity!ProcessEnds
      BY <2>8 DEF Identity!ProcessEnds
  <2>9. CASE Identity!DirectoryReachesDisk
      BY <2>9 DEF Identity!DirectoryReachesDisk
  <2>10. CASE Identity!PowerFails
      BY <2>10 DEF Identity!PowerFails
  <2>11. CASE UNCHANGED Identity!identityVars
      BY <2>11 DEF Identity!identityVars
  <2> QED
      BY <2>1, <2>2, <2>3, <2>4, <2>5, <2>6, <2>7, <2>8, <2>9, <2>10, <2>11 DEF Identity!Next
<1> QED
    BY <1>1, <1>2

\* No step of the other units breaks it.
THEOREM KeyFileInvariant == UnitsSpec => [](unit = "identity" => IdentityInv)
<1> DEFINE Inv == unit = "identity" => IdentityInv
<1>1. UnitsInit => Inv
    BY KeyFileKept DEF UnitsInit, IdentityInit, AccountsInit, KeysInit, ConnectionsInit,
                       SubmitInit, LimiterInit, PowInit, RegistryInit, NetworkInit, PoolsInit,
                       EvmInit, PeersInit
<1>2. Inv /\ [UnitsNext]_<<unit, unitVars>> => Inv'
  <2> SUFFICES ASSUME Inv, [UnitsNext]_<<unit, unitVars>>, unit' = "identity" PROVE IdentityInv'
      OBVIOUS
  <2>1. unit = "identity" /\ [Identity!Next]_(Identity!identityVars)
      BY DEF UnitsNext, IdentityNext, AccountsNext, KeysNext, ConnectionsNext,
             SubmitNext, LimiterNext, PowNext, RegistryNext, NetworkNext, PoolsNext, EvmNext,
             PeersNext, unitVars, fileVars, recordVars, keyVars,
             Identity!identityVars
  <2> QED BY <2>1, KeyFileKept
<1> QED
    BY <1>1, <1>2, PTL DEF UnitsSpec

\* The key file is never torn, on the disk or in the kernel, and while the node
\* is up it holds the key the node uses, whichever call fails and whenever the
\* process or the power does.
THEOREM KeyStaysWhole == UnitsSpec => []KeyWhole
<1>1. (unit = "identity" => IdentityInv) => KeyWhole
    BY IdentityAssumption DEF KeyWhole, IdentityInv, NamedWhole, GenerateAt, Identity!KeyWhole
<1> QED
    BY <1>1, KeyFileInvariant, PTL

-----------------------------------------------------------------------------
(* Balances and state roots: MedorAccounts                                 *)

CallsHaveShape ==
    /\ call = [t \in NodeThread |-> call[t]]
    /\ \A t \in NodeThread :
           call[t] = [op |-> call[t].op, at |-> call[t].at, read |-> call[t].read]

\* Commits, and roots that are put, are of heights; any number overlap.
CallsOfHeights ==
    \A t \in NodeThread : call[t].op \in {"commit", "root"} => call[t].at \in Height

HistoryOK ==
    /\ balance = [a \in Address |-> balance[a]]
    /\ setBy = [a \in Address |-> setBy[a]]
    /\ since = [h \in DOMAIN since |-> since[h]] /\ DOMAIN since \subseteq Height

AccountsInv == CallsHaveShape /\ CallsOfHeights /\ HistoryOK /\ Accounts!BlocksWhole

\* A call that begins, at a thread that is free.
LEMMA CallBegins ==
    ASSUME CallsHaveShape, CallsOfHeights, NEW t \in NodeThread, NEW o, NEW x, NEW r,
           Accounts!Start(t, [op |-> o, at |-> x, read |-> r]),
           o \in {"commit", "root"} => x \in Height
    PROVE  CallsHaveShape' /\ CallsOfHeights'
<1>1. /\ CallsHaveShape'
      /\ call'[t].op = o /\ call'[t].at = x
      /\ \A u \in NodeThread : u # t => call'[u] = call[u]
    BY DEF Accounts!Start, CallsHaveShape
<1> QED BY <1>1 DEF CallsOfHeights

\* A call that ends, by its last put or because this fails.
LEMMA CallEnds ==
    ASSUME CallsHaveShape, CallsOfHeights, NEW t \in NodeThread,
           call' = [call EXCEPT ![t] = Accounts!Free]
    PROVE  CallsHaveShape' /\ CallsOfHeights'
<1>1. /\ CallsHaveShape'
      /\ call'[t].op = "none"
      /\ \A u \in NodeThread : u # t => call'[u] = call[u]
    BY DEF Accounts!Free, CallsHaveShape
<1> QED BY <1>1 DEF CallsOfHeights

\* One balance is put, from outside a block.
LEMMA PutKeepsBlocks ==
    ASSUME HistoryOK, Accounts!BlocksWhole, NEW x, NEW amount,
           balance' = [balance EXCEPT ![x] = amount],
           setBy' = [setBy EXCEPT ![x] = Accounts!APut],
           since' = Accounts!SetAgain({x}), UNCHANGED <<root, noted>>
    PROVE  HistoryOK' /\ Accounts!BlocksWhole'
<1>1. /\ balance' = [a \in Address |-> balance'[a]] /\ setBy' = [a \in Address |-> setBy'[a]]
      /\ \A a \in Address : /\ a # x => setBy'[a] = setBy[a] /\ balance'[a] = balance[a]
                            /\ a = x => setBy'[a] = -1
    BY DEF HistoryOK, Accounts!APut
<1>2. /\ since' = [h \in DOMAIN since' |-> since'[h]] /\ DOMAIN since' = DOMAIN since
      /\ \A h \in DOMAIN since : since'[h] = since[h] \cup {x}
    BY DEF Accounts!SetAgain
<1>3. \A a \in Address : setBy'[a] \in Height \cup {0} => a # x
    BY <1>1, AccountsAssumption
<1>4. \A h \in DOMAIN since' : \A a \in DOMAIN Balances[h] \ since'[h] : setBy'[a] = h
  <2> SUFFICES ASSUME NEW h \in DOMAIN since', NEW a \in DOMAIN Balances[h] \ since'[h]
               PROVE  setBy'[a] = h
      OBVIOUS
  <2>1. a # x /\ a \in DOMAIN Balances[h] \ since[h] /\ h \in DOMAIN since
      BY <1>2
  <2>2. setBy[a] = h
      BY <2>1 DEF Accounts!BlocksWhole
  <2> QED BY <2>1, <2>2 DEF HistoryOK
<1>5. ASSUME NEW a \in Address
      PROVE  /\ setBy'[a] = 0 => balance'[a] = 0
             /\ setBy'[a] \in Height => /\ setBy'[a] \in DOMAIN since'
                                        /\ balance'[a] = Balances[setBy'[a]][a]
    BY <1>1, <1>2, <1>3 DEF Accounts!BlocksWhole, Accounts!Nobody
<1>6. HistoryOK'
    BY <1>1, <1>2 DEF HistoryOK
<1> QED
    BY <1>2, <1>4, <1>5, <1>6 DEF Accounts!BlocksWhole, Accounts!Nobody

\* A batch sets all balances of its block at once.
LEMMA BatchKeepsBlocks ==
    ASSUME AccountsInv, NEW t \in NodeThread, Accounts!WriteBatch(t)
    PROVE  HistoryOK' /\ Accounts!BlocksWhole'
<1>1. PICK h, mine : h = call[t].at /\ mine = DOMAIN Balances[h]
    OBVIOUS
<1>2. /\ h \in Height /\ mine \subseteq Address /\ h \in Nat \ {0}
    BY <1>1, AccountsAssumption
       DEF Accounts!WriteBatch, Accounts!AllRead, AccountsInv, CallsOfHeights
<1>3. /\ balance' = [a \in Address |-> Accounts!Changed(h, a)]
      /\ root' = IF h \in Rootless THEN root ELSE root \cup {h}
      /\ setBy' = [a \in Address |-> IF a \in mine THEN h ELSE setBy[a]]
      /\ since' = [g \in DOMAIN since \cup {h} |->
                      IF g = h THEN {} ELSE Accounts!SetAgain(mine)[g]]
      /\ noted' = noted
    BY <1>1 DEF Accounts!WriteBatch
<1>4. \A a \in Address : balance'[a] = IF a \in mine THEN Balances[h][a] ELSE balance[a]
    BY <1>1, <1>3 DEF Accounts!Changed
<1>5. /\ DOMAIN since' = DOMAIN since \cup {h} /\ since'[h] = {}
      /\ \A g \in DOMAIN since : g # h => since'[g] = since[g] \cup mine
    BY <1>3 DEF Accounts!SetAgain
<1>6. \A g \in DOMAIN since' : \A a \in DOMAIN Balances[g] \ since'[g] : setBy'[a] = g
  <2> SUFFICES ASSUME NEW g \in DOMAIN since', NEW a \in DOMAIN Balances[g] \ since'[g]
               PROVE  setBy'[a] = g
      OBVIOUS
  <2>1. CASE g = h
      BY <1>1, <1>2, <1>3, <2>1
  <2>2. CASE g # h
    <3>1. g \in DOMAIN since /\ a \in DOMAIN Balances[g] \ since[g] /\ a \notin mine
        BY <1>5, <2>2
    <3>2. setBy[a] = g
        BY <3>1 DEF AccountsInv, Accounts!BlocksWhole
    <3>3. a \in Address
        BY <3>1, AccountsAssumption DEF AccountsInv, HistoryOK
    <3> QED BY <1>3, <3>1, <3>2, <3>3
  <2> QED BY <2>1, <2>2
<1>7. ASSUME NEW a \in Address
      PROVE  /\ setBy'[a] = 0 => balance'[a] = 0
             /\ setBy'[a] \in Height => /\ setBy'[a] \in DOMAIN since'
                                        /\ balance'[a] = Balances[setBy'[a]][a]
  <2>1. CASE a \in mine
      BY <1>2, <1>3, <1>4, <1>5, <2>1
  <2>2. CASE a \notin mine
    <3>1. setBy'[a] = setBy[a] /\ balance'[a] = balance[a]
        BY <1>3, <1>4, <2>2
    <3> QED BY <1>5, <3>1 DEF AccountsInv, Accounts!BlocksWhole, Accounts!Nobody
  <2> QED BY <2>1, <2>2
<1>8. root' = (DOMAIN since' \ Rootless) \cup noted'
    BY <1>3, <1>5 DEF AccountsInv, Accounts!BlocksWhole
<1>9. HistoryOK'
  <2>1. /\ balance' = [a \in Address |-> balance'[a]]
        /\ setBy' = [a \in Address |-> setBy'[a]]
        /\ since' = [g \in DOMAIN since' |-> since'[g]]
      BY <1>3
  <2>2. DOMAIN since' \subseteq Height
      BY <1>2, <1>5 DEF AccountsInv, HistoryOK
  <2> QED BY <2>1, <2>2 DEF HistoryOK
<1> QED
    BY <1>6, <1>7, <1>8, <1>9 DEF Accounts!BlocksWhole, Accounts!Nobody

\* What the puts and the batches keep, in whatever order they come.
LEMMA AccountsKept ==
    /\ Accounts!Init => AccountsInv
    /\ AccountsInv /\ [Accounts!Next]_(Accounts!accountVars) => AccountsInv'
<1>1. ASSUME Accounts!Init PROVE AccountsInv
  <2>1. /\ balance = [a \in Address |-> 0] /\ setBy = [a \in Address |-> 0]
        /\ since = <<>> /\ root = {} /\ noted = {}
        /\ call = [t \in NodeThread |-> Accounts!Free]
      BY <1>1 DEF Accounts!Init, Accounts!Nobody
  <2>2. DOMAIN since = {} /\ since = [h \in DOMAIN since |-> since[h]]
      BY <2>1
  <2>3. CallsHaveShape /\ CallsOfHeights
      BY <2>1 DEF Accounts!Free, CallsHaveShape, CallsOfHeights
  <2>4. HistoryOK
      BY <2>1, <2>2 DEF HistoryOK
  <2>5. Accounts!BlocksWhole
      BY <2>1, <2>2, AccountsAssumption DEF Accounts!BlocksWhole, Accounts!Nobody
  <2> QED BY <2>3, <2>4, <2>5 DEF AccountsInv
<1>2. AccountsInv /\ [Accounts!Next]_Accounts!accountVars => AccountsInv'
  <2> SUFFICES ASSUME AccountsInv, [Accounts!Next]_Accounts!accountVars
               PROVE  AccountsInv'
      OBVIOUS
  <2> USE DEF AccountsInv
  <2>0. ASSUME UNCHANGED <<balance, root, setBy, since, noted>>, CallsHaveShape', CallsOfHeights'
        PROVE  AccountsInv'
      BY <2>0 DEF HistoryOK, Accounts!BlocksWhole
  <2>1. ASSUME NEW t \in NodeThread, UNCHANGED <<balance, root, setBy, since, noted>>,
               NEW o, NEW x, NEW r, o \in {"commit", "root"} => x \in Height,
               Accounts!Start(t, [op |-> o, at |-> x, read |-> r])
        PROVE  AccountsInv'
      BY <2>0, <2>1, CallBegins
  <2>2. ASSUME NEW t \in NodeThread, NEW a \in Address,
               Accounts!ReadNonce(t, a) \/ Accounts!ReadGas(t, a)
        PROVE  AccountsInv'
    <3>1. /\ UNCHANGED <<balance, root, setBy, since, noted>>
          /\ \/ Accounts!Start(t, [op |-> "nonce", at |-> a, read |-> <<nonce[a]>>])
             \/ Accounts!Start(t, [op |-> "gas", at |-> a, read |-> <<gas[a]>>])
        BY <2>2 DEF Accounts!ReadNonce, Accounts!ReadGas, Accounts!Records, Accounts!history
    <3>2. "nonce" \notin {"commit", "root"} /\ "gas" \notin {"commit", "root"}
        OBVIOUS
    <3> QED BY <2>1, <3>1, <3>2
  <2>3. ASSUME NEW t \in NodeThread, NEW a \in Address, NEW amount \in Amount,
               \/ Accounts!SetBalance(t, a, amount) \/ Accounts!AddBalance(t, a, amount)
               \/ Accounts!DeductBalance(t, a, amount)
        PROVE  AccountsInv'
    <3>1. /\ UNCHANGED <<balance, root, setBy, since, noted>>
          /\ \E r : Accounts!Start(t, [op |-> "balance", at |-> a, read |-> r])
        BY <2>3 DEF Accounts!SetBalance, Accounts!AddBalance, Accounts!DeductBalance,
                    Accounts!Records, Accounts!history
    <3>2. "balance" \notin {"commit", "root"}
        OBVIOUS
    <3> QED BY <2>1, <3>1, <3>2
  <2>4. ASSUME NEW t \in NodeThread, NEW h \in Height,
               Accounts!SetStateRoot(t, h) \/ Accounts!BeginCommit(t, h)
        PROVE  AccountsInv'
    <3>1. /\ UNCHANGED <<balance, root, setBy, since, noted>>
          /\ \E o : Accounts!Start(t, [op |-> o, at |-> h, read |-> <<>>])
        BY <2>4 DEF Accounts!SetStateRoot, Accounts!BeginCommit, Accounts!Records,
                    Accounts!history
    <3> QED BY <2>1, <3>1
  <2>5. ASSUME NEW t \in NodeThread, UNCHANGED <<balance, root, setBy, since, noted>>,
               call' = [call EXCEPT ![t] = Accounts!Free]
        PROVE  AccountsInv'
      BY <2>0, <2>5, CallEnds
  <2>6. ASSUME NEW t \in NodeThread, Accounts!Fails(t)
        PROVE  AccountsInv'
      BY <2>5, <2>6 DEF Accounts!Fails, Accounts!Records, Accounts!history
  <2>7. ASSUME NEW t \in NodeThread, Accounts!PutNonce(t) \/ Accounts!PutGas(t)
        PROVE  AccountsInv'
      BY <2>5, <2>6, <2>7 DEF Accounts!PutNonce, Accounts!PutGas, Accounts!history
  <2>8. ASSUME NEW t \in NodeThread, Accounts!PutBalance(t)
        PROVE  AccountsInv'
    <3>1. CASE Accounts!Fails(t)
        BY <2>6, <3>1
    <3>2. CASE ~Accounts!Fails(t)
      <4>1. /\ call' = [call EXCEPT ![t] = Accounts!Free]
            /\ balance' = [balance EXCEPT ![call[t].at] = call[t].read[1]]
            /\ setBy' = [setBy EXCEPT ![call[t].at] = Accounts!APut]
            /\ since' = Accounts!SetAgain({call[t].at}) /\ UNCHANGED <<root, noted>>
          BY <2>8, <3>2 DEF Accounts!PutBalance
      <4>2. HistoryOK' /\ Accounts!BlocksWhole'
          BY <4>1, PutKeepsBlocks
      <4> QED BY <4>1, <4>2, CallEnds
    <3> QED BY <3>1, <3>2
  <2>9. ASSUME NEW t \in NodeThread, Accounts!PutRoot(t)
        PROVE  AccountsInv'
    <3>1. CASE Accounts!Fails(t)
        BY <2>6, <3>1
    <3>2. CASE ~Accounts!Fails(t)
      <4>1. /\ call' = [call EXCEPT ![t] = Accounts!Free]
            /\ root' = root \cup {call[t].at} /\ noted' = noted \cup {call[t].at}
            /\ UNCHANGED <<balance, setBy, since>>
          BY <2>9, <3>2 DEF Accounts!PutRoot
      <4>2. HistoryOK' /\ Accounts!BlocksWhole'
          BY <4>1 DEF HistoryOK, Accounts!BlocksWhole
      <4> QED BY <4>1, <4>2, CallEnds
    <3> QED BY <3>1, <3>2
  <2>10. ASSUME NEW t \in NodeThread, Accounts!ReadSender(t)
         PROVE  AccountsInv'
    <3>1. UNCHANGED <<balance, root, setBy, since, noted>>
        BY <2>10 DEF Accounts!ReadSender, Accounts!Records, Accounts!history
    <3>2. \/ \E read : call' = [call EXCEPT ![t] = [call[t] EXCEPT !.read = read]]
          \/ call' = [call EXCEPT ![t] = Accounts!Free]
        BY <2>10 DEF Accounts!ReadSender
    <3>3. ASSUME NEW read, call' = [call EXCEPT ![t] = [call[t] EXCEPT !.read = read]]
          PROVE  AccountsInv'
      <4>1. /\ CallsHaveShape'
            /\ \A u \in NodeThread : call'[u].op = call[u].op /\ call'[u].at = call[u].at
          BY <3>3 DEF CallsHaveShape
      <4> QED BY <2>0, <3>1, <4>1 DEF CallsOfHeights
    <3>4. CASE call' = [call EXCEPT ![t] = Accounts!Free]
        BY <2>0, <3>1, <3>4, CallEnds
    <3> QED BY <3>2, <3>3, <3>4
  <2>11. ASSUME NEW t \in NodeThread, Accounts!Commit(t)
         PROVE  AccountsInv'
    <3>1. CASE Accounts!WriteBatch(t)
      <4>1. call' = [call EXCEPT ![t] = Accounts!Free]
          BY <3>1 DEF Accounts!WriteBatch
      <4>2. HistoryOK' /\ Accounts!BlocksWhole'
          BY <3>1, BatchKeepsBlocks
      <4> QED BY <4>1, <4>2, CallEnds
    <3> QED BY <2>6, <2>11, <3>1 DEF Accounts!Commit
  <2>12. CASE Accounts!Crash
    <3>1. /\ UNCHANGED <<balance, root, setBy, since, noted>>
          /\ call' = [t \in NodeThread |-> Accounts!Free]
        BY <2>12 DEF Accounts!Crash, Accounts!Records, Accounts!history
    <3>2. CallsHaveShape' /\ CallsOfHeights'
        BY <3>1 DEF Accounts!Free, CallsHaveShape, CallsOfHeights
    <3> QED BY <2>0, <3>1, <3>2
  <2>13. CASE UNCHANGED Accounts!accountVars
      BY <2>0, <2>13 DEF Accounts!accountVars, CallsHaveShape, CallsOfHeights
  <2> QED
      BY <2>2, <2>3, <2>4, <2>7, <2>8, <2>9, <2>10, <2>11, <2>12, <2>13 DEF Accounts!Next
<1> QED
    BY <1>1, <1>2

\* No step of the other units breaks it.
THEOREM AccountsInvariant == UnitsSpec => [](unit = "accounts" => AccountsInv)
<1> DEFINE Inv == unit = "accounts" => AccountsInv
<1>1. UnitsInit => Inv
    BY AccountsKept DEF UnitsInit, IdentityInit, AccountsInit, KeysInit,
                        ConnectionsInit, SubmitInit, LimiterInit, PowInit, RegistryInit,
                        NetworkInit, PoolsInit, EvmInit, PeersInit
<1>2. Inv /\ [UnitsNext]_<<unit, unitVars>> => Inv'
  <2> SUFFICES ASSUME Inv, [UnitsNext]_<<unit, unitVars>>, unit' = "accounts" PROVE AccountsInv'
      OBVIOUS
  <2>1. unit = "accounts" /\ [Accounts!Next]_(Accounts!accountVars)
      BY DEF UnitsNext, IdentityNext, AccountsNext, KeysNext, ConnectionsNext,
             SubmitNext, LimiterNext, PowNext, RegistryNext, NetworkNext, PoolsNext, EvmNext,
             PeersNext, unitVars, fileVars, recordVars, keyVars,
             Accounts!accountVars
  <2> QED BY <2>1, AccountsKept
<1> QED
    BY <1>1, <1>2, PTL DEF UnitsSpec

\* Whatever commits overlap, in whatever order, and whatever else puts
\* balances, fails or crashes meanwhile: a block's balances are set all or
\* none, and its root with them if it has one.
THEOREM BlocksStayWhole == UnitsSpec => []BlocksWhole
<1>1. (unit = "accounts" => AccountsInv) => BlocksWhole
    BY DEF BlocksWhole, AccountsInv
<1> QED
    BY <1>1, AccountsInvariant, PTL

-----------------------------------------------------------------------------
(* API keys: MedorApiKeys                                                  *)

Given(k) == record[k].client \in Client
Lasting(k) == record[k].expires = Keys!NoExpiry

\* What a call may still have to do; what it does next of this.
Steps == {<<>>, <<"write">>, <<"revoke">>, <<"write", "revoke">>}
WritesNext(ahead) == ahead \in {<<"write">>, <<"write", "revoke">>}
RevokesNext(ahead) == ahead = <<"revoke">>
Rotates(ahead) == ahead = <<"write", "revoke">>

RecordsOK ==
    /\ record = [k \in SecretKey |-> record[k]]
    /\ \A k \in SecretKey :
           /\ record[k] = [client |-> record[k].client, expires |-> record[k].expires,
                           revoked |-> record[k].revoked]
           /\ Given(k) \/ record[k] = Keys!NoRecord

\* What a call is about to write, and which key it is about to revoke.  Where
\* keys expire by default none lasts; where they do not, a rotation writes one
\* that lasts.
CallOK(c) ==
    /\ c.todo \in Steps
    /\ c = Keys!Call(c.todo, c.key, c.new, c.client, c.expires)
    /\ WritesNext(c.todo) =>
           /\ c.new \in SecretKey /\ record[c.new] = Keys!NoRecord /\ c.client \in Client
           /\ DefaultTtl > 0 => c.expires # Keys!NoExpiry
    /\ RevokesNext(c.todo) \/ Rotates(c.todo) => c.key \in SecretKey /\ Given(c.key)
    /\ Rotates(c.todo) => /\ record[c.key].client = c.client
                          /\ DefaultTtl = 0 => c.expires = Keys!NoExpiry

CallsOK ==
    /\ call = [t \in NodeThread |-> call[t]]
    /\ \A t \in NodeThread : CallOK(call[t])
    /\ \A t, u \in NodeThread : t # u /\ call[t].new = call[u].new => call[t].new = NoKey

DefaultOK ==
    /\ clock \in Nat \ {0}
    /\ DefaultTtl > 0 => \A k \in SecretKey : Given(k) => ~Lasting(k)

\* A client's key that lasts, is not revoked and is not about to be.
Sound(k, c) ==
    /\ record[k].client = c /\ Lasting(k) /\ ~record[k].revoked
    /\ \A t \in NodeThread : RevokesNext(call[t].todo) => call[t].key # k

SoundKeyLeft ==
    \A c \in Client \ asked :
        (\E k \in SecretKey : record[k].client = c /\ Lasting(k)) =>
            \E k \in SecretKey : Sound(k, c)

KeysInv == RecordsOK /\ CallsOK /\ DefaultOK /\ SoundKeyLeft

\* An absent record is no client's.
LEMMA NotGiven ==
    ASSUME NEW r, r = Keys!NoRecord
    PROVE  r.client \notin Client
<1>1. Keys!NoRecord.client = "none"
    BY DEF Keys!NoRecord
<1> QED BY <1>1, KeysAssumption

\* The fields of a call.
LEMMA CallFields ==
    ASSUME NEW ahead, NEW k, NEW n, NEW c, NEW e
    PROVE  LET r == Keys!Call(ahead, k, n, c, e)
           IN  /\ r.todo = ahead /\ r.key = k /\ r.new = n /\ r.client = c /\ r.expires = e
               /\ r = Keys!Call(r.todo, r.key, r.new, r.client, r.expires)
BY DEF Keys!Call

\* The lists of steps, told apart.
LEMMA StepsApart ==
    /\ <<>> \in Steps /\ ~WritesNext(<<>>) /\ ~RevokesNext(<<>>) /\ ~Rotates(<<>>)
    /\ <<"write">> \in Steps /\ WritesNext(<<"write">>)
    /\ ~RevokesNext(<<"write">>) /\ ~Rotates(<<"write">>)
    /\ <<"revoke">> \in Steps /\ RevokesNext(<<"revoke">>)
    /\ ~WritesNext(<<"revoke">>) /\ ~Rotates(<<"revoke">>)
    /\ <<"write", "revoke">> \in Steps /\ WritesNext(<<"write", "revoke">>)
    /\ Rotates(<<"write", "revoke">>) /\ ~RevokesNext(<<"write", "revoke">>)
BY DEF Steps, WritesNext, RevokesNext, Rotates

\* A thread that is free.
LEMMA FreeOK ==
    /\ CallOK(Keys!Free) /\ Keys!Free.new = NoKey
    /\ ~WritesNext(Keys!Free.todo) /\ ~RevokesNext(Keys!Free.todo)
<1> DEFINE done == <<>>
           nobody == "none"
           e == Keys!NoExpiry
<1>1. Keys!Free = Keys!Call(done, NoKey, NoKey, nobody, e)
    BY DEF Keys!Free
<1>2. done \in Steps /\ ~WritesNext(done) /\ ~RevokesNext(done) /\ ~Rotates(done)
    BY StepsApart
<1> HIDE DEF done, nobody, e
<1>3. /\ Keys!Free.todo = done /\ Keys!Free.new = NoKey
      /\ Keys!Free = Keys!Call(Keys!Free.todo, Keys!Free.key, Keys!Free.new,
                               Keys!Free.client, Keys!Free.expires)
    BY <1>1, CallFields
<1> QED BY <1>2, <1>3 DEF CallOK

\* What is next of the steps of a thread's call.
LEMMA ToDo ==
    ASSUME NEW t \in NodeThread, CallsOK
    PROVE  /\ Keys!At(t, "write") <=> WritesNext(call[t].todo)
           /\ Keys!At(t, "revoke") <=> RevokesNext(call[t].todo)
<1>1. call[t].todo \in Steps
    BY DEF CallsOK, CallOK
<1> QED BY <1>1 DEF Steps, WritesNext, RevokesNext, Keys!At

\* A call begins, goes on or ends, and the records are as they were.
LEMMA CallMoves ==
    ASSUME KeysInv, NEW t \in NodeThread, NEW c, CallOK(c),
           call' = [call EXCEPT ![t] = c],
           UNCHANGED <<clock, record>>, asked \subseteq asked',
           c.new = NoKey \/ \A u \in NodeThread \ {t} : call[u].new # c.new,
           RevokesNext(c.todo) => record[c.key].client \in asked'
    PROVE  KeysInv'
<1>1. /\ call'[t] = c
      /\ call' = [u \in NodeThread |-> call'[u]]
      /\ \A u \in NodeThread \ {t} : call'[u] = call[u]
    BY DEF KeysInv, CallsOK
<1>2. RecordsOK' /\ DefaultOK'
    BY DEF KeysInv, RecordsOK, DefaultOK, Given, Lasting
<1>3. \A d : CallOK(d) => CallOK(d)'
    BY DEF CallOK, Given
<1>4. CallsOK'
    BY <1>1, <1>3 DEF KeysInv, CallsOK
<1>5. SoundKeyLeft'
  <2> SUFFICES ASSUME NEW d \in Client \ asked', NEW l \in SecretKey,
                      record[l].client = d, Lasting(l)
               PROVE  \E j \in SecretKey : Sound(j, d)'
      BY DEF SoundKeyLeft, Lasting
  <2>1. PICK j \in SecretKey : Sound(j, d)
      BY DEF KeysInv, SoundKeyLeft
  <2>2. Sound(j, d)'
      BY <1>1, <2>1 DEF Sound, Lasting
  <2> QED BY <2>2
<1> QED BY <1>2, <1>4, <1>5 DEF KeysInv

\* A call ends: it returns or throws.
LEMMA CallFreed ==
    ASSUME KeysInv, NEW t \in NodeThread, call' = [call EXCEPT ![t] = Keys!Free],
           UNCHANGED <<clock, record>>, asked \subseteq asked'
    PROVE  KeysInv'
BY FreeOK, CallMoves

\* The time a key is given: it lasts only where keys do not expire by default.
LEMMA Expiry ==
    ASSUME DefaultOK, NEW ttl \in Nat
    PROVE  /\ DefaultTtl > 0 => Keys!ExpiryOf(ttl) # Keys!NoExpiry
           /\ DefaultTtl = 0 /\ ttl = Keys!NoExpiry => Keys!ExpiryOf(ttl) = Keys!NoExpiry
BY KeysAssumption DEF DefaultOK, Keys!ExpiryOf, Keys!NoExpiry

\* A new key is on disk, and its call goes on or ends.
LEMMA NewKeyWritten ==
    ASSUME KeysInv, NEW t \in NodeThread, WritesNext(call[t].todo),
           record' = [record EXCEPT ![call[t].new] =
                         [client |-> call[t].client, expires |-> call[t].expires,
                          revoked |-> FALSE]],
           call' = [call EXCEPT ![t] = Keys!Done(t)], UNCHANGED <<clock, asked>>
    PROVE  KeysInv'
<1>0. PICK old, n, c, e, next :
          /\ old = call[t].key /\ n = call[t].new /\ c = call[t].client /\ e = call[t].expires
          /\ next = Keys!Done(t)
    OBVIOUS
<1> DEFINE given == [client |-> c, expires |-> e, revoked |-> FALSE]
<1> USE DEF KeysInv
<1>1. n \in SecretKey /\ record[n] = Keys!NoRecord /\ c \in Client /\ ~Given(n)
  <2>1. n \in SecretKey /\ record[n] = Keys!NoRecord /\ c \in Client
      BY <1>0 DEF CallsOK, CallOK
  <2> QED BY <2>1, NotGiven DEF Given
<1>2. /\ given.client = c /\ given.expires = e /\ ~given.revoked
      /\ given = [client |-> given.client, expires |-> given.expires,
                  revoked |-> given.revoked]
    OBVIOUS
<1> HIDE DEF given
<1>3. /\ record'[n] = given
      /\ record' = [k \in SecretKey |-> record'[k]]
      /\ \A k \in SecretKey \ {n} : record'[k] = record[k]
    BY <1>0, <1>1 DEF RecordsOK, given
<1>4. RecordsOK' /\ (\A k \in SecretKey : Given(k) => Given(k)' /\ k # n)
    BY <1>1, <1>2, <1>3 DEF RecordsOK, Given
<1>5. /\ call' = [u \in NodeThread |-> call'[u]] /\ call'[t] = next
      /\ \A u \in NodeThread \ {t} : call'[u] = call[u]
    BY <1>0 DEF CallsOK
<1>6. \/ next = Keys!Free
      \/ /\ Rotates(call[t].todo)
         /\ next = Keys!Call(<<"revoke">>, old, n, c, e)
  <2>1. /\ Tail(<<"write", "revoke">>) = <<"revoke">> /\ Len(<<"write">>) = 1
      OBVIOUS
  <2> QED BY <1>0, <2>1 DEF Keys!Done, WritesNext, Rotates
<1>7. /\ CallOK(next)' /\ ~WritesNext(next.todo)
      /\ next.new \in {NoKey, n}
      /\ RevokesNext(next.todo) =>
             /\ Rotates(call[t].todo) /\ next.key = old
             /\ old \in SecretKey /\ Given(old)
  <2>1. CASE next = Keys!Free
    <3>1. ~Rotates(Keys!Free.todo)
        BY FreeOK DEF WritesNext, Rotates
    <3> QED BY <2>1, <3>1, FreeOK DEF CallOK
  <2>2. CASE /\ Rotates(call[t].todo)
             /\ next = Keys!Call(<<"revoke">>, old, n, c, e)
    <3>1. old \in SecretKey /\ Given(old) /\ Given(old)'
        BY <1>0, <1>4, <2>2 DEF CallsOK, CallOK
    <3> DEFINE ahead == <<"revoke">>
    <3>2. ahead \in Steps /\ RevokesNext(ahead) /\ ~WritesNext(ahead) /\ ~Rotates(ahead)
        BY StepsApart
    <3> HIDE DEF ahead
    <3>3. /\ next.todo = ahead /\ next.key = old /\ next.new = n
          /\ next = Keys!Call(next.todo, next.key, next.new, next.client, next.expires)
        BY <2>2, CallFields DEF ahead
    <3> QED BY <2>2, <3>1, <3>2, <3>3 DEF CallOK
  <2> QED BY <1>6, <2>1, <2>2
<1> HIDE DEF given
<1>8. CallsOK'
  <2>1. \A u \in NodeThread \ {t} : \A d : d = call[u] => CallOK(d)'
    <3>1. \A u \in NodeThread \ {t} : WritesNext(call[u].todo) => call[u].new # n
        BY <1>0, <1>1, KeysAssumption DEF CallsOK, CallOK
    <3>2. \A k \in SecretKey : Given(k) => record'[k] = record[k]
        BY <1>3, <1>4
    <3> QED BY <1>3, <1>4, <3>1, <3>2 DEF CallsOK, CallOK
  <2>2. \A u \in NodeThread : CallOK(call[u])'
    <3>1. \A u \in NodeThread : \A d : d = call'[u] => CallOK(d)'
        BY <1>5, <1>7, <2>1
    <3>2. ASSUME NEW u \in NodeThread PROVE CallOK(call[u])'
      <4>1. PICK d : d = call'[u]
          OBVIOUS
      <4> QED BY <3>1, <4>1 DEF CallOK, Given
    <3> QED BY <3>2
  <2>3. \A u, v \in NodeThread : u # v /\ call'[u].new = call'[v].new => call'[u].new = NoKey
      BY <1>0, <1>5, <1>7 DEF CallsOK
  <2> QED BY <1>5, <2>2, <2>3 DEF CallsOK
<1>9. DefaultOK'
  <2>1. DefaultTtl > 0 => e # Keys!NoExpiry
      BY <1>0 DEF CallsOK, CallOK
  <2> QED
      BY <1>2, <1>3, <2>1 DEF DefaultOK, Given, Lasting
<1>10. SoundKeyLeft'
  <2> SUFFICES ASSUME NEW d \in Client \ asked, NEW l \in SecretKey,
                      record'[l].client = d, Lasting(l)'
               PROVE  \E j \in SecretKey : Sound(j, d)'
      BY DEF SoundKeyLeft
  <2>1. CASE c = d /\ e = Keys!NoExpiry
    <3>1. \A u \in NodeThread : RevokesNext(call'[u].todo) => call'[u].key # n
        BY <1>1, <1>4, <1>5, <1>7 DEF CallsOK, CallOK
    <3>2. Sound(n, d)'
        BY <1>2, <1>3, <2>1, <3>1 DEF Sound, Lasting
    <3> QED BY <1>1, <3>2
  <2>2. CASE ~(c = d /\ e = Keys!NoExpiry)
    <3>1. l # n
        BY <1>2, <1>3, <2>2 DEF Lasting
    <3>2. record[l].client = d /\ Lasting(l)
        BY <1>3, <3>1 DEF Lasting
    <3>3. PICK j \in SecretKey : Sound(j, d)
        BY <3>2 DEF SoundKeyLeft
    <3>4. j # n /\ record'[j] = record[j]
        BY <1>1, <1>3, <3>3 DEF Sound, Given
    <3>5. ~(Rotates(call[t].todo) /\ old = j)
      <4> SUFFICES ASSUME Rotates(call[t].todo), old = j
                   PROVE  FALSE
          OBVIOUS
      <4>1. DefaultTtl = 0 => e = Keys!NoExpiry
          BY <1>0 DEF CallsOK, CallOK
      <4>2. DefaultTtl = 0
          BY <3>2, KeysAssumption DEF DefaultOK, Given
      <4>3. record[old].client = c
          BY <1>0 DEF CallsOK, CallOK
      <4> QED BY <2>2, <3>3, <4>1, <4>2, <4>3 DEF Sound
    <3>6. Sound(j, d)'
        BY <1>5, <1>7, <3>3, <3>4, <3>5 DEF Sound, Lasting
    <3> QED BY <3>6
  <2> QED BY <2>1, <2>2
<1> QED BY <1>4, <1>8, <1>9, <1>10

\* The key of the call is revoked on disk.
LEMMA KeyRevoked ==
    ASSUME KeysInv, NEW t \in NodeThread, RevokesNext(call[t].todo),
           record' = [record EXCEPT ![call[t].key].revoked = TRUE],
           call' = [call EXCEPT ![t] = Keys!Free], UNCHANGED <<clock, asked>>
    PROVE  KeysInv'
<1> DEFINE k == call[t].key
           marked == [record[k] EXCEPT !.revoked = TRUE]
<1> USE DEF KeysInv
<1>1. k \in SecretKey /\ Given(k)
    BY DEF CallsOK, CallOK
<1>2. /\ record'[k] = marked
      /\ record' = [l \in SecretKey |-> record'[l]]
      /\ \A l \in SecretKey \ {k} : record'[l] = record[l]
    BY <1>1 DEF RecordsOK
<1>3. /\ marked.client = record[k].client /\ marked.expires = record[k].expires
      /\ marked = [client |-> marked.client, expires |-> marked.expires,
                   revoked |-> marked.revoked]
  <2> DEFINE yes == TRUE
  <2>1. marked = [record[k] EXCEPT !.revoked = yes]
      OBVIOUS
  <2> HIDE DEF marked, yes
  <2> QED BY <1>1, <2>1 DEF RecordsOK
<1> HIDE DEF marked
<1>4. \A l \in SecretKey : /\ record'[l].client = record[l].client
                           /\ record'[l].expires = record[l].expires
    BY <1>2, <1>3
<1>5. RecordsOK'
    BY <1>1, <1>2, <1>3, <1>4 DEF RecordsOK, Given
<1>6. /\ call' = [u \in NodeThread |-> call'[u]] /\ call'[t] = Keys!Free
      /\ \A u \in NodeThread \ {t} : call'[u] = call[u]
    BY DEF CallsOK
<1>7. CallsOK'
  <2>1. \A l \in SecretKey : record[l] = Keys!NoRecord => record'[l] = Keys!NoRecord
      BY <1>1, <1>2, NotGiven DEF Given
  <2>2. \A d : CallOK(d) => CallOK(d)'
      BY <1>4, <2>1 DEF CallOK, Given
  <2> QED
      BY <1>6, <2>2, FreeOK DEF CallsOK
<1>8. DefaultOK'
    BY <1>4 DEF DefaultOK, Given, Lasting
<1>9. SoundKeyLeft'
  <2> SUFFICES ASSUME NEW d \in Client \ asked, NEW l \in SecretKey,
                      record'[l].client = d, Lasting(l)'
               PROVE  \E j \in SecretKey : Sound(j, d)'
      BY DEF SoundKeyLeft
  <2>1. PICK j \in SecretKey : Sound(j, d)
      BY <1>4 DEF SoundKeyLeft, Lasting
  <2>2. j # k
      BY <2>1 DEF Sound
  <2>3. Sound(j, d)'
      BY <1>2, <1>6, <2>1, <2>2, FreeOK DEF Sound, Lasting
  <2> QED BY <2>3
<1> QED BY <1>5, <1>7, <1>8, <1>9

\* The invariant of the keys on disk and of the calls under way.
LEMMA KeysKept ==
    /\ Keys!Init => KeysInv
    /\ KeysInv /\ [Keys!Next]_(Keys!apiVars) => KeysInv'
<1> USE KeysAssumption
<1>1. Keys!Init => KeysInv
  <2> SUFFICES ASSUME Keys!Init PROVE KeysInv
      OBVIOUS
  <2>1. /\ record = [k \in SecretKey |-> Keys!NoRecord]
        /\ call = [t \in NodeThread |-> Keys!Free] /\ clock = 1
      BY DEF Keys!Init
  <2>2. \A k \in SecretKey : record[k] = Keys!NoRecord /\ ~Given(k)
      BY <2>1, NotGiven DEF Given
  <2>3. RecordsOK
      BY <2>1 DEF RecordsOK, Keys!NoRecord
  <2>4. SoundKeyLeft /\ DefaultOK
      BY <2>1, <2>2 DEF SoundKeyLeft, DefaultOK, Given
  <2>5. CallsOK
      BY <2>1, FreeOK DEF CallsOK
  <2> QED BY <2>3, <2>4, <2>5 DEF KeysInv
<1>2. KeysInv /\ [Keys!Next]_Keys!apiVars => KeysInv'
  <2> SUFFICES ASSUME KeysInv, [Keys!Next]_Keys!apiVars
               PROVE  KeysInv'
      OBVIOUS
  <2>1. CASE Keys!Tick
    <3>1. /\ UNCHANGED <<record, call, asked>> /\ clock' = clock + 1
        BY <2>1 DEF Keys!Tick
    <3>2. \A c : CallOK(c) => CallOK(c)'
        BY <3>1 DEF CallOK, Given
    <3> QED BY <3>1, <3>2 DEF KeysInv, RecordsOK, CallsOK, DefaultOK, SoundKeyLeft, Sound,
                              Given, Lasting
  <2>2. ASSUME NEW t \in NodeThread, NEW c \in Client, NEW ttl \in Ttl, Keys!CreateKey(t, c, ttl)
        PROVE  KeysInv'
    <3> DEFINE ahead == <<"write">>
               e == Keys!ExpiryOf(ttl)
    <3>1. PICK n \in Keys!Fresh :
              call' = [call EXCEPT ![t] = Keys!Call(ahead, NoKey, n, c, e)]
        BY <2>2 DEF Keys!CreateKey, Keys!Prepared
    <3>2. /\ n \in SecretKey /\ record[n] = Keys!NoRecord
          /\ \A u \in NodeThread \ {t} : call[u].new # n
        BY DEF Keys!Fresh
    <3>3. DefaultTtl > 0 => e # Keys!NoExpiry
        BY Expiry DEF KeysInv
    <3>4. UNCHANGED <<clock, record, asked>>
        BY <2>2 DEF Keys!CreateKey
    <3>5. ahead \in Steps /\ ~RevokesNext(ahead) /\ ~Rotates(ahead)
        BY StepsApart
    <3> HIDE DEF ahead, e
    <3> DEFINE new == Keys!Call(ahead, NoKey, n, c, e)
    <3>6. /\ new.todo = ahead /\ new.new = n /\ new.client = c /\ new.expires = e
          /\ new = Keys!Call(new.todo, new.key, new.new, new.client, new.expires)
        BY CallFields
    <3> HIDE DEF new
    <3>7. CallOK(new)
        BY <3>2, <3>3, <3>5, <3>6 DEF CallOK
    <3> QED BY <3>1, <3>2, <3>4, <3>5, <3>6, <3>7, CallMoves DEF new
  <2>3. ASSUME NEW t \in NodeThread, NEW k \in SecretKey, Keys!Revoke(t, k)
        PROVE  KeysInv'
    <3> DEFINE ahead == <<"revoke">>
               nobody == "none"
               e == Keys!NoExpiry
               new == Keys!Call(ahead, k, NoKey, nobody, e)
    <3>1. /\ call' = [call EXCEPT ![t] = new]
          /\ asked' = asked \cup {record[k].client} /\ record[k] # Keys!NoRecord
          /\ UNCHANGED <<clock, record>>
        BY <2>3 DEF Keys!Revoke
    <3>2. Given(k)
        BY <3>1 DEF KeysInv, RecordsOK
    <3>3. ahead \in Steps /\ RevokesNext(ahead) /\ ~WritesNext(ahead) /\ ~Rotates(ahead)
        BY StepsApart
    <3> HIDE DEF ahead, nobody, e
    <3>4. /\ new.todo = ahead /\ new.key = k /\ new.new = NoKey
          /\ new = Keys!Call(new.todo, new.key, new.new, new.client, new.expires)
        BY CallFields
    <3> HIDE DEF new
    <3>5. CallOK(new)
        BY <3>2, <3>3, <3>4 DEF CallOK
    <3> QED BY <3>1, <3>4, <3>5, CallMoves
  <2>4. ASSUME NEW t \in NodeThread, NEW k \in SecretKey, Keys!RotateKey(t, k)
        PROVE  KeysInv'
    <3> DEFINE ahead == <<"write", "revoke">>
               c == record[k].client
               e == Keys!ExpiryOf(Keys!NoExpiry)
    <3>1. PICK n \in Keys!Fresh :
              call' = [call EXCEPT ![t] = Keys!Call(ahead, k, n, c, e)]
        BY <2>4 DEF Keys!RotateKey, Keys!Prepared, Keys!RotateSteps
    <3>2. /\ n \in SecretKey /\ record[n] = Keys!NoRecord
          /\ \A u \in NodeThread \ {t} : call[u].new # n
        BY DEF Keys!Fresh
    <3>3. Given(k) /\ c \in Client /\ UNCHANGED <<clock, record, asked>>
        BY <2>4 DEF Keys!RotateKey, KeysInv, RecordsOK, Given
    <3>4. /\ DefaultTtl > 0 => e # Keys!NoExpiry
          /\ DefaultTtl = 0 => e = Keys!NoExpiry
      <4>1. Keys!NoExpiry \in Nat
          BY DEF Keys!NoExpiry
      <4> QED BY <4>1, Expiry DEF KeysInv
    <3>5. ahead \in Steps /\ ~RevokesNext(ahead)
        BY StepsApart
    <3> DEFINE new == Keys!Call(ahead, k, n, c, e)
    <3> HIDE DEF ahead, e
    <3>6. /\ new.todo = ahead /\ new.key = k /\ new.new = n /\ new.client = c /\ new.expires = e
          /\ new = Keys!Call(new.todo, new.key, new.new, new.client, new.expires)
        BY CallFields
    <3> HIDE DEF new
    <3>7. CallOK(new)
        BY <3>2, <3>3, <3>4, <3>5, <3>6 DEF CallOK
    <3> QED BY <3>1, <3>2, <3>3, <3>5, <3>6, <3>7, CallMoves DEF new
  <2>5. ASSUME NEW t \in NodeThread, Keys!WriteNew(t)
        PROVE  KeysInv'
    <3>1. WritesNext(call[t].todo)
        BY <2>5, ToDo DEF Keys!WriteNew, KeysInv
    <3>2. CASE call' = [call EXCEPT ![t] = Keys!Free] /\ UNCHANGED <<clock, record, asked>>
        BY <3>2, CallFreed
    <3> QED BY <2>5, <3>1, <3>2, NewKeyWritten DEF Keys!WriteNew
  <2>6. ASSUME NEW t \in NodeThread, Keys!WriteRevoked(t)
        PROVE  KeysInv'
    <3>1. RevokesNext(call[t].todo)
        BY <2>6, ToDo DEF Keys!WriteRevoked, KeysInv
    <3>2. Len(call[t].todo) = 1
        BY <3>1 DEF RevokesNext
    <3>3. call' = [call EXCEPT ![t] = Keys!Free] /\ UNCHANGED <<clock, asked>>
        BY <2>6, <3>2 DEF Keys!WriteRevoked, Keys!Done
    <3>4. \/ record' = [record EXCEPT ![call[t].key].revoked = TRUE]
          \/ UNCHANGED record
        BY <2>6 DEF Keys!WriteRevoked
    <3> QED BY <3>1, <3>3, <3>4, CallFreed, KeyRevoked
  <2>7. CASE Keys!Crash
    <3>1. call' = [t \in NodeThread |-> Keys!Free] /\ UNCHANGED <<clock, record, asked>>
        BY <2>7 DEF Keys!Crash
    <3>2. CallOK(Keys!Free)'
        BY <3>1, FreeOK DEF CallOK, Given
    <3>3. CallsOK'
        BY <3>1, <3>2, FreeOK DEF CallsOK
    <3>4. SoundKeyLeft'
        BY <3>1, FreeOK DEF KeysInv, SoundKeyLeft, Sound, Lasting
    <3> QED BY <3>1, <3>3, <3>4 DEF KeysInv, RecordsOK, DefaultOK, Given, Lasting
  <2>8. CASE UNCHANGED Keys!apiVars
    <3>1. UNCHANGED <<record, call, asked, clock>>
        BY <2>8 DEF Keys!apiVars
    <3>2. \A c : CallOK(c) => CallOK(c)'
        BY <3>1 DEF CallOK, Given
    <3> QED BY <3>1, <3>2 DEF KeysInv, RecordsOK, CallsOK, DefaultOK, SoundKeyLeft, Sound,
                              Given, Lasting
  <2> QED
      BY <2>1, <2>2, <2>3, <2>4, <2>5, <2>6, <2>7, <2>8 DEF Keys!Next
<1> QED
    BY <1>1, <1>2

\* No step of the other units breaks it.
THEOREM KeysInvariant == UnitsSpec => [](unit = "keys" => KeysInv)
<1> DEFINE Inv == unit = "keys" => KeysInv
<1>1. UnitsInit => Inv
    BY KeysKept DEF UnitsInit, IdentityInit, AccountsInit, KeysInit, ConnectionsInit,
                    SubmitInit, LimiterInit, PowInit, RegistryInit, NetworkInit, PoolsInit,
                    EvmInit, PeersInit
<1>2. Inv /\ [UnitsNext]_<<unit, unitVars>> => Inv'
  <2> SUFFICES ASSUME Inv, [UnitsNext]_<<unit, unitVars>>, unit' = "keys" PROVE KeysInv'
      OBVIOUS
  <2>1. unit = "keys" /\ [Keys!Next]_(Keys!apiVars)
      BY DEF UnitsNext, IdentityNext, AccountsNext, KeysNext, ConnectionsNext,
             SubmitNext, LimiterNext, PowNext, RegistryNext, NetworkNext, PoolsNext, EvmNext,
             PeersNext, unitVars, fileVars, recordVars, keyVars,
             Keys!apiVars
  <2> QED BY <2>1, KeysKept
<1> QED
    BY <1>1, <1>2, PTL DEF UnitsSpec

\* Whatever rotations, failing writes and restarts come between, a client that
\* was given a key without an expiry and asked for no revocation has one that
\* validates: rotate writes the new key before it marks the old one
\* (src/src/api_key_manager.cpp:621-667).
THEOREM NobodyLockedOut == UnitsSpec => []NeverLockedOut
<1>1. (unit = "keys" => KeysInv) => NeverLockedOut
    BY KeysAssumption
       DEF NeverLockedOut, KeysInv, SoundKeyLeft, Sound, Lasting, Keys!NeverLockedOut,
           Keys!Validates, Keys!NoRecord
<1> QED
    BY <1>1, KeysInvariant, PTL

-----------------------------------------------------------------------------
(* The search for a nonce: MedorPow                                        *)

\* Where a thread is that has won the exchange; and where one is that searches.
Winning == {"nonce", "store"}
Places == {"look", "hash", "nonce", "store", "done"}

MinersOK ==
    /\ miner = [t \in Pow!Thread |-> [at |-> miner[t].at, nonce |-> miner[t].nonce]]
    /\ \/ \A t \in Pow!Thread : miner[t].at = "idle"
       \/ \A t \in Pow!Thread : miner[t].at \in Places /\ miner[t].nonce \in Nat

MinedOK == mined = [block |-> mined.block, nonce |-> mined.nonce, hash |-> mined.hash]

\* One thread at most has won, and what it stored belongs together.
WinnerOK ==
    /\ \A t, u \in Pow!Thread : miner[t].at \in Winning /\ miner[u].at \in Winning => t = u
    /\ \A t \in Pow!Thread : miner[t].at \in Winning =>
           /\ found = TRUE /\ foundHash = NoNonce
           /\ Pow!HashMeetsTarget(mined.block, miner[t].nonce)
    /\ \A t \in Pow!Thread : miner[t].at = "store" => foundNonce = miner[t].nonce
    /\ foundHash # NoNonce =>
           /\ found = TRUE /\ foundHash = foundNonce
           /\ Pow!HashMeetsTarget(mined.block, foundHash)
           /\ \A t \in Pow!Thread : miner[t].at \notin Winning
    /\ mined.nonce = NoNonce

\* A thread has tried its share up to where it is, and rests at the end of it
\* unless something was found or the search was given up.
CoverOK ==
    /\ tried \subseteq 0..(MaxNonce - 1)
    /\ \A t \in Pow!Thread :
           /\ Pow!First(t) <= miner[t].nonce
           /\ \A n \in Nat : Pow!First(t) <= n /\ n < miner[t].nonce => n \in tried
           /\ miner[t].at = "hash" => miner[t].nonce < Pow!End(t)
           /\ miner[t].at = "done" =>
                  found = TRUE \/ stopped = TRUE \/ miner[t].nonce >= Pow!End(t)
    /\ abort = TRUE => stopped = TRUE

PowInv ==
    /\ MinersOK /\ MinedOK /\ Pow!FoundIsValid
    /\ Pow!Searching => WinnerOK /\ CoverOK

\* The share of a thread is of nonces below the limit, and there is no nonce
\* below the limit that is in no thread's share.
LEMMA Shares ==
    /\ 0 \in Pow!Thread
    /\ \A t \in Pow!Thread : Pow!First(t) \in Nat /\ Pow!End(t) \in Nat /\ Pow!End(t) <= MaxNonce
    /\ \A n \in 0..(MaxNonce - 1) : \E t \in Pow!Thread : Pow!First(t) <= n /\ n < Pow!End(t)
<1>1. PICK q : q = MaxNonce \div Threads
    OBVIOUS
<1>2. /\ q \in Nat /\ Threads * q <= MaxNonce /\ Threads \in Nat \ {0} /\ MaxNonce \in Nat
      /\ Pow!Thread = 0..(Threads - 1) /\ Threads - 1 \in Pow!Thread
    BY <1>1, PowAssumption DEF Pow!Thread
<1>3. ASSUME NEW t \in Pow!Thread
      PROVE  /\ t \in Nat /\ t <= Threads - 1
             /\ Pow!First(t) = t * q /\ t * q \in Nat /\ (t + 1) * q \in Nat
             /\ Pow!End(t) = IF t = Threads - 1 THEN MaxNonce ELSE (t + 1) * q
             /\ (t + 1) * q <= MaxNonce
  <2>1. t \in Nat /\ t + 1 <= Threads
      BY <1>2
  <2>2. (t + 1) * q <= Threads * q
      BY <1>2, <2>1
  <2> QED BY <1>1, <1>2, <2>1, <2>2 DEF Pow!First, Pow!End
<1>4. ASSUME NEW n \in 0..(MaxNonce - 1)
      PROVE  \E t \in Pow!Thread : Pow!First(t) <= n /\ n < Pow!End(t)
  <2>1. CASE (Threads - 1) * q <= n
      BY <1>2, <1>3, <2>1
  <2>2. CASE n < (Threads - 1) * q
    <3>1. q # 0
        BY <1>2, <2>2
    <3>2. PICK t : t = n \div q
        OBVIOUS
    <3>3. t \in Nat /\ q * t <= n /\ n < q * (t + 1)
        BY <1>2, <3>1, <3>2
    <3>4. t * q = q * t /\ (t + 1) * q = q * (t + 1)
        BY <1>2, <3>3
    <3>5. t < Threads - 1
      <4> SUFFICES ASSUME t >= Threads - 1 PROVE FALSE
          BY <1>2, <3>3
      <4>1. t * q >= (Threads - 1) * q
          BY <1>2, <3>3
      <4> QED BY <1>2, <2>2, <3>3, <3>4, <4>1
    <3>6. t \in Pow!Thread
        BY <1>2, <3>3, <3>5
    <3> QED BY <1>3, <3>3, <3>4, <3>5, <3>6
  <2>3. (Threads - 1) * q \in Int
      BY <1>2
  <2> QED BY <2>1, <2>2, <2>3
<1> QED BY <1>2, <1>3, <1>4

\* Either no thread searches or all do.
LEMMA AllOrNone ==
    ASSUME MinersOK
    PROVE  /\ Pow!Searching =>
                  \A t \in Pow!Thread : miner[t].at \in Places /\ miner[t].nonce \in Nat
           /\ ~Pow!Searching <=> \A t \in Pow!Thread : miner[t].at = "idle"
           /\ \A t \in Pow!Thread : miner[t].at # "idle" => Pow!Searching
BY Shares DEF MinersOK, Pow!Searching, Places

\* One thread goes on, and the others stay where they are.
LEMMA MinerMoves ==
    ASSUME MinersOK, Pow!Searching, NEW t \in Pow!Thread, NEW place \in Places, NEW n \in Nat,
           \/ miner' = [miner EXCEPT ![t] = [at |-> place, nonce |-> n]]
           \/ miner' = [miner EXCEPT ![t].at = place] /\ n = miner[t].nonce
    PROVE  /\ MinersOK' /\ Pow!Searching'
           /\ miner'[t].at = place /\ miner'[t].nonce = n
           /\ \A u \in Pow!Thread : u # t => miner'[u] = miner[u]
<1>1. /\ miner = [u \in Pow!Thread |-> miner[u]]
      /\ \A u \in Pow!Thread : miner[u] = [at |-> miner[u].at, nonce |-> miner[u].nonce]
      /\ \A u \in Pow!Thread : miner[u].at \in Places /\ miner[u].nonce \in Nat
    BY AllOrNone DEF MinersOK
<1>2. miner' = [miner EXCEPT ![t] = [at |-> place, nonce |-> n]]
    BY <1>1
<1>3. /\ miner' = [u \in Pow!Thread |-> miner'[u]]
      /\ miner'[t] = [at |-> place, nonce |-> n]
      /\ \A u \in Pow!Thread : u # t => miner'[u] = miner[u]
    BY <1>1, <1>2
<1>4. miner'[t].at = place /\ miner'[t].nonce = n
    BY <1>3
<1>5. Pow!Searching'
    BY <1>4 DEF Pow!Searching, Places, Pow!Thread
<1>6. \A u \in Pow!Thread : /\ miner'[u] = [at |-> miner'[u].at, nonce |-> miner'[u].nonce]
                            /\ miner'[u].at \in Places /\ miner'[u].nonce \in Nat
    BY <1>1, <1>3, <1>4
<1>7. MinersOK'
    BY <1>3, <1>6 DEF MinersOK, Pow!Thread
<1> QED BY <1>3, <1>4, <1>5, <1>7

\* A step of a thread that neither wins nor stores leaves what was won alone.
LEMMA NoWinner ==
    ASSUME MinersOK, WinnerOK, NEW t \in Pow!Thread, miner[t].at \notin Winning,
           miner'[t].at \notin Winning, \A u \in Pow!Thread : u # t => miner'[u] = miner[u],
           found = TRUE => found' = TRUE, UNCHANGED <<mined, difficulty, foundNonce, foundHash>>
    PROVE  WinnerOK'
<1>1. \A u \in Pow!Thread : miner'[u].at \in Winning => u # t /\ miner'[u] = miner[u]
    OBVIOUS
<1>2. /\ \A u \in Pow!Thread : miner'[u].at = "store" => miner'[u].at \in Winning
      /\ \A b, n : Pow!HashMeetsTarget(b, n)' <=> Pow!HashMeetsTarget(b, n)
    BY DEF Winning, Pow!HashMeetsTarget
<1>3. \A u, v \in Pow!Thread : miner'[u].at \in Winning /\ miner'[v].at \in Winning => u = v
    BY <1>1 DEF WinnerOK
<1>4. \A u \in Pow!Thread : miner'[u].at \in Winning =>
          /\ found' = TRUE /\ foundHash' = NoNonce
          /\ Pow!HashMeetsTarget(mined.block, miner'[u].nonce)
    BY <1>1 DEF WinnerOK
<1>5. \A u \in Pow!Thread : miner'[u].at = "store" => foundNonce' = miner'[u].nonce
    BY <1>1, <1>2 DEF WinnerOK
<1>6. foundHash' # NoNonce =>
          /\ found' = TRUE /\ foundHash' = foundNonce'
          /\ Pow!HashMeetsTarget(mined.block, foundHash')
          /\ \A u \in Pow!Thread : miner'[u].at \notin Winning
    BY <1>1 DEF WinnerOK
<1>7. mined'.nonce = NoNonce /\ mined' = mined
    BY DEF WinnerOK
<1>8. /\ \A u \in Pow!Thread : Pow!HashMeetsTarget(mined.block, miner'[u].nonce) =>
              Pow!HashMeetsTarget(mined.block, miner[u].nonce)'
      /\ Pow!HashMeetsTarget(mined.block, foundHash') =>
              Pow!HashMeetsTarget(mined.block, foundHash)'
    BY <1>7 DEF Pow!HashMeetsTarget
<1> QED
    BY <1>3, <1>4, <1>5, <1>6, <1>7, <1>8 DEF WinnerOK, Pow!Thread, Winning

\* The share of a thread that goes on, or rests.
LEMMA ShareKept ==
    ASSUME MinersOK, CoverOK, Pow!Searching, NEW t \in Pow!Thread,
           \A u \in Pow!Thread : u # t => miner'[u] = miner[u],
           miner'[t].nonce \in Nat, tried \subseteq tried',
           \/ miner'[t].nonce = miner[t].nonce
           \/ miner'[t].nonce = miner[t].nonce + 1 /\ miner[t].nonce \in tried',
           tried' \subseteq 0..(MaxNonce - 1),
           miner'[t].at = "hash" => miner'[t].nonce < Pow!End(t),
           miner'[t].at = "done" =>
               found' = TRUE \/ stopped' = TRUE \/ miner'[t].nonce >= Pow!End(t),
           found = TRUE => found' = TRUE, stopped = TRUE => stopped' = TRUE,
           abort' = TRUE => abort = TRUE
    PROVE  CoverOK'
<1>1. /\ \A u \in Pow!Thread : miner[u].nonce \in Nat /\ Pow!First(u) \in Nat /\ Pow!End(u) \in Nat
      /\ \A u \in Pow!Thread : Pow!First(u)' = Pow!First(u) /\ Pow!End(u)' = Pow!End(u)
      /\ Pow!Thread' = Pow!Thread
    BY AllOrNone, Shares DEF Pow!First, Pow!End, Pow!Thread
<1>2. ASSUME NEW u \in Pow!Thread, u # t
      PROVE  /\ Pow!First(u) <= miner'[u].nonce
             /\ \A n \in Nat : Pow!First(u) <= n /\ n < miner'[u].nonce => n \in tried'
             /\ miner'[u].at = "hash" => miner'[u].nonce < Pow!End(u)
             /\ miner'[u].at = "done" =>
                    found' = TRUE \/ stopped' = TRUE \/ miner'[u].nonce >= Pow!End(u)
    BY <1>2 DEF CoverOK
<1>3. PICK f, n, m : f = Pow!First(t) /\ n = miner[t].nonce /\ m = miner'[t].nonce
    OBVIOUS
<1>4. /\ f \in Nat /\ n \in Nat /\ m \in Nat /\ f <= n
      /\ \A k \in Nat : f <= k /\ k < n => k \in tried'
      /\ m = n \/ (m = n + 1 /\ n \in tried')
    BY <1>1, <1>3 DEF CoverOK
<1>5. f <= m /\ \A k \in Nat : f <= k /\ k < m => k \in tried'
    BY <1>4
<1> QED
    BY <1>1, <1>2, <1>3, <1>5 DEF CoverOK

\* Each step of a thread.
LEMMA ThreadStep ==
    ASSUME PowInv, NEW t \in Pow!Thread,
           \/ Pow!Look(t) \/ Pow!HashFails(t) \/ Pow!HashMeets(t)
           \/ Pow!StoreNonce(t) \/ Pow!StoreHash(t)
    PROVE  PowInv'
<1>1. miner[t].at \in Places \ {"done"} /\ UNCHANGED <<mined, difficulty, abort, stopped>>
    BY DEF Pow!Look, Pow!HashFails, Pow!HashMeets, Pow!StoreNonce, Pow!StoreHash, Places, Pow!Rest
<1>2. /\ Pow!Searching /\ MinersOK /\ WinnerOK /\ CoverOK
      /\ miner[t].nonce \in Nat /\ \A u \in Pow!Thread : miner[u].nonce \in Nat
      /\ Pow!First(t) \in Nat /\ Pow!End(t) \in Nat /\ Pow!End(t) <= MaxNonce
      /\ Pow!First(t) <= miner[t].nonce /\ tried \subseteq 0..(MaxNonce - 1)
    BY <1>1, AllOrNone, Shares DEF PowInv, Places, CoverOK
<1>3. ASSUME NEW place \in Places, NEW n \in Nat,
             \/ miner' = [miner EXCEPT ![t] = [at |-> place, nonce |-> n]]
             \/ miner' = [miner EXCEPT ![t].at = place] /\ n = miner[t].nonce
      PROVE  /\ MinersOK' /\ Pow!Searching' /\ miner'[t].at = place /\ miner'[t].nonce = n
             /\ \A u \in Pow!Thread : u # t => miner'[u] = miner[u]
    BY <1>2, <1>3, MinerMoves
<1>4. ASSUME MinersOK', Pow!Searching', WinnerOK', CoverOK' PROVE PowInv'
    BY <1>1, <1>4 DEF PowInv, MinedOK, Pow!FoundIsValid
<1>5. CASE Pow!Look(t)
  <2>1. miner[t].at = "look" /\ UNCHANGED <<found, foundNonce, foundHash, tried>>
      BY <1>5 DEF Pow!Look
  <2>2. CASE (abort \/ found \/ miner[t].nonce >= Pow!End(t)) /\ Pow!Rest(t)
    <3>1. /\ MinersOK' /\ Pow!Searching' /\ miner'[t].at = "done"
          /\ miner'[t].nonce = miner[t].nonce
          /\ \A u \in Pow!Thread : u # t => miner'[u] = miner[u]
        BY <1>2, <1>3, <2>2 DEF Pow!Rest, Places
    <3>2. found = TRUE \/ stopped = TRUE \/ miner[t].nonce >= Pow!End(t)
        BY <1>2, <2>2 DEF CoverOK
    <3>3. CoverOK'
        BY <1>1, <1>2, <2>1, <3>1, <3>2, ShareKept
    <3>4. WinnerOK'
        BY <1>1, <1>2, <2>1, <3>1, NoWinner DEF Winning
    <3> QED BY <1>4, <3>1, <3>3, <3>4
  <2>3. CASE miner[t].nonce < Pow!End(t) /\ miner' = [miner EXCEPT ![t].at = "hash"]
    <3>1. /\ MinersOK' /\ Pow!Searching' /\ miner'[t].at = "hash"
          /\ miner'[t].nonce = miner[t].nonce
          /\ \A u \in Pow!Thread : u # t => miner'[u] = miner[u]
        BY <1>2, <1>3, <2>3 DEF Places
    <3>2. CoverOK'
        BY <1>1, <1>2, <2>1, <2>3, <3>1, ShareKept
    <3>3. WinnerOK'
        BY <1>1, <1>2, <2>1, <3>1, NoWinner DEF Winning
    <3> QED BY <1>4, <3>1, <3>2, <3>3
  <2> QED BY <1>2, <1>5, <2>2, <2>3 DEF Pow!Look
<1>6. CASE Pow!HashFails(t)
  <2>1. PICK n : n = miner[t].nonce
      OBVIOUS
  <2>2. /\ miner[t].at = "hash" /\ UNCHANGED <<found, foundNonce, foundHash>>
        /\ tried' = tried \cup {n} /\ n \in Nat /\ n + 1 \in Nat
        /\ n < Pow!End(t) /\ n \in 0..(MaxNonce - 1)
    <3>1. /\ miner[t].at = "hash" /\ UNCHANGED <<found, foundNonce, foundHash>>
          /\ tried' = tried \cup {n}
        BY <1>6, <2>1 DEF Pow!HashFails
    <3>2. n < Pow!End(t)
        BY <1>2, <2>1, <3>1 DEF CoverOK
    <3> QED BY <1>2, <2>1, <3>1, <3>2, PowAssumption
  <2>3. miner' = [miner EXCEPT ![t] = [at |-> "look", nonce |-> n + 1]]
      BY <1>2, <1>6, <2>1 DEF Pow!HashFails, MinersOK
  <2>4. /\ MinersOK' /\ Pow!Searching' /\ miner'[t].at = "look" /\ miner'[t].nonce = n + 1
        /\ \A u \in Pow!Thread : u # t => miner'[u] = miner[u]
      BY <1>3, <2>2, <2>3 DEF Places
  <2>5. CoverOK'
      BY <1>1, <1>2, <2>1, <2>2, <2>4, ShareKept
  <2>6. WinnerOK'
      BY <1>1, <1>2, <2>2, <2>4, NoWinner DEF Winning
  <2> QED BY <1>4, <2>4, <2>5, <2>6
<1>7. CASE Pow!HashMeets(t)
  <2>1. PICK n : n = miner[t].nonce
      OBVIOUS
  <2>2. /\ miner[t].at = "hash" /\ UNCHANGED <<foundNonce, foundHash>>
        /\ tried' = tried \cup {n} /\ n \in Nat /\ n \in 0..(MaxNonce - 1)
        /\ Pow!HashMeetsTarget(mined.block, n)
    <3>1. /\ miner[t].at = "hash" /\ UNCHANGED <<foundNonce, foundHash>>
          /\ tried' = tried \cup {n} /\ Pow!HashMeetsTarget(mined.block, n)
        BY <1>7, <2>1 DEF Pow!HashMeets
    <3>2. n < Pow!End(t)
        BY <1>2, <2>1, <3>1 DEF CoverOK
    <3> QED BY <1>2, <2>1, <3>1, <3>2, PowAssumption
  <2>3. CASE ~found /\ found' = TRUE /\ miner' = [miner EXCEPT ![t].at = "nonce"]
    <3>1. /\ MinersOK' /\ Pow!Searching' /\ miner'[t].at = "nonce" /\ miner'[t].nonce = n
          /\ \A u \in Pow!Thread : u # t => miner'[u] = miner[u]
        BY <1>2, <1>3, <2>1, <2>3 DEF Places
    <3>2. CoverOK'
        BY <1>1, <1>2, <2>1, <2>2, <2>3, <3>1, ShareKept
    <3>3. foundHash = NoNonce /\ (\A u \in Pow!Thread : miner[u].at \notin Winning)
          /\ mined.nonce = NoNonce
        BY <1>2, <2>3 DEF WinnerOK
    <3>4. /\ \A u \in Pow!Thread : miner'[u].at \in Winning => u = t
          /\ Pow!HashMeetsTarget(mined.block, n)'
        BY <1>1, <2>2, <3>1, <3>3 DEF Pow!HashMeetsTarget
    <3>5. Pow!HashMeetsTarget(mined.block, miner[t].nonce)'
        BY <1>1, <2>2, <3>1 DEF Pow!HashMeetsTarget
    <3>6. WinnerOK'
        BY <1>1, <2>2, <2>3, <3>1, <3>3, <3>4, <3>5 DEF WinnerOK, Pow!Thread, Winning
    <3> QED BY <1>4, <3>1, <3>2, <3>6
  <2>4. CASE found /\ Pow!Rest(t) /\ UNCHANGED found
    <3>1. /\ MinersOK' /\ Pow!Searching' /\ miner'[t].at = "done" /\ miner'[t].nonce = n
          /\ \A u \in Pow!Thread : u # t => miner'[u] = miner[u]
        BY <1>2, <1>3, <2>1, <2>4 DEF Places, Pow!Rest
    <3>2. CoverOK'
        BY <1>1, <1>2, <2>1, <2>2, <2>4, <3>1, ShareKept
    <3>3. WinnerOK'
        BY <1>1, <1>2, <2>2, <2>4, <3>1, NoWinner DEF Winning
    <3> QED BY <1>4, <3>1, <3>2, <3>3
  <2> QED BY <1>7, <2>3, <2>4 DEF Pow!HashMeets, Pow!WinsExchange
<1>8. CASE Pow!StoreNonce(t) \/ Pow!StoreHash(t)
  <2>1. PICK n : n = miner[t].nonce
      OBVIOUS
  <2>2. /\ miner[t].at \in Winning /\ UNCHANGED <<found, tried>> /\ n \in Nat
        /\ Pow!StoreHash(t) => foundNonce = n
      BY <1>2, <1>8, <2>1 DEF Pow!StoreNonce, Pow!StoreHash, Winning, WinnerOK
  <2>3. /\ found = TRUE /\ foundHash = NoNonce /\ mined.nonce = NoNonce
        /\ Pow!HashMeetsTarget(mined.block, n)
        /\ \A u \in Pow!Thread : miner[u].at \in Winning => u = t
      BY <1>2, <2>1, <2>2 DEF WinnerOK
  <2>4. /\ MinersOK' /\ Pow!Searching' /\ miner'[t].nonce = n
        /\ \A u \in Pow!Thread : u # t => miner'[u] = miner[u]
        /\ \/ Pow!StoreNonce(t) /\ miner'[t].at = "store" /\ foundNonce' = n /\ UNCHANGED foundHash
           \/ Pow!StoreHash(t) /\ miner'[t].at = "done" /\ foundHash' = n /\ UNCHANGED foundNonce
    <3>1. CASE Pow!StoreNonce(t)
        BY <1>2, <1>3, <2>1, <3>1 DEF Pow!StoreNonce, Places
    <3>2. CASE Pow!StoreHash(t)
        BY <1>2, <1>3, <2>1, <3>2 DEF Pow!StoreHash, Pow!Rest, Places
    <3> QED BY <1>8, <3>1, <3>2
  <2>5. CoverOK'
      BY <1>1, <1>2, <2>1, <2>2, <2>3, <2>4, ShareKept
  <2>6. /\ \A u \in Pow!Thread : miner'[u].at \in Winning => u = t
        /\ Pow!HashMeetsTarget(mined.block, miner[t].nonce)'
      BY <1>1, <2>3, <2>4 DEF Pow!HashMeetsTarget
  <2>7. WinnerOK'
    <3>1. CASE miner'[t].at = "store" /\ foundNonce' = n /\ UNCHANGED foundHash
        BY <1>1, <2>2, <2>3, <2>4, <2>6, <3>1 DEF WinnerOK, Pow!Thread, Winning
    <3>2. CASE miner'[t].at = "done" /\ foundHash' = n /\ foundNonce' = foundNonce /\ foundNonce = n
      <4>1. Pow!HashMeetsTarget(mined.block, foundHash)'
          BY <1>1, <2>3, <3>2 DEF Pow!HashMeetsTarget
      <4>2. \A u \in Pow!Thread : miner'[u].at \notin Winning
          BY <2>6, <3>2 DEF Winning
      <4> QED BY <1>1, <2>2, <2>3, <3>2, <4>1, <4>2 DEF WinnerOK, Pow!Thread, Winning
    <3> QED BY <2>2, <2>4, <3>1, <3>2
  <2> QED BY <1>4, <2>4, <2>5, <2>7
<1> QED BY <1>5, <1>6, <1>7, <1>8

\* A search by one thread, or a new difficulty, while none is on.
LEMMA SoloStep ==
    ASSUME PowInv, NEW b,
           Pow!MineFinds(b) \/ Pow!MineStops(b) \/ Pow!MineExhausts(b) \/ Pow!AdjustDifficulty
    PROVE  PowInv'
<1>1. /\ ~Pow!Searching /\ UNCHANGED miner /\ MinersOK
    BY DEF Pow!MineFinds, Pow!MineStops, Pow!MineExhausts, Pow!StartMine, Pow!AdjustDifficulty,
           PowInv
<1>2. ~Pow!Searching' /\ MinersOK'
    BY <1>1 DEF Pow!Searching, MinersOK, Pow!Thread
<1>3. MinedOK' /\ (mined'.nonce # NoNonce => Pow!ValidateHash')
  <2>1. CASE Pow!MineFinds(b)
    <3>1. PICK n \in Pow!Hits(b, nonceState) : mined' = [block |-> b, nonce |-> n, hash |-> n]
        BY <2>1 DEF Pow!MineFinds
    <3>2. Zeros[b][n] >= difficulty /\ difficulty' = difficulty
        BY <2>1, <3>1 DEF Pow!Hits, Pow!HashMeetsTarget, Pow!MineFinds, Pow!StartMine
    <3> QED BY <3>1, <3>2 DEF MinedOK, Pow!ValidateHash
  <2>2. CASE \E k : mined' = [block |-> k, nonce |-> NoNonce, hash |-> NoNonce]
      BY <2>2 DEF MinedOK
  <2> QED
      BY <2>1, <2>2 DEF Pow!MineStops, Pow!MineExhausts, Pow!AdjustDifficulty
<1> QED BY <1>2, <1>3 DEF PowInv, Pow!FoundIsValid

\* All threads set out, each from the start of its share.
LEMMA StartStep ==
    ASSUME NEW b \in MinedBlock, Pow!StartParallel(b)
    PROVE  PowInv'
<1>1. /\ miner' = [t \in Pow!Thread |-> [at |-> "look", nonce |-> Pow!First(t)]]
      /\ mined' = [block |-> b, nonce |-> NoNonce, hash |-> NoNonce]
      /\ abort' = FALSE /\ foundHash' = NoNonce /\ tried' = {}
    BY DEF Pow!StartParallel
<1>2. /\ \A t \in Pow!Thread : /\ miner'[t] = [at |-> "look", nonce |-> Pow!First(t)]
                               /\ miner'[t].at = "look" /\ miner'[t].nonce = Pow!First(t)
      /\ miner' = [t \in Pow!Thread |-> [at |-> miner'[t].at, nonce |-> miner'[t].nonce]]
    BY <1>1
<1>3. MinersOK' /\ MinedOK'
    BY <1>1, <1>2, Shares DEF MinersOK, MinedOK, Places, Pow!Thread
<1>4. WinnerOK'
    BY <1>1, <1>2 DEF WinnerOK, Winning, Pow!Thread
<1>5. CoverOK'
    BY <1>1, <1>2, Shares DEF CoverOK, Pow!Thread, Pow!First, Pow!End
<1>6. Pow!FoundIsValid'
    BY <1>1 DEF Pow!FoundIsValid
<1> QED BY <1>3, <1>4, <1>5, <1>6 DEF PowInv

\* The search is given up, by a call or by what the progress callback says.
LEMMA GivenUpStep ==
    ASSUME PowInv, Pow!Abort \/ Pow!ProgressRefuses
    PROVE  PowInv'
<1>1. Pow!Searching /\ MinersOK /\ WinnerOK /\ CoverOK /\ stopped' = TRUE
      /\ UNCHANGED <<mined, difficulty, foundNonce, foundHash, tried>>
    BY AllOrNone, Shares DEF PowInv, Pow!Abort, Pow!ProgressRefuses
<1>2. CASE Pow!Abort
  <2>1. UNCHANGED <<miner, found>>
      BY <1>2 DEF Pow!Abort
  <2> QED
      BY <1>1, <2>1 DEF PowInv, MinersOK, MinedOK, WinnerOK, CoverOK, Pow!FoundIsValid,
                        Pow!Searching, Pow!HashMeetsTarget, Pow!ValidateHash, Pow!Thread,
                        Pow!First, Pow!End
<1>3. CASE Pow!ProgressRefuses
  <2>1. /\ 0 \in Pow!Thread /\ miner[0].at = "look" /\ found' = TRUE /\ UNCHANGED abort
        /\ miner' = [miner EXCEPT ![0].at = "done"] /\ miner[0].nonce \in Nat
        /\ tried \subseteq 0..(MaxNonce - 1)
      BY <1>1, <1>3, Shares, AllOrNone DEF Pow!ProgressRefuses, Pow!Rest, CoverOK
  <2>2. /\ MinersOK' /\ Pow!Searching' /\ miner'[0].at = "done"
        /\ miner'[0].nonce = miner[0].nonce
        /\ \A u \in Pow!Thread : u # 0 => miner'[u] = miner[u]
      BY <1>1, <2>1, MinerMoves DEF Places
  <2>3. WinnerOK'
      BY <1>1, <2>1, <2>2, NoWinner DEF Winning
  <2>4. CoverOK'
      BY <1>1, <2>1, <2>2, ShareKept
  <2> QED BY <1>1, <2>2, <2>3, <2>4 DEF PowInv, MinedOK, Pow!FoundIsValid
<1> QED BY <1>2, <1>3

\* The threads are joined, and what they found becomes the block's.
LEMMA JoinStep ==
    ASSUME PowInv, Pow!JoinMiners
    PROVE  PowInv'
<1>1. /\ Pow!Searching /\ MinersOK /\ WinnerOK /\ MinedOK
      /\ miner' = Pow!Idle /\ UNCHANGED <<difficulty, found, foundNonce, foundHash>>
    BY AllOrNone, Shares DEF PowInv, Pow!JoinMiners
<1>2. MinersOK' /\ ~Pow!Searching'
    BY <1>1 DEF MinersOK, Pow!Idle, Pow!Thread, Pow!Searching
<1>3. CASE found /\ foundHash # NoNonce
  <2>1. mined' = [mined EXCEPT !.nonce = foundNonce, !.hash = foundHash]
      BY <1>3 DEF Pow!JoinMiners
  <2>2. mined' = [block |-> mined.block, nonce |-> foundNonce, hash |-> foundHash]
      BY <1>1, <2>1 DEF MinedOK
  <2>3. foundHash = foundNonce /\ Zeros[mined.block][foundHash] >= difficulty
      BY <1>1, <1>3 DEF WinnerOK, Pow!HashMeetsTarget
  <2>4. MinedOK' /\ Pow!ValidateHash'
      BY <1>1, <2>2, <2>3 DEF MinedOK, Pow!ValidateHash
  <2> QED BY <1>2, <2>4 DEF PowInv, Pow!FoundIsValid
<1>4. CASE ~(found /\ foundHash # NoNonce)
  <2>1. mined' = mined /\ mined.nonce = NoNonce
      BY <1>1, <1>4 DEF Pow!JoinMiners, WinnerOK
  <2> QED BY <1>1, <1>2, <2>1 DEF PowInv, MinedOK, Pow!FoundIsValid
<1> QED BY <1>3, <1>4

\* Each step of the search.
LEMMA PowKept ==
    /\ Pow!Init => PowInv
    /\ PowInv /\ [Pow!Next]_(Pow!powVars) => PowInv'
<1>1. ASSUME Pow!Init PROVE PowInv
  <2>1. miner = [t \in Pow!Thread |-> [at |-> "idle", nonce |-> 0]]
        /\ mined = [block |-> NoNonce, nonce |-> NoNonce, hash |-> NoNonce]
      BY <1>1 DEF Pow!Init, Pow!Idle
  <2>2. MinersOK /\ ~Pow!Searching
      BY <2>1 DEF MinersOK, Pow!Searching
  <2> QED BY <2>1, <2>2 DEF PowInv, MinedOK, Pow!FoundIsValid
<1>2. ASSUME PowInv, UNCHANGED Pow!powVars PROVE PowInv'
  <2>1. UNCHANGED <<mined, difficulty, miner, abort, found, foundNonce, foundHash, tried, stopped>>
      BY <1>2 DEF Pow!powVars
  <2> QED
      BY <1>2, <2>1 DEF PowInv, MinersOK, MinedOK, WinnerOK, CoverOK, Pow!FoundIsValid,
                        Pow!Searching, Pow!HashMeetsTarget, Pow!ValidateHash, Pow!Thread,
                        Pow!First, Pow!End
<1>3. ASSUME PowInv, Pow!Next PROVE PowInv'
    BY <1>3, SoloStep, StartStep, ThreadStep, GivenUpStep, JoinStep DEF Pow!Next
<1> QED BY <1>1, <1>2, <1>3

\* Threads that are done, found nothing and were not stopped leave no nonce out.
LEMMA SearchExact == PowInv => Pow!SearchIsExact
<1> SUFFICES ASSUME PowInv, \A t \in Pow!Thread : miner[t].at = "done", ~found, ~stopped
             PROVE  tried = 0..(MaxNonce - 1)
    BY DEF Pow!SearchIsExact, Pow!NothingSkipped, PowInv
<1>1. Pow!Searching /\ MinersOK /\ CoverOK
    BY Shares, AllOrNone DEF PowInv
<1>2. ASSUME NEW n \in 0..(MaxNonce - 1) PROVE n \in tried
  <2>1. PICK t \in Pow!Thread : Pow!First(t) <= n /\ n < Pow!End(t)
      BY Shares
  <2>2. miner[t].nonce >= Pow!End(t) /\ miner[t].nonce \in Nat /\ Pow!End(t) \in Nat /\ n \in Nat
      BY <1>1, Shares, AllOrNone DEF CoverOK
  <2> QED BY <1>1, <2>1, <2>2 DEF CoverOK
<1> QED BY <1>1, <1>2 DEF CoverOK

\* No step of the other units breaks it.
THEOREM PowInvariant == UnitsSpec => [](unit = "pow" => PowInv)
<1> DEFINE Inv == unit = "pow" => PowInv
<1>1. UnitsInit => Inv
    BY PowKept DEF UnitsInit, IdentityInit, AccountsInit, KeysInit, ConnectionsInit,
                   SubmitInit, LimiterInit, PowInit, RegistryInit, NetworkInit, PoolsInit,
                   EvmInit, PeersInit
<1>2. Inv /\ [UnitsNext]_<<unit, unitVars>> => Inv'
  <2> SUFFICES ASSUME Inv, [UnitsNext]_<<unit, unitVars>>, unit' = "pow"
               PROVE  PowInv'
      OBVIOUS
  <2>1. unit = "pow" /\ [Pow!Next]_(Pow!powVars)
      BY DEF UnitsNext, IdentityNext, AccountsNext, KeysNext, ConnectionsNext,
             SubmitNext, LimiterNext, PowNext, RegistryNext, NetworkNext, PoolsNext, EvmNext,
             PeersNext, unitVars, searchVars, Pow!powVars
  <2> QED BY <2>1, PowKept
<1> QED
    BY <1>1, <1>2, PTL DEF UnitsSpec

\* However the threads race for the exchange, and whenever the search is given
\* up, what becomes the block's is a hit of its own, and a search that ends
\* empty has hashed every nonce (src/src/proof_of_work.cpp:369-530).
THEOREM SearchStaysExact == UnitsSpec => []SearchIsExact
<1>1. (unit = "pow" => PowInv) => SearchIsExact
    BY SearchExact DEF SearchIsExact
<1> QED
    BY <1>1, PowInvariant, PTL

-----------------------------------------------------------------------------
(* Queues with workers: MedorPools                                         *)

\* The tasks that wait, and those that run.
Queued == {queue[i] : i \in 1..Len(queue)}
Running == {task[w] : w \in {v \in Worker : worker[v] = "run"}}

QueueOK == queue \in Seq(Task)

WorkersOK ==
    /\ worker = [w \in Worker |-> worker[w]]
    /\ task = [w \in Worker |-> task[w]]

\* No task is lost, and none is owed that was not submitted.
TasksOK ==
    /\ submitted \subseteq Queued \cup Running \cup finished
    /\ owed \subseteq submitted

\* Workers leave when the flag is set and what is owed has left the queue.
FlagOK ==
    /\ stopping \in BOOLEAN
    /\ stopping <=> owner \notin {"away", "drain", "blocking", "asleep", "drained"}
    /\ \A w \in Worker : worker[w] = "gone" => stopping /\ owed \cap Queued = {}

\* Who sets the flag under the mutex finds nobody between test and wait.
WakeOK ==
    pool \in {"thread", "logger"} =>
        /\ owner = "notify" => \A w \in Worker : worker[w] # "blocking"
        /\ owner = "join" => \A w \in Worker : worker[w] \notin {"blocking", "asleep"}

OwedOK ==
    /\ owner = "gone" => owed \subseteq finished
    /\ owner = "drained" =>
           owed \subseteq IF pool = "thread" THEN finished \cup Running ELSE finished

PoolsInv == QueueOK /\ WorkersOK /\ TasksOK /\ FlagOK /\ WakeOK /\ OwedOK

\* A task at the end of the queue.
LEMMA TaskQueued ==
    ASSUME QueueOK, NEW t \in Task, queue' = Append(queue, t)
    PROVE  QueueOK' /\ Queued' = Queued \cup {t}
<1>1. PICK L : L = Len(queue)
    OBVIOUS
<1>2. /\ queue' \in Seq(Task) /\ L \in Nat /\ Len(queue') = L + 1
      /\ \A i \in 1..L : queue'[i] = queue[i]
      /\ queue'[L + 1] = t
    BY <1>1 DEF QueueOK
<1>3. \A i : i \in 1..(L + 1) <=> i \in 1..L \/ i = L + 1
    BY <1>2
<1> QED
    BY <1>1, <1>2, <1>3 DEF QueueOK, Queued

\* The task at its head.
LEMMA TaskTaken ==
    ASSUME QueueOK, queue # <<>>, queue' = Tail(queue)
    PROVE  QueueOK' /\ Queued = Queued' \cup {Head(queue)}
<1>1. PICK L : L = Len(queue)
    OBVIOUS
<1>2. /\ queue' \in Seq(Task) /\ L \in Nat \ {0} /\ Len(queue') = L - 1
      /\ \A i \in 1..(L - 1) : queue'[i] = queue[i + 1]
      /\ Head(queue) = queue[1]
    BY <1>1 DEF QueueOK
<1>3. /\ \A i \in 1..(L - 1) : i + 1 \in 1..L
      /\ \A i \in 1..L : i = 1 \/ (i - 1 \in 1..(L - 1) /\ (i - 1) + 1 = i)
      /\ 1 \in 1..L
    BY <1>2
<1>4. Queued' \subseteq Queued /\ Head(queue) \in Queued
    BY <1>1, <1>2, <1>3 DEF Queued
<1>5. ASSUME NEW i \in 1..L PROVE queue[i] \in Queued' \cup {Head(queue)}
    <2>1. CASE i = 1
        BY <1>2, <2>1
    <2>2. CASE i # 1
      <3>1. PICK j : j = i - 1
          OBVIOUS
      <3>2. j \in 1..(L - 1) /\ j + 1 = i
          BY <1>3, <2>2, <3>1
      <3>3. queue'[j] = queue[i]
          BY <1>2, <3>2
      <3> QED BY <1>2, <3>2, <3>3 DEF Queued
    <2> QED BY <2>1, <2>2
<1>6. Queued \subseteq Queued' \cup {Head(queue)}
    BY <1>1, <1>5 DEF Queued
<1> QED
    BY <1>2, <1>4, <1>6 DEF QueueOK

\* The queue, the tasks that run and the owner's steps are left alone.
LEMMA WorkerMoves ==
    ASSUME PoolsInv, NEW w \in Worker, NEW place, worker' = [worker EXCEPT ![w] = place],
           UNCHANGED <<pool, task, queue, stopping, owner, submitted, finished, owed>>,
           worker[w] # "run", place # "run",
           place = "gone" => stopping /\ queue = <<>>,
           place = "blocking" => ~stopping,
           place = "asleep" => worker[w] = "blocking"
    PROVE  PoolsInv'
<1>1. /\ worker' = [v \in Worker |-> worker'[v]] /\ worker'[w] = place
      /\ \A v \in Worker : v # w => worker'[v] = worker[v]
    BY DEF PoolsInv, WorkersOK
<1>2. Queued' = Queued /\ (queue = <<>> => Queued = {})
    BY DEF Queued
<1>3. Running' = Running
    BY <1>1 DEF Running
<1>4. QueueOK' /\ WorkersOK' /\ TasksOK' /\ OwedOK'
    BY <1>1, <1>2, <1>3 DEF PoolsInv, QueueOK, WorkersOK, TasksOK, OwedOK
<1>5. FlagOK'
    BY <1>1, <1>2 DEF PoolsInv, FlagOK
<1>6. WakeOK'
    BY <1>1 DEF PoolsInv, WakeOK, FlagOK
<1> QED
    BY <1>4, <1>5, <1>6 DEF PoolsInv

\* The owner moves and the workers stay where they are.
LEMMA OwnerMoves ==
    ASSUME PoolsInv, UNCHANGED <<pool, worker, task, queue, submitted, finished>>,
           owed' \in {owed, submitted}, FlagOK', WakeOK', OwedOK'
    PROVE  PoolsInv'
<1>1. Queued' = Queued /\ Running' = Running
    BY DEF Queued, Running
<1> QED
    BY <1>1 DEF PoolsInv, QueueOK, WorkersOK, TasksOK

\* What workers and submitters do.
LEMMA WorkerStepKeeps ==
    ASSUME PoolsInv,
           \/ \E t \in Task : Pools!Submit(t)
           \/ \E w \in Worker : Pools!WorkerStep(w)
    PROVE  PoolsInv'
<1>1. QueueOK /\ WorkersOK /\ TasksOK /\ FlagOK /\ WakeOK /\ OwedOK
    BY DEF PoolsInv
<1>2. CASE \E t \in Task : Pools!Submit(t)
  <2> PICK t \in Task : Pools!Submit(t)
      BY <1>2
  <2>1. /\ t \notin submitted /\ submitted' = submitted \cup {t}
        /\ UNCHANGED <<pool, task, stopping, owner, finished, owed>>
        /\ queue' = Append(queue, t)
      BY DEF Pools!Submit
  <2>2. QueueOK' /\ Queued' = Queued \cup {t}
      BY <1>1, <2>1, TaskQueued
  <2>3. \/ worker' = worker
        \/ \E w \in Worker : worker[w] = "asleep" /\ worker' = [worker EXCEPT ![w] = "test"]
      BY DEF Pools!Submit, Pools!Asleep
  <2>4. /\ worker' = [w \in Worker |-> worker'[w]]
        /\ \A w \in Worker : \/ worker'[w] = worker[w]
                             \/ worker[w] = "asleep" /\ worker'[w] = "test"
      BY <1>1, <2>3 DEF WorkersOK
  <2>5. Running' = Running
      BY <2>1, <2>4 DEF Running
  <2>6. WorkersOK' /\ TasksOK' /\ OwedOK'
      BY <1>1, <2>1, <2>2, <2>4, <2>5 DEF WorkersOK, TasksOK, OwedOK
  <2>7. FlagOK'
      BY <1>1, <2>1, <2>2, <2>4 DEF FlagOK, TasksOK
  <2>8. WakeOK'
      BY <1>1, <2>1, <2>4 DEF WakeOK
  <2> QED BY <2>2, <2>6, <2>7, <2>8 DEF PoolsInv
<1>3. CASE \E w \in Worker : Pools!Take(w)
  <2> PICK w \in Worker : Pools!Take(w)
      BY <1>3
  <2>1. /\ worker[w] = "test" /\ queue # <<>> /\ queue' = Tail(queue)
        /\ task' = [task EXCEPT ![w] = Head(queue)] /\ worker' = [worker EXCEPT ![w] = "run"]
        /\ UNCHANGED <<pool, stopping, owner, submitted, finished, owed>>
      BY DEF Pools!Take
  <2>2. QueueOK' /\ Queued = Queued' \cup {Head(queue)}
      BY <1>1, <2>1, TaskTaken
  <2>3. /\ worker' = [v \in Worker |-> worker'[v]] /\ worker'[w] = "run"
        /\ task' = [v \in Worker |-> task'[v]] /\ task'[w] = Head(queue)
        /\ \A v \in Worker : v # w => worker'[v] = worker[v] /\ task'[v] = task[v]
      BY <1>1, <2>1 DEF WorkersOK
  <2>4. Running' = Running \cup {Head(queue)}
    <3>1. Running \subseteq Running' /\ Head(queue) \in Running'
        BY <2>1, <2>3 DEF Running
    <3>2. Running' \subseteq Running \cup {Head(queue)}
        BY <2>3 DEF Running
    <3> QED BY <3>1, <3>2
  <2>5. WorkersOK' /\ TasksOK' /\ OwedOK'
      BY <1>1, <2>1, <2>2, <2>3, <2>4 DEF WorkersOK, TasksOK, OwedOK
  <2>6. FlagOK' /\ WakeOK'
      BY <1>1, <2>1, <2>2, <2>3 DEF FlagOK, WakeOK
  <2> QED BY <2>2, <2>5, <2>6 DEF PoolsInv
<1>4. CASE \E w \in Worker : Pools!Finish(w)
  <2> PICK w \in Worker : Pools!Finish(w)
      BY <1>4
  <2>1. PICK place \in {"count", "test"} : worker' = [worker EXCEPT ![w] = place]
      BY DEF Pools!Finish
  <2>2. /\ worker[w] = "run" /\ finished' = finished \cup {task[w]}
        /\ task' = [task EXCEPT ![w] = NoTask]
        /\ UNCHANGED <<pool, queue, stopping, owner, submitted, owed>>
      BY DEF Pools!Finish
  <2>3. /\ worker' = [v \in Worker |-> worker'[v]] /\ worker'[w] = place
        /\ task' = [v \in Worker |-> task'[v]]
        /\ \A v \in Worker : v # w => worker'[v] = worker[v] /\ task'[v] = task[v]
      BY <1>1, <2>1, <2>2 DEF WorkersOK
  <2>4. Running \subseteq Running' \cup {task[w]}
      BY <2>3 DEF Running
  <2>5. Queued' = Queued /\ QueueOK'
      BY <1>1, <2>2 DEF Queued, QueueOK
  <2>6. WorkersOK' /\ TasksOK' /\ OwedOK'
      BY <1>1, <2>2, <2>3, <2>4, <2>5 DEF WorkersOK, TasksOK, OwedOK
  <2>7. FlagOK' /\ WakeOK'
      BY <1>1, <2>2, <2>3, <2>5 DEF FlagOK, WakeOK
  <2> QED BY <2>5, <2>6, <2>7 DEF PoolsInv
<1>5. CASE \E w \in Worker : Pools!NotifyDrain(w)
  <2> PICK w \in Worker : Pools!NotifyDrain(w)
      BY <1>5
  <2>1. /\ worker[w] = "notify" /\ worker' = [worker EXCEPT ![w] = "test"]
        /\ UNCHANGED <<pool, task, queue, stopping, submitted, finished, owed>>
        /\ owner' = IF owner = "asleep" THEN "drain" ELSE owner
      BY DEF Pools!NotifyDrain
  <2>2. /\ worker' = [v \in Worker |-> worker'[v]] /\ worker'[w] = "test"
        /\ \A v \in Worker : v # w => worker'[v] = worker[v]
      BY <1>1, <2>1 DEF WorkersOK
  <2>3. Queued' = Queued /\ QueueOK' /\ Running' = Running
      BY <1>1, <2>1, <2>2 DEF Queued, QueueOK, Running
  <2>4. WorkersOK' /\ TasksOK' /\ OwedOK'
      BY <1>1, <2>1, <2>2, <2>3 DEF WorkersOK, TasksOK, OwedOK
  <2>5. FlagOK' /\ WakeOK'
      BY <1>1, <2>1, <2>2, <2>3 DEF FlagOK, WakeOK
  <2> QED BY <2>3, <2>4, <2>5 DEF PoolsInv
<1>6. CASE \E w \in Worker : \/ Pools!Leave(w) \/ Pools!FindsNothing(w)
                             \/ Pools!Block(w) \/ Pools!CountDown(w)
  <2> PICK w \in Worker : \/ Pools!Leave(w) \/ Pools!FindsNothing(w)
                          \/ Pools!Block(w) \/ Pools!CountDown(w)
      BY <1>6
  <2>1. \E place \in {"gone", "blocking", "asleep", "notify"} :
            /\ worker' = [worker EXCEPT ![w] = place] /\ worker[w] # "run"
            /\ UNCHANGED <<pool, task, queue, stopping, owner, submitted, finished, owed>>
            /\ place = "gone" => stopping /\ queue = <<>>
            /\ place = "blocking" => ~stopping
            /\ place = "asleep" => worker[w] = "blocking"
      BY DEF Pools!Leave, Pools!FindsNothing, Pools!Block, Pools!CountDown
  <2> QED BY <2>1, WorkerMoves
<1> QED
    BY <1>2, <1>3, <1>4, <1>5, <1>6 DEF Pools!WorkerStep

\* The drain's test: the queue is empty and nobody runs.
LEMMA DrainEnds ==
    ASSUME PoolsInv, Pools!Drained
    PROVE  submitted \subseteq finished
<1>1. PICK busy : busy = {w \in Worker : worker[w] \in {"run", "count"}}
    OBVIOUS
<1>2. Pools!Cardinality(busy) = 0 /\ queue = <<>>
    BY <1>1 DEF Pools!Drained, Pools!activeCount
<1>3. Cardinality(busy) = 0
    BY <1>2 DEF Pools!Cardinality, Cardinality
<1>4. busy \subseteq Worker
    BY <1>1
<1>5. IsFiniteSet(busy)
    BY <1>4, PoolsAssumption, FS_Subset
<1>6. busy = {}
    BY <1>3, <1>5, FS_EmptySet
<1>7. Running = {} /\ Queued = {}
    BY <1>1, <1>2, <1>6 DEF Running, Queued
<1> QED
    BY <1>7 DEF PoolsInv, TasksOK

\* What the owner does.
LEMMA OwnerStepKeeps ==
    ASSUME PoolsInv,
           \/ Pools!Drain \/ Pools!DrainTest \/ Pools!DrainBlock \/ Pools!DrainPoll
           \/ Pools!RequestStop \/ Pools!NotifyAll \/ Pools!Join \/ Pools!Resize \/ Pools!JoinTimesOut
    PROVE  PoolsInv'
<1>1. QueueOK /\ WorkersOK /\ TasksOK /\ FlagOK /\ WakeOK /\ OwedOK
    BY DEF PoolsInv
<1>2. Queued' = Queued \/ queue' # queue
    BY DEF Queued
<1>3. CASE Pools!Drain
  <2>1. /\ owner \in {"away", "drained"} /\ owner' = "drain" /\ owed' = submitted
        /\ UNCHANGED <<pool, worker, task, queue, stopping, submitted, finished>>
      BY <1>3 DEF Pools!Drain
  <2>2. FlagOK' /\ WakeOK' /\ OwedOK'
      BY <1>1, <2>1 DEF FlagOK, WakeOK, OwedOK
  <2> QED BY <2>1, <2>2, OwnerMoves
<1>4. CASE Pools!DrainTest \/ Pools!DrainBlock
  <2>1. /\ UNCHANGED <<pool, worker, task, queue, stopping, submitted, finished, owed>>
        /\ owner \in {"drain", "blocking"} /\ owner' \in {"drained", "blocking", "asleep"}
        /\ owner' = "drained" => Pools!Drained
      BY <1>4 DEF Pools!DrainTest, Pools!DrainBlock
  <2>2. owner' = "drained" => owed' \subseteq finished'
      BY <1>1, <2>1, DrainEnds DEF TasksOK
  <2>3. FlagOK' /\ WakeOK' /\ OwedOK'
      BY <1>1, <1>2, <2>1, <2>2 DEF FlagOK, WakeOK, OwedOK
  <2> QED BY <2>1, <2>3, OwnerMoves
<1>10. CASE Pools!DrainPoll
  <2>1. /\ UNCHANGED <<pool, worker, task, queue, stopping, submitted, finished, owed>>
        /\ pool = "thread" /\ queue = <<>> /\ owner = "drain" /\ owner' = "drained"
      BY <1>10 DEF Pools!DrainPoll, Pools!QueueEmpty
  <2>2. Queued = {} /\ Queued' = Queued /\ Running' = Running
      BY <2>1 DEF Queued, Running
  <2>3. owed \subseteq finished \cup Running
      BY <1>1, <2>2 DEF TasksOK
  <2>4. FlagOK' /\ WakeOK' /\ OwedOK'
      BY <1>1, <2>1, <2>2, <2>3 DEF FlagOK, WakeOK, OwedOK
  <2> QED BY <2>1, <2>4, OwnerMoves
<1>5. CASE Pools!RequestStop
  <2>1. /\ UNCHANGED <<pool, worker, task, queue, submitted, finished>>
        /\ owner \in {"away", "drained"} /\ owner' = "notify"
        /\ stopping' = TRUE /\ owed' = submitted
      BY <1>5 DEF Pools!RequestStop, Pools!SetFlag
  <2>2. pool \in {"thread", "logger"} => \A w \in Worker : worker[w] # "blocking"
      BY <1>5 DEF Pools!RequestStop, Pools!MutexFree
  <2>3. FlagOK' /\ WakeOK' /\ OwedOK'
      BY <1>1, <2>1, <2>2 DEF FlagOK, WakeOK, OwedOK
  <2> QED BY <2>1, <2>3, OwnerMoves
<1>6. CASE Pools!NotifyAll
  <2>1. /\ owner = "notify" /\ owner' = "join"
        /\ worker' = [w \in Worker |-> IF worker[w] = "asleep" THEN "test" ELSE worker[w]]
        /\ UNCHANGED <<pool, task, queue, stopping, submitted, finished, owed>>
      BY <1>6 DEF Pools!NotifyAll, Pools!Asleep
  <2>2. Running' = Running /\ Queued' = Queued /\ QueueOK' /\ WorkersOK'
      BY <1>1, <2>1 DEF Running, Queued, QueueOK, WorkersOK
  <2>3. TasksOK' /\ OwedOK'
      BY <1>1, <2>1, <2>2 DEF TasksOK, OwedOK
  <2>4. FlagOK' /\ WakeOK'
      BY <1>1, <2>1, <2>2 DEF FlagOK, WakeOK
  <2> QED BY <2>2, <2>3, <2>4 DEF PoolsInv
<1>7. CASE Pools!Join
  <2>1. /\ owner = "join" /\ owner' = "gone" /\ \A w \in Worker : worker[w] = "gone"
        /\ UNCHANGED <<pool, worker, task, queue, stopping, submitted, finished, owed>>
      BY <1>7 DEF Pools!Join
  <2>2. Running = {} /\ owed \cap Queued = {}
      BY <1>1, <2>1, PoolsAssumption DEF Running, FlagOK
  <2>3. owed \subseteq finished
      BY <1>1, <2>2 DEF TasksOK
  <2>4. FlagOK' /\ WakeOK' /\ OwedOK'
      BY <1>1, <1>2, <2>1, <2>3 DEF FlagOK, WakeOK, OwedOK
  <2> QED BY <2>1, <2>4, OwnerMoves
<1>8. CASE Pools!Resize
  <2>1. /\ owner = "join" /\ owner' = "away" /\ \A w \in Worker : worker[w] = "gone"
        /\ stopping' = FALSE /\ worker' = [w \in Worker |-> "test"] /\ pool = "worker"
        /\ UNCHANGED <<pool, task, queue, submitted, finished, owed>>
      BY <1>8 DEF Pools!Resize
  <2>2. Running = {} /\ Running' = {} /\ Queued' = Queued /\ QueueOK' /\ WorkersOK'
      BY <1>1, <2>1 DEF Running, Queued, QueueOK, WorkersOK
  <2>3. TasksOK' /\ OwedOK'
      BY <1>1, <2>1, <2>2 DEF TasksOK, OwedOK
  <2>4. FlagOK' /\ WakeOK'
      BY <1>1, <2>1 DEF FlagOK, WakeOK
  <2> QED BY <2>2, <2>3, <2>4 DEF PoolsInv
<1>9. CASE Pools!JoinTimesOut
  <2>1. /\ owner = "join" /\ owner' = "timed out"
        /\ UNCHANGED <<pool, worker, task, queue, stopping, submitted, finished, owed>>
      BY <1>9 DEF Pools!JoinTimesOut
  <2>2. FlagOK' /\ WakeOK' /\ OwedOK'
      BY <1>1, <1>2, <2>1 DEF FlagOK, WakeOK, OwedOK
  <2> QED BY <2>1, <2>2, OwnerMoves
<1> QED
    BY <1>3, <1>4, <1>5, <1>6, <1>7, <1>8, <1>9, <1>10

\* PoolsInv holds at the start and is kept.
LEMMA PoolsKept ==
    /\ Pools!Init => PoolsInv
    /\ PoolsInv /\ [Pools!Next]_(Pools!poolVars) => PoolsInv'
<1>1. ASSUME Pools!Init PROVE PoolsInv
  <2>1. /\ worker = [w \in Worker |-> "test"] /\ task = [w \in Worker |-> NoTask]
        /\ queue = <<>> /\ stopping = FALSE /\ owner = "away" /\ submitted = {} /\ owed = {}
      BY <1>1 DEF Pools!Init
  <2>2. QueueOK /\ WorkersOK /\ TasksOK
      BY <2>1 DEF QueueOK, WorkersOK, TasksOK
  <2>3. FlagOK /\ WakeOK /\ OwedOK
      BY <2>1 DEF FlagOK, WakeOK, OwedOK
  <2> QED BY <2>2, <2>3 DEF PoolsInv
<1>2. ASSUME PoolsInv, UNCHANGED Pools!poolVars PROVE PoolsInv'
  <2>1. UNCHANGED <<pool, worker, task, queue, stopping, owner, submitted, finished, owed>>
      BY <1>2 DEF Pools!poolVars
  <2>2. Queued' = Queued /\ Running' = Running
      BY <2>1 DEF Queued, Running
  <2>3. FlagOK' /\ WakeOK' /\ OwedOK'
      BY <1>2, <2>1, <2>2 DEF PoolsInv, FlagOK, WakeOK, OwedOK
  <2> QED BY <1>2, <2>1, <2>3, OwnerMoves
<1> QED
    BY <1>1, <1>2, WorkerStepKeeps, OwnerStepKeeps DEF Pools!Next

\* No step of the other units breaks it.
THEOREM PoolsInvariant == UnitsSpec => [](unit = "pools" => PoolsInv)
<1> DEFINE Inv == unit = "pools" => PoolsInv
<1>1. UnitsInit => Inv
    BY PoolsKept DEF UnitsInit, IdentityInit, AccountsInit, KeysInit, ConnectionsInit,
                     SubmitInit, LimiterInit, PowInit, RegistryInit, NetworkInit, PoolsInit,
                     EvmInit, PeersInit
<1>2. Inv /\ [UnitsNext]_<<unit, unitVars>> => Inv'
  <2> SUFFICES ASSUME Inv, [UnitsNext]_<<unit, unitVars>>, unit' = "pools" PROVE PoolsInv'
      OBVIOUS
  <2>1. unit = "pools" /\ [Pools!Next]_(Pools!poolVars)
      BY DEF UnitsNext, IdentityNext, AccountsNext, KeysNext, ConnectionsNext, SubmitNext,
             LimiterNext, PowNext, RegistryNext, NetworkNext, PoolsNext, EvmNext, PeersNext,
             unitVars, taskVars, Pools!poolVars
  <2> QED BY <2>1, PoolsKept
<1> QED
    BY <1>1, <1>2, PTL DEF UnitsSpec

\* However many workers, tasks and resizes there are: what was submitted
\* before a stop or network.cpp's drain began has run when it returns, before
\* ThreadPool's drain has run or is being run; and a stop that set its flag
\* under the mutex leaves nobody asleep.
THEOREM PoolsStopClean == UnitsSpec => []StopsClean
<1>1. (unit = "pools" => PoolsInv) => StopsClean
    BY DEF StopsClean, PoolsInv, WakeOK, OwedOK, Running, Pools!StopsClean,
           Pools!NothingLeftBehind, Pools!BeingRun, Pools!NoneLeftAsleep
<1> QED
    BY <1>1, PoolsInvariant, PTL

-----------------------------------------------------------------------------
(* The balances under a selfdestruct: MedorEvm                             *)

BalancesOK == balance \in [Address -> Nat]

HostOK ==
    /\ host = [up |-> host.up, error |-> host.error, warm |-> host.warm, logs |-> host.logs,
               step |-> host.step, from |-> host.from, to |-> host.to, sum |-> host.sum]
    /\ host.step \in {"idle", "credit", "clear"}

\* Between its two puts a selfdestruct has doubled what it moves; what it
\* read, the source's at least, is what it will put.
Unharmed == TotalOf(balance, Address) >= TotalOf(Funded, Address)
MovedTwice == TotalOf(balance, Address) >= TotalOf(Funded, Address) + balance[host.from]

MovingOK ==
    /\ host.step # "idle" => host.from \in Address /\ host.to \in Address
    /\ host.step = "credit" => host.sum \in Nat /\ host.sum >= balance[host.from]

EvmInv ==
    /\ BalancesOK /\ HostOK /\ MovingOK
    /\ ~burned => Unharmed
    /\ ~burned /\ host.step = "clear" /\ host.from # host.to => MovedTwice

\* A step that leaves the balances alone keeps it, when no selfdestruct is
\* under way after it or it has just read.
LEMMA BalancesAlone ==
    ASSUME EvmInv, UNCHANGED <<balance, burned>>, HostOK', MovingOK', host'.step # "clear"
    PROVE  EvmInv'
BY DEF EvmInv, BalancesOK, Unharmed

\* The two puts.
LEMMA BeneficiaryPut ==
    ASSUME EvmInv, host.step = "credit", balance' = [balance EXCEPT ![host.to] = host.sum],
           host' = [host EXCEPT !.step = "clear"],
           burned' = (\/ burned
                      \/ /\ host.from # host.to
                         /\ host.sum < balance[host.from] + balance[host.to])
    PROVE  EvmInv'
<1>1. PICK a, b, n, s, t, f :
          /\ a = host.from /\ b = host.to /\ n = host.sum /\ s = TotalOf(balance, Address)
          /\ t = TotalOf(balance', Address) /\ f = TotalOf(Funded, Address)
    OBVIOUS
<1>2. /\ a \in Address /\ b \in Address /\ n \in Nat /\ balance \in [Address -> Nat]
      /\ n >= balance[a]
    BY <1>1 DEF EvmInv, MovingOK, BalancesOK
<1>3. balance' \in [Address -> Nat] /\ balance'[b] = n
      /\ \A x \in Address \ {b} : balance'[x] = balance[x]
    BY <1>1, <1>2
<1>4. s \in Int /\ t = s - balance[b] + n
  <2>1. PICK old, new : old = balance /\ new = balance'
      OBVIOUS
  <2>2. /\ IsFiniteSet(Address) /\ \A x \in Address : old[x] \in Int
        /\ new[b] \in Int /\ \A x \in Address \ {b} : new[x] = old[x]
      BY <1>2, <1>3, <2>1, EvmAssumption
  <2>3. TotalOf(old, Address) \in Int
        /\ TotalOf(new, Address) = TotalOf(old, Address) - old[b] + new[b]
      BY <1>2, <2>2, TotalExcept
  <2> QED BY <1>1, <1>3, <2>1, <2>3
<1>5. f \in Int
  <2>1. IsFiniteSet(Address) /\ \A x \in Address : Funded[x] \in Int
      BY EvmAssumption
  <2> QED BY <1>1, <2>1, TotalWithout
<1>6. HostOK' /\ host'.step = "clear" /\ host'.from = a /\ host'.to = b
    BY <1>1 DEF EvmInv, HostOK, Evm!NoTransaction
<1>7. MovingOK' /\ BalancesOK'
    BY <1>2, <1>3, <1>6 DEF MovingOK, BalancesOK
<1>8. ASSUME ~burned' PROVE t >= f /\ (a # b => t >= f + balance'[a])
  <2>1. ~burned /\ s >= f /\ (a # b => n >= balance[a] + balance[b])
      BY <1>1, <1>2, <1>8 DEF EvmInv, Unharmed
  <2>2. a # b => balance'[a] = balance[a]
      BY <1>2, <1>3
  <2>3. balance[a] \in Nat /\ balance[b] \in Nat
      BY <1>2
  <2>4. CASE a = b
      BY <1>2, <1>4, <1>5, <2>1, <2>3, <2>4
  <2>5. CASE a # b
      BY <1>2, <1>4, <1>5, <2>1, <2>2, <2>3, <2>5
  <2> QED BY <2>4, <2>5
<1> QED
    BY <1>1, <1>6, <1>7, <1>8 DEF EvmInv, Unharmed, MovedTwice

LEMMA ZeroPut ==
    ASSUME EvmInv, host.step = "clear", balance' = [balance EXCEPT ![host.from] = 0],
           host' = [host EXCEPT !.step = "idle"], burned' = (burned \/ host.from = host.to)
    PROVE  EvmInv'
<1>1. PICK a, s, t, f :
          /\ a = host.from /\ s = TotalOf(balance, Address)
          /\ t = TotalOf(balance', Address) /\ f = TotalOf(Funded, Address)
    OBVIOUS
<1>2. a \in Address /\ balance \in [Address -> Nat]
    BY <1>1 DEF EvmInv, MovingOK, BalancesOK
<1>3. balance' \in [Address -> Nat] /\ balance'[a] = 0
      /\ \A x \in Address \ {a} : balance'[x] = balance[x]
    BY <1>1, <1>2
<1>4. s \in Int /\ t = s - balance[a]
  <2>1. PICK old, new : old = balance /\ new = balance'
      OBVIOUS
  <2>2. /\ IsFiniteSet(Address) /\ \A x \in Address : old[x] \in Int
        /\ new[a] \in Int /\ \A x \in Address \ {a} : new[x] = old[x]
      BY <1>2, <1>3, <2>1, EvmAssumption
  <2>3. TotalOf(old, Address) \in Int
        /\ TotalOf(new, Address) = TotalOf(old, Address) - old[a] + new[a]
      BY <1>2, <2>2, TotalExcept
  <2>4. s \in Int /\ t = s - balance[a] + balance'[a]
      BY <1>1, <2>1, <2>3
  <2>5. balance[a] \in Int
      BY <1>2
  <2> QED BY <1>3, <2>4, <2>5
<1>5. f \in Int
  <2>1. IsFiniteSet(Address) /\ \A x \in Address : Funded[x] \in Int
      BY EvmAssumption
  <2> QED BY <1>1, <2>1, TotalWithout
<1>6. HostOK' /\ host'.step = "idle"
    BY DEF EvmInv, HostOK, Evm!NoTransaction
<1>7. MovingOK' /\ BalancesOK'
    BY <1>3, <1>6 DEF MovingOK, BalancesOK
<1>8. ASSUME ~burned' PROVE t >= f
  <2>1. s >= f + balance[a]
      BY <1>1, <1>8 DEF EvmInv, MovedTwice
  <2>2. balance[a] \in Nat
      BY <1>2
  <2> QED BY <1>4, <1>5, <2>1, <2>2
<1> QED
    BY <1>1, <1>6, <1>7, <1>8 DEF EvmInv, Unharmed

\* The steps that read and write something else, and those that end a
\* selfdestruct by a failing put or a crash.
LEMMA OtherSteps ==
    ASSUME EvmInv, UNCHANGED <<balance, burned>>, HostOK',
           host'.step = "idle" \/ UNCHANGED host
    PROVE  EvmInv'
<1>1. CASE host'.step = "idle"
    BY <1>1, BalancesAlone DEF MovingOK
<1>2. CASE UNCHANGED host
    BY <1>2 DEF EvmInv, BalancesOK, HostOK, MovingOK, Unharmed, MovedTwice
<1> QED
    BY <1>1, <1>2

\* EvmInv holds at the start and is kept.
LEMMA EvmKept ==
    /\ Evm!Init => EvmInv
    /\ EvmInv /\ [Evm!Next]_(Evm!evmVars) => EvmInv'
<1>1. ASSUME Evm!Init PROVE EvmInv
  <2>1. /\ balance = Funded /\ host = Evm!NoTransaction /\ host.step = "idle"
        /\ BalancesOK
      BY <1>1, EvmAssumption DEF Evm!Init, Evm!NoTransaction, BalancesOK
  <2>2. HostOK
      BY <2>1 DEF HostOK, Evm!NoTransaction
  <2>3. TotalOf(Funded, Address) \in Int
    <3>1. IsFiniteSet(Address) /\ \A x \in Address : Funded[x] \in Int
        BY EvmAssumption
    <3> QED BY <3>1, TotalWithout
  <2> QED BY <2>1, <2>2, <2>3 DEF EvmInv, MovingOK, Unharmed
<1> SUFFICES ASSUME EvmInv, [Evm!Next]_(Evm!evmVars) PROVE EvmInv'
    BY <1>1
<1>2. HostOK
    BY DEF EvmInv
<1>3. CASE UNCHANGED Evm!evmVars
  <2>1. UNCHANGED <<balance, host, burned>>
      BY <1>3 DEF Evm!evmVars
  <2>2. HostOK'
      BY <1>2, <2>1 DEF HostOK
  <2> QED BY <2>1, <2>2, OtherSteps
<1>4. CASE Evm!InitSchemaVersion \/ Evm!BeginTransaction \/ Evm!Crash
  <2>1. /\ UNCHANGED <<balance, burned>>
        /\ \/ host' = [Evm!NoTransaction EXCEPT !.up = TRUE]
           \/ host' = Evm!NoTransaction
      BY <1>4 DEF Evm!InitSchemaVersion, Evm!BeginTransaction, Evm!Crash
  <2>2. HostOK' /\ host'.step = "idle"
      BY <2>1 DEF HostOK, Evm!NoTransaction
  <2> QED BY <2>1, <2>2, OtherSteps
<1>5. ASSUME NEW a, Evm!AccessAccount(a) PROVE EvmInv'
  <2>1. /\ UNCHANGED <<balance, burned>> /\ host.step = "idle"
        /\ host' = [host EXCEPT !.warm = @ \union {a}]
      BY <1>5 DEF Evm!AccessAccount, Evm!Idle
  <2>2. HostOK' /\ host'.step = "idle"
      BY <1>2, <2>1 DEF HostOK, Evm!NoTransaction
  <2> QED BY <2>1, <2>2, OtherSteps
<1>6. ASSUME NEW a, NEW k, Evm!GetStorage(a, k) PROVE EvmInv'
  <2>1. /\ UNCHANGED <<balance, burned>> /\ host.step = "idle"
        /\ host' = [host EXCEPT !.warm = @ \union {<<a, k>>}]
      BY <1>6 DEF Evm!GetStorage, Evm!Idle
  <2>2. HostOK' /\ host'.step = "idle"
      BY <1>2, <2>1 DEF HostOK, Evm!NoTransaction
  <2> QED BY <2>1, <2>2, OtherSteps
<1>7. ASSUME NEW a, NEW k, NEW v, Evm!SetStorage(a, k, v) PROVE EvmInv'
  <2>1. /\ UNCHANGED <<balance, burned>> /\ host.step = "idle"
        /\ \/ host' = [host EXCEPT !.warm = @ \union {<<a, k>>}]
           \/ host' = [host EXCEPT !.warm = @ \union {<<a, k>>}, !.error = TRUE]
      BY <1>7 DEF Evm!SetStorage, Evm!Idle
  <2>2. HostOK' /\ host'.step = "idle"
      BY <1>2, <2>1 DEF HostOK, Evm!NoTransaction
  <2> QED BY <2>1, <2>2, OtherSteps
<1>8. CASE Evm!EmitLog
  <2>1. /\ UNCHANGED <<balance, burned>> /\ host.step = "idle"
        /\ host' = [host EXCEPT !.logs = @ + 1]
      BY <1>8 DEF Evm!EmitLog, Evm!Idle
  <2>2. HostOK' /\ host'.step = "idle"
      BY <1>2, <2>1 DEF HostOK, Evm!NoTransaction
  <2> QED BY <2>1, <2>2, OtherSteps
<1>9. ASSUME NEW a, NEW k, NEW v,
             \/ Evm!PutContractCode(a) \/ Evm!DeleteContractStorage(a, k)
             \/ Evm!PutContractStorageBatch(a, v)
      PROVE  EvmInv'
  <2>1. UNCHANGED <<balance, host, burned>>
      BY <1>9 DEF Evm!PutContractCode, Evm!DeleteContractStorage, Evm!PutContractStorageBatch
  <2>2. HostOK'
      BY <1>2, <2>1 DEF HostOK
  <2> QED BY <2>1, <2>2, OtherSteps
<1>10. ASSUME NEW a \in Address, NEW b \in Address, Evm!Selfdestruct(a, b) PROVE EvmInv'
  <2>1. PICK n : /\ n = balance[a] + balance[b] \/ n = balance[a]
                 /\ host' = [host EXCEPT !.step = "credit", !.from = a, !.to = b, !.sum = n]
                 /\ UNCHANGED <<balance, burned>>
      BY <1>10 DEF Evm!Selfdestruct
  <2>2. balance[a] \in Nat /\ balance[b] \in Nat
      BY DEF EvmInv, BalancesOK
  <2>3. n \in Nat /\ n >= balance[a]
      BY <2>1, <2>2
  <2>4. /\ HostOK' /\ host'.step = "credit" /\ host'.from = a /\ host'.to = b
        /\ host'.sum = n
      BY <1>2, <2>1 DEF HostOK, Evm!NoTransaction
  <2>5. MovingOK'
      BY <2>1, <2>3, <2>4 DEF MovingOK
  <2> QED BY <2>1, <2>4, <2>5, BalancesAlone
<1>11. CASE Evm!Transfer
  <2>1. ASSUME Evm!Fails PROVE EvmInv'
    <3>1. /\ UNCHANGED <<balance, burned>>
          /\ host' = [host EXCEPT !.step = "idle", !.error = TRUE]
        BY <2>1 DEF Evm!Fails
    <3>2. HostOK' /\ host'.step = "idle"
        BY <1>2, <3>1 DEF HostOK, Evm!NoTransaction
    <3> QED BY <3>1, <3>2, OtherSteps
  <2>2. CASE Evm!PutBeneficiary
      BY <2>1, <2>2, BeneficiaryPut DEF Evm!PutBeneficiary
  <2>3. CASE Evm!PutZero
      BY <2>1, <2>3, ZeroPut DEF Evm!PutZero
  <2> QED BY <1>11, <2>2, <2>3 DEF Evm!Transfer
<1> QED
    BY <1>3, <1>4, <1>5, <1>6, <1>7, <1>8, <1>9, <1>10, <1>11 DEF Evm!Next

\* No step of the other units breaks it.
THEOREM EvmInvariant == UnitsSpec => [](unit = "evm" => EvmInv)
<1> DEFINE Inv == unit = "evm" => EvmInv
<1>1. UnitsInit => Inv
    BY EvmKept DEF UnitsInit, IdentityInit, AccountsInit, KeysInit, ConnectionsInit,
                   SubmitInit, LimiterInit, PowInit, RegistryInit, NetworkInit, PoolsInit,
                   EvmInit, PeersInit
<1>2. Inv /\ [UnitsNext]_<<unit, unitVars>> => Inv'
  <2> SUFFICES ASSUME Inv, [UnitsNext]_<<unit, unitVars>>, unit' = "evm" PROVE EvmInv'
      OBVIOUS
  <2>1. unit = "evm" /\ [Evm!Next]_(Evm!evmVars)
      BY DEF UnitsNext, IdentityNext, AccountsNext, KeysNext, ConnectionsNext, SubmitNext,
             LimiterNext, PowNext, RegistryNext, NetworkNext, PoolsNext, EvmNext, PeersNext,
             unitVars, contractVars, recordVars, Evm!evmVars
  <2> QED BY <2>1, EvmKept
<1> QED
    BY <1>1, <1>2, PTL DEF UnitsSpec

\* However a selfdestruct is cut short, for any addresses and balances, no
\* money disappears but that of a contract that names itself and of a
\* beneficiary whose record could not be read.
THEOREM NeverLosesMoney == UnitsSpec => []NeverLost
<1>1. Evm!Total(balance) = TotalOf(balance, Address)
    BY DEF Evm!Total, TotalOf, Evm!MapThenSumSet, MapThenSumSet, Evm!MapThenFoldSet,
           MapThenFoldSet
<1>2. Evm!Total(Funded) = TotalOf(Funded, Address)
    BY DEF Evm!Total, TotalOf, Evm!MapThenSumSet, MapThenSumSet, Evm!MapThenFoldSet,
           MapThenFoldSet
<1>3. (unit = "evm" => EvmInv) => NeverLost
    BY <1>1, <1>2 DEF NeverLost, Evm!NeverLost, EvmInv, Unharmed
<1> QED
    BY <1>3, EvmInvariant, PTL

-----------------------------------------------------------------------------
(* Sockets in a bucket: MedorConnectionPool                                *)

\* The entries of a list of length L, each different; one of them left out.
Entries(s, L) == {s[i] : i \in 1..L}
Different(s, L) == \A i, j \in 1..L : i # j => s[i] # s[j]
Without(t, s, k, L) ==
    /\ \A i \in 1..(L - 1) : i < k => t[i] = s[i]
    /\ \A i \in 1..(L - 1) : i >= k => t[i] = s[i + 1]

Held == Entries(slots, Len(slots))

\* The places where a request has a socket, and those where it has none.
Holding == {"has", "pending", "tls", "release", "stray"}
Seeking == {"away", "scan", "async", "budget", "dns", "open", "resolve"}

ClientsOK ==
    /\ client = [c \in PoolClient |-> [at |-> client[c].at, fd |-> client[c].fd]]
    /\ \A c \in PoolClient : \/ client[c].at \in Seeking /\ client[c].fd = NoFd
                             \/ client[c].at \in Holding /\ client[c].fd \in open

\* A bucket: a sequence of different sockets.
SlotsOK == slots \in Seq(Fd) /\ Different(slots, Len(slots))

\* No socket is in two places, and those in one are open.
Apart ==
    /\ \A c, d \in PoolClient : c # d /\ client[c].fd # NoFd => client[c].fd # client[d].fd
    /\ \A c \in PoolClient : client[c].fd \notin Held \cup strayed
    /\ Held \cap strayed = {}
    /\ Held \cup strayed \subseteq open /\ open \subseteq Fd

ConnectionsInv == ClientsOK /\ SlotsOK /\ Apart

\* A list without its entry k has the other entries.
LEMMA EntriesWithout ==
    ASSUME NEW L \in Nat, NEW k \in 1..L, NEW s, NEW t, Different(s, L), Without(t, s, k, L)
    PROVE  Different(t, L - 1) /\ Entries(t, L - 1) = Entries(s, L) \ {s[k]}
<1> DEFINE from(i) == IF i < k THEN i ELSE i + 1
<1>1. ASSUME NEW i \in 1..(L - 1)
      PROVE  from(i) \in 1..L /\ from(i) # k /\ t[i] = s[from(i)]
    BY DEF Without
<1>2. ASSUME NEW i \in 1..(L - 1), NEW j \in 1..(L - 1), i # j PROVE from(i) # from(j)
    BY <1>2
<1> HIDE DEF from
<1>3. Different(t, L - 1)
    BY <1>1, <1>2 DEF Different
<1>4. ASSUME NEW i \in 1..(L - 1) PROVE t[i] \in Entries(s, L) \ {s[k]}
    BY <1>1, <1>4 DEF Entries, Different
<1>5. ASSUME NEW n \in 1..L, n # k PROVE s[n] \in Entries(t, L - 1)
  <2>1. CASE n < k
    <3>1. n \in 1..(L - 1)
        BY <2>1
    <3> QED BY <2>1, <3>1 DEF Without, Entries
  <2>2. CASE n > k
    <3>1. PICK i : i = n - 1
        OBVIOUS
    <3>2. i \in 1..(L - 1) /\ i >= k /\ i + 1 = n
        BY <2>2, <3>1
    <3>3. t[i] = s[n]
        BY <3>2 DEF Without
    <3> QED BY <3>2, <3>3 DEF Entries
  <2> QED BY <1>5, <2>1, <2>2
<1>6. Entries(t, L - 1) = Entries(s, L) \ {s[k]}
  <2>1. Entries(t, L - 1) \subseteq Entries(s, L) \ {s[k]}
      BY <1>4, Zenon DEF Entries
  <2>2. Entries(s, L) \ {s[k]} \subseteq Entries(t, L - 1)
      BY <1>5, Zenon DEF Entries
  <2> QED BY <2>1, <2>2
<1> QED
    BY <1>3, <1>6

\* The bucket without its oldest slot.
LEMMA OldestTaken ==
    ASSUME NEW s, s \in Seq(Fd), s # <<>>, Different(s, Len(s))
    PROVE  /\ Tail(s) \in Seq(Fd) /\ Different(Tail(s), Len(Tail(s)))
           /\ Head(s) \in Fd /\ Head(s) \in Entries(s, Len(s))
           /\ Entries(Tail(s), Len(Tail(s))) = Entries(s, Len(s)) \ {Head(s)}
<1>1. PICK t, L : t = Tail(s) /\ L = Len(s)
    OBVIOUS
<1>2. /\ t \in Seq(Fd) /\ L \in Nat /\ 1 \in 1..L /\ Len(t) = L - 1
      /\ Head(s) = s[1] /\ s[1] \in Fd
      /\ \A i \in 1..(L - 1) : t[i] = s[i + 1]
    BY <1>1
<1>3. Without(t, s, 1, L)
    BY <1>2 DEF Without
<1>4. Different(t, L - 1) /\ Entries(t, L - 1) = Entries(s, L) \ {s[1]}
    BY <1>1, <1>2, <1>3, EntriesWithout
<1>5. s[1] \in Entries(s, L)
    BY <1>2 DEF Entries
<1> QED
    BY <1>1, <1>2, <1>4, <1>5

\* The bucket with one slot more.
LEMMA SlotAdded ==
    ASSUME NEW s, s \in Seq(Fd), Different(s, Len(s)), NEW fd \in Fd,
           fd \notin Entries(s, Len(s)), NEW t, t = Append(s, fd)
    PROVE  /\ t \in Seq(Fd) /\ Different(t, Len(t))
           /\ Entries(t, Len(t)) = Entries(s, Len(s)) \cup {fd}
<1>1. PICK L, M : L = Len(s) /\ M = Len(t)
    OBVIOUS
<1>2. /\ t \in Seq(Fd) /\ L \in Nat /\ M = L + 1
      /\ \A i \in 1..L : t[i] = s[i]
      /\ t[M] = fd
    BY <1>1
<1>3. /\ \A i \in 1..M : i = M \/ i \in 1..L
      /\ M \in 1..M /\ \A i \in 1..L : i \in 1..M /\ i # M
    BY <1>2
<1>4. Different(s, L) /\ fd \notin Entries(s, L)
    BY <1>1
<1>5. Different(t, M)
    BY <1>2, <1>3, <1>4 DEF Different, Entries
<1>6. Entries(t, M) = Entries(s, L) \cup {fd}
    BY <1>2, <1>3 DEF Entries
<1> QED
    BY <1>1, <1>2, <1>5, <1>6

\* Two lists, one behind the other.
LEMMA Joined ==
    ASSUME NEW S, NEW u, u \in Seq(S), NEW v, v \in Seq(S), NEW t, t = u \o v
    PROVE  /\ t \in Seq(S) /\ Len(t) = Len(u) + Len(v)
           /\ \A i \in 1..Len(u) : t[i] = u[i]
           /\ \A i \in (Len(u) + 1)..(Len(u) + Len(v)) : t[i] = v[i - Len(u)]
OBVIOUS

\* The bucket without slot k.
Erased(s, k) == SubSeq(s, 1, k - 1) \o SubSeq(s, k + 1, Len(s))

LEMMA SlotErased ==
    ASSUME NEW s, s \in Seq(Fd), Different(s, Len(s)), NEW k \in 1..Len(s),
           NEW t, t = Erased(s, k)
    PROVE  /\ t \in Seq(Fd) /\ Different(t, Len(t))
           /\ Entries(t, Len(t)) = Entries(s, Len(s)) \ {s[k]}
<1>1. PICK u, v : u = SubSeq(s, 1, k - 1) /\ v = SubSeq(s, k + 1, Len(s)) /\ t = u \o v
    BY DEF Erased
<1>2. Len(s) \in Nat /\ k \in 1..Len(s) /\ k - 1 <= Len(s)
    OBVIOUS
<1>3. /\ u \in Seq(Fd) /\ Len(u) = k - 1 /\ \A i \in 1..(k - 1) : u[i] = s[i]
    BY <1>1, <1>2
<1>4. /\ v \in Seq(Fd) /\ Len(v) = Len(s) - k /\ \A i \in 1..(Len(s) - k) : v[i] = s[k + i]
    BY <1>1, <1>2
<1>5. PICK L : L = Len(s)
    OBVIOUS
<1>6. t = u \o v
    BY <1>1
<1>7. /\ t \in Seq(Fd) /\ Len(t) = Len(u) + Len(v)
      /\ \A i \in 1..Len(u) : t[i] = u[i]
      /\ \A i \in (Len(u) + 1)..(Len(u) + Len(v)) : t[i] = v[i - Len(u)]
  <2>1. u \in Seq(Fd) /\ v \in Seq(Fd)
      BY <1>3, <1>4
  <2> QED BY <1>6, <2>1, Joined
<1>8. /\ Len(t) = L - 1
      /\ \A i \in 1..(k - 1) : t[i] = u[i]
      /\ \A i \in k..(L - 1) : t[i] = v[i - (k - 1)]
    BY <1>2, <1>3, <1>4, <1>5, <1>7
<1>9. Without(t, s, k, L)
  <2>1. ASSUME NEW i \in 1..(L - 1), i < k PROVE t[i] = s[i]
    <3>1. i \in 1..(k - 1)
        BY <1>2, <2>1
    <3> QED BY <1>3, <1>8, <3>1
  <2>2. ASSUME NEW i \in 1..(L - 1), i >= k PROVE t[i] = s[i + 1]
    <3>1. PICK n : n = i - (k - 1)
        OBVIOUS
    <3>2. n \in 1..(L - k) /\ k + n = i + 1 /\ i \in k..(L - 1)
        BY <1>2, <1>5, <2>2, <3>1
    <3>3. t[i] = v[n] /\ v[n] = s[k + n]
        BY <1>4, <1>5, <1>8, <3>1, <3>2
    <3> QED BY <3>2, <3>3
  <2> QED BY <2>1, <2>2 DEF Without
<1>10. Different(t, L - 1) /\ Entries(t, L - 1) = Entries(s, L) \ {s[k]}
    BY <1>2, <1>5, <1>9, EntriesWithout
<1> QED
    BY <1>5, <1>7, <1>8, <1>10

\* A request goes to its next place.
LEMMA ClientMoves ==
    ASSUME ClientsOK, NEW c \in PoolClient, NEW place, NEW fd, Connections!Move(c, place, fd)
    PROVE  /\ client' = [d \in PoolClient |-> [at |-> client'[d].at, fd |-> client'[d].fd]]
           /\ client'[c].at = place /\ client'[c].fd = fd
           /\ \A d \in PoolClient : d # c => client'[d] = client[d]
BY DEF ClientsOK, Connections!Move

\* What a step of one client comes to: where its request goes and what it has
\* there, and that nobody else's socket is in the bucket or closed.
LEMMA StepKeeps ==
    ASSUME ConnectionsInv, NEW c \in PoolClient, NEW place, NEW fd,
           Connections!Move(c, place, fd), SlotsOK',
           \/ place \in Seeking /\ fd = NoFd
           \/ /\ place \in Holding /\ fd \in open' /\ fd \notin Held' \cup strayed'
              /\ \A d \in PoolClient \ {c} : client[d].fd # fd,
           \A d \in PoolClient \ {c} : /\ client[d].fd \notin Held' \cup strayed'
                                       /\ client[d].fd \in open' \cup {NoFd},
           Held' \cap strayed' = {}, Held' \cup strayed' \subseteq open', open' \subseteq Fd
    PROVE  ConnectionsInv'
<1>1. /\ client' = [d \in PoolClient |-> [at |-> client'[d].at, fd |-> client'[d].fd]]
      /\ client'[c].at = place /\ client'[c].fd = fd
      /\ \A d \in PoolClient \ {c} : client'[d] = client[d]
    BY ClientMoves DEF ConnectionsInv
<1>2. /\ \A d \in PoolClient : \/ client[d].at \in Seeking /\ client[d].fd = NoFd
                               \/ client[d].at \in Holding /\ client[d].fd \in open
      /\ open \subseteq Fd
      /\ \A d, e \in PoolClient : d # e /\ client[d].fd # NoFd => client[d].fd # client[e].fd
    BY DEF ConnectionsInv, ClientsOK, Apart
<1>3. ClientsOK'
    BY ConnectionsAssumption, <1>1, <1>2 DEF ClientsOK
<1>4. Apart'
    BY ConnectionsAssumption, <1>1, <1>2 DEF Apart
<1> QED
    BY <1>3, <1>4 DEF ConnectionsInv

\* A request without a socket goes on without one.
LEMMA SeekerMoves ==
    ASSUME ConnectionsInv, NEW c \in PoolClient, NEW place \in Seeking,
           Connections!Move(c, place, NoFd),
           UNCHANGED <<slots, strayed, open>>
    PROVE  ConnectionsInv'
<1>1. Held' = Held /\ SlotsOK'
    BY DEF ConnectionsInv, SlotsOK, Held
<1> QED
    BY <1>1, StepKeeps DEF ConnectionsInv, ClientsOK, Apart

\* A request that has a socket takes it along.
LEMMA HolderMoves ==
    ASSUME ConnectionsInv, NEW c \in PoolClient, client[c].fd \in Fd,
           NEW place \in Holding, Connections!Move(c, place, client[c].fd),
           UNCHANGED <<slots, strayed, open>>
    PROVE  ConnectionsInv'
<1>1. Held' = Held /\ SlotsOK'
    BY DEF ConnectionsInv, SlotsOK, Held
<1>2. PICK fd : fd = client[c].fd
    OBVIOUS
<1>3. fd \in open /\ fd \notin Held \cup strayed /\ \A d \in PoolClient \ {c} : client[d].fd # fd
    BY ConnectionsAssumption, <1>2 DEF ConnectionsInv, ClientsOK, Apart
<1> QED
    BY <1>1, <1>2, <1>3, StepKeeps DEF ConnectionsInv, ClientsOK, Apart

\* A request gets a new socket.
LEMMA SocketOpened ==
    ASSUME ConnectionsInv, NEW c \in PoolClient, NEW fd \in Fd \ open,
           NEW place \in Holding, Connections!Move(c, place, fd),
           open' = open \cup {fd}, UNCHANGED <<slots, strayed>>
    PROVE  ConnectionsInv'
<1>1. Held' = Held /\ SlotsOK'
    BY DEF ConnectionsInv, SlotsOK, Held
<1>2. fd \notin Held \cup strayed /\ \A d \in PoolClient \ {c} : client[d].fd # fd
    BY ConnectionsAssumption DEF ConnectionsInv, ClientsOK, Apart
<1> QED
    BY <1>1, <1>2, StepKeeps DEF ConnectionsInv, ClientsOK, Apart

\* A request gives up its socket, which is closed.
LEMMA SocketClosed ==
    ASSUME ConnectionsInv, NEW c \in PoolClient, client[c].fd \in Fd,
           Connections!Move(c, "away", NoFd),
           open' = open \ {client[c].fd}, UNCHANGED <<slots, strayed>>
    PROVE  ConnectionsInv'
<1>1. Held' = Held /\ SlotsOK' /\ "away" \in Seeking
    BY DEF ConnectionsInv, SlotsOK, Held, Seeking
<1>2. PICK fd : fd = client[c].fd /\ fd # NoFd
    BY ConnectionsAssumption
<1>3. fd \notin Held \cup strayed /\ \A d \in PoolClient \ {c} : client[d].fd # fd
    BY <1>2 DEF ConnectionsInv, ClientsOK, Apart
<1> QED
    BY <1>1, <1>2, <1>3, StepKeeps DEF ConnectionsInv, ClientsOK, Apart

\* The bucket is emptied, and what was in it closed.
LEMMA BucketEmptied ==
    ASSUME ConnectionsInv, Connections!Emptied, UNCHANGED strayed,
           UNCHANGED client \/ Connections!Stray
    PROVE  ConnectionsInv'
<1>1. DOMAIN slots = 1..Len(slots) /\ slots' = <<>> /\ Len(slots) \in Nat
    BY DEF ConnectionsInv, SlotsOK, Connections!Emptied
<1>2. open' = open \ Held
    BY <1>1 DEF Connections!Emptied, Held, Entries
<1>3. Held' = {} /\ SlotsOK'
    BY <1>1 DEF Held, Entries, SlotsOK, Different
<1>4. /\ client' = [c \in PoolClient |-> [at |-> client'[c].at, fd |-> client'[c].fd]]
      /\ \A c \in PoolClient : /\ client'[c].fd = client[c].fd
                               /\ \/ client'[c].at = client[c].at
                                  \/ client'[c].at = "stray" /\ client[c].at = "release"
    BY DEF ConnectionsInv, ClientsOK, Connections!Stray, Connections!At
<1> QED
    BY <1>2, <1>3, <1>4 DEF ConnectionsInv, ClientsOK, Apart, Seeking, Holding

\* Where a request has a socket it is open.
LEMMA HolderHas ==
    ASSUME ConnectionsInv, NEW c \in PoolClient, client[c].at \in Holding
    PROVE  client[c].fd \in open /\ client[c].fd \in Fd
BY DEF ConnectionsInv, ClientsOK, Apart, Holding, Seeking

\* The oldest slot is handed to a request, or closed.
LEMMA SlotTaken ==
    ASSUME ConnectionsInv, slots # <<>>, slots' = Tail(slots), UNCHANGED strayed,
           \/ \E c \in PoolClient : Connections!Move(c, "has", Head(slots)) /\ UNCHANGED open
           \/ UNCHANGED client /\ open' = open \ {Head(slots)}
    PROVE  ConnectionsInv'
<1>1. PICK fd : fd = Head(slots)
    OBVIOUS
<1>2. /\ SlotsOK' /\ fd \in Fd /\ fd \in Held /\ Held' = Held \ {fd}
    BY <1>1, OldestTaken DEF ConnectionsInv, SlotsOK, Held
<1>3. \A d \in PoolClient : client[d].fd # fd /\ client[d].fd \notin Held'
    BY <1>2 DEF ConnectionsInv, Apart
<1>4. ASSUME NEW c \in PoolClient, Connections!Move(c, "has", Head(slots)), UNCHANGED open
      PROVE  ConnectionsInv'
  <2>1. "has" \in Holding
      BY DEF Holding
  <2> QED
      BY <1>1, <1>2, <1>3, <1>4, <2>1, StepKeeps DEF ConnectionsInv, ClientsOK, Apart
<1>5. CASE UNCHANGED client /\ open' = open \ {Head(slots)}
    BY <1>1, <1>2, <1>3, <1>5 DEF ConnectionsInv, ClientsOK, Apart
<1> QED
    BY <1>4, <1>5

\* A socket comes back to the bucket.
LEMMA SlotReturned ==
    ASSUME ConnectionsInv, NEW c \in PoolClient, client[c].at = "release",
           Connections!Move(c, "away", NoFd),
           slots' = Append(slots, client[c].fd), UNCHANGED <<strayed, open>>
    PROVE  ConnectionsInv'
<1>1. PICK fd : fd = client[c].fd /\ fd \in open /\ fd \in Fd
    BY HolderHas DEF Holding
<1>2. fd \notin Held \cup strayed /\ fd # NoFd /\ \A d \in PoolClient \ {c} : client[d].fd # fd
    BY ConnectionsAssumption, <1>1 DEF ConnectionsInv, Apart
<1>3. SlotsOK' /\ Held' = Held \cup {fd}
    BY <1>1, <1>2, SlotAdded DEF ConnectionsInv, SlotsOK, Held
<1>4. "away" \in Seeking
    BY DEF Seeking
<1> QED
    BY <1>1, <1>2, <1>3, <1>4, StepKeeps DEF ConnectionsInv, ClientsOK, Apart

\* A socket comes back to a bucket nobody finds any more.
LEMMA SlotStrays ==
    ASSUME ConnectionsInv, NEW c \in PoolClient, client[c].at = "stray",
           Connections!Move(c, "away", NoFd),
           strayed' = strayed \cup {client[c].fd}, UNCHANGED <<slots, open>>
    PROVE  ConnectionsInv'
<1>1. PICK fd : fd = client[c].fd /\ fd \in open /\ fd \in Fd
    BY HolderHas DEF Holding
<1>2. fd \notin Held \cup strayed /\ fd # NoFd /\ \A d \in PoolClient \ {c} : client[d].fd # fd
    BY ConnectionsAssumption, <1>1 DEF ConnectionsInv, Apart
<1>3. SlotsOK' /\ Held' = Held /\ "away" \in Seeking
    BY DEF ConnectionsInv, SlotsOK, Held, Seeking
<1> QED
    BY <1>1, <1>2, <1>3, StepKeeps DEF ConnectionsInv, ClientsOK, Apart

\* The janitor closes a slot.
LEMMA JanitorStep ==
    ASSUME ConnectionsInv, Connections!Janitor
    PROVE  ConnectionsInv'
<1>1. PICK k \in DOMAIN slots : /\ slots' = Erased(slots, k) /\ open' = open \ {slots[k]}
                                /\ UNCHANGED <<client, strayed>>
    BY DEF Connections!Janitor, Connections!Close, Erased
<1>2. k \in 1..Len(slots)
    BY <1>1 DEF ConnectionsInv, SlotsOK
<1>3. slots[k] \in Held
    BY <1>2 DEF Held, Entries
<1>4. SlotsOK' /\ Held' = Held \ {slots[k]}
    BY <1>1, <1>2, SlotErased DEF ConnectionsInv, SlotsOK, Held
<1> QED
    BY <1>1, <1>3, <1>4 DEF ConnectionsInv, ClientsOK, Apart

\* Each step of a request.
LEMMA ClientStepKeeps ==
    ASSUME ConnectionsInv, NEW c \in PoolClient, Connections!ClientStep(c)
    PROVE  ConnectionsInv'
<1> USE DEF Connections!At, Connections!Close
<1>1. CASE Connections!Acquire(c)
    BY <1>1, SeekerMoves DEF Connections!Acquire, Seeking
<1>2. CASE Connections!AcquireAsync(c)
    BY <1>2, SeekerMoves DEF Connections!AcquireAsync, Seeking
<1>3. CASE Connections!ScanFinds(c)
    BY <1>3, SlotTaken DEF Connections!ScanFinds, Connections!OtherSlots
<1>4. CASE Connections!ScanCloses(c)
    BY <1>4, SlotTaken DEF Connections!ScanCloses
<1>5. CASE Connections!ScanFails(c)
    BY <1>5, SeekerMoves DEF Connections!ScanFails, Seeking
<1>6. CASE Connections!Budget(c)
  <2>1. PICK place \in Seeking : /\ Connections!Move(c, place, NoFd)
                                /\ UNCHANGED <<slots, strayed, open>>
      BY <1>6 DEF Connections!Budget, Seeking
  <2> QED BY <2>1, SeekerMoves
<1>7. CASE Connections!OpenBlocking(c)
    BY <1>7, SeekerMoves, SocketOpened DEF Connections!OpenBlocking, Seeking, Holding
<1>8. CASE Connections!NoSuchHost(c)
    BY <1>8, SeekerMoves DEF Connections!NoSuchHost, Seeking
<1>9. CASE Connections!StartConnect(c)
    BY <1>9, SocketOpened DEF Connections!StartConnect, Holding
<1>10. CASE Connections!ConnectFails(c)
    BY <1>10, SeekerMoves DEF Connections!ConnectFails, Seeking
<1>11. CASE Connections!ReactorGivesUp(c)
    BY <1>11, SocketClosed, HolderHas DEF Connections!ReactorGivesUp, Holding
<1>12. CASE Connections!ReactorConnects(c)
    BY <1>12, HolderMoves, HolderHas DEF Connections!ReactorConnects, Holding
<1>13. CASE Connections!TlsHandshake(c)
    BY <1>13, HolderMoves, SocketClosed, HolderHas DEF Connections!TlsHandshake, Holding
<1>14. CASE Connections!ReleaseBroken(c)
    BY <1>14, SocketClosed, HolderHas DEF Connections!ReleaseBroken, Holding
<1>15. CASE Connections!GetBucket(c)
    BY <1>15, HolderMoves, HolderHas DEF Connections!GetBucket, Holding
<1>16. CASE Connections!Release(c)
    BY <1>16, SocketClosed, SlotReturned, HolderHas DEF Connections!Release, Holding
<1>17. CASE Connections!ReleaseToStray(c)
    BY <1>17, SlotStrays DEF Connections!ReleaseToStray
<1> QED
    BY <1>1, <1>2, <1>3, <1>4, <1>5, <1>6, <1>7, <1>8, <1>9, <1>10, <1>11, <1>12, <1>13,
       <1>14, <1>15, <1>16, <1>17 DEF Connections!ClientStep

\* The invariant of the pool: where each socket is, and that it is there only.
LEMMA ConnectionsKept ==
    /\ Connections!Init => ConnectionsInv
    /\ ConnectionsInv /\ [Connections!Next]_(Connections!connVars) => ConnectionsInv'
<1>1. Connections!Init => ConnectionsInv
  <2> SUFFICES ASSUME Connections!Init PROVE ConnectionsInv
      OBVIOUS
  <2>1. /\ client = [c \in PoolClient |-> [at |-> "away", fd |-> NoFd]]
        /\ slots = <<>> /\ strayed = {} /\ open = {}
      BY DEF Connections!Init, Connections!Away
  <2>2. SlotsOK /\ Held = {}
      BY <2>1 DEF SlotsOK, Held, Entries, Different
  <2> QED BY ConnectionsAssumption, <2>1, <2>2 DEF ConnectionsInv, ClientsOK, Apart, Seeking
<1>2. ASSUME ConnectionsInv, [Connections!Next]_(Connections!connVars) PROVE ConnectionsInv'
  <2>1. CASE \E c \in PoolClient : Connections!ClientStep(c)
      BY <1>2, <2>1, ClientStepKeeps
  <2>2. CASE Connections!EvictPeer
      BY <1>2, <2>2, BucketEmptied DEF Connections!EvictPeer
  <2>3. CASE Connections!Clear
      BY <1>2, <2>3, BucketEmptied DEF Connections!Clear
  <2>4. CASE Connections!Janitor
      BY <1>2, <2>4, JanitorStep
  <2>5. CASE Connections!Destroy
      BY <1>2, <2>5, BucketEmptied DEF Connections!Destroy
  <2>6. CASE UNCHANGED Connections!connVars
      BY <1>2, <2>6 DEF Connections!connVars, ConnectionsInv, ClientsOK, SlotsOK, Apart, Held
  <2> QED BY <1>2, <2>1, <2>2, <2>3, <2>4, <2>5, <2>6 DEF Connections!Next
<1> QED
    BY <1>1, <1>2

\* What the invariant says of the sockets.
LEMMA HoldersApart == ConnectionsInv => Connections!OneHolder
<1> SUFFICES ASSUME ConnectionsInv PROVE Connections!OneHolder
    OBVIOUS
<1>1. DOMAIN slots = 1..Len(slots)
    BY DEF ConnectionsInv, SlotsOK
<1>2. {slots[i] : i \in DOMAIN slots} = Held
    BY <1>1 DEF Held, Entries
<1>3. \A i, j \in DOMAIN slots : i # j => slots[i] # slots[j]
    BY <1>1 DEF ConnectionsInv, SlotsOK, Different
<1> QED
    BY <1>2, <1>3 DEF ConnectionsInv, ClientsOK, Apart, Connections!OneHolder

\* No step of the other units breaks it.
THEOREM SocketsInvariant == UnitsSpec => [](unit = "connections" => ConnectionsInv)
<1> DEFINE Inv == unit = "connections" => ConnectionsInv
<1>1. UnitsInit => Inv
    BY ConnectionsKept DEF UnitsInit, IdentityInit, AccountsInit, KeysInit,
                           ConnectionsInit, SubmitInit, LimiterInit, PowInit, RegistryInit,
                           NetworkInit, PoolsInit, EvmInit, PeersInit
<1>2. Inv /\ [UnitsNext]_<<unit, unitVars>> => Inv'
  <2> SUFFICES ASSUME Inv, [UnitsNext]_<<unit, unitVars>>, unit' = "connections"
               PROVE ConnectionsInv'
      OBVIOUS
  <2>1. unit = "connections" /\ [Connections!Next]_(Connections!connVars)
      BY DEF UnitsNext, IdentityNext, AccountsNext, KeysNext, ConnectionsNext,
             SubmitNext, LimiterNext, PowNext, RegistryNext, NetworkNext, PoolsNext, EvmNext,
             PeersNext, unitVars, socketVars, cacheVars,
             Connections!connVars
  <2> QED BY <2>1, ConnectionsKept
<1> QED
    BY <1>1, <1>2, PTL DEF UnitsSpec

\* A socket has one holder and is open as long as it has one, for any number of
\* clients, requests and sockets: none is handed out twice or closed in use.
THEOREM SocketsHaveOneHolder == UnitsSpec => []OneHolder
<1>1. (unit = "connections" => ConnectionsInv) => OneHolder
    BY HoldersApart DEF OneHolder
<1> QED
    BY <1>1, SocketsInvariant, PTL


-----------------------------------------------------------------------------
(* The replay cache: MedorSubmit                                           *)

SubmitTypeOK ==
    /\ clock \in 0..MaxSubmitClock /\ wrapped \in BOOLEAN
    /\ seen = [h \in DOMAIN seen |-> seen[h]] /\ \A h \in DOMAIN seen : seen[h] \in 0..clock
    /\ call = [t \in NodeThread |-> call[t]]
    /\ \A t \in NodeThread : call[t].at = "check" => call[t].now \in 0..clock
    /\ \E S : returned \in Seq(S)
    /\ \A i \in DOMAIN returned : returned[i].now \in 0..clock

\* Until two checks have met in the wrong order: what was returned is still in
\* the cache, or an entry that is tells that its window has passed.
Remembered ==
    wrapped \/ \A i \in DOMAIN returned :
        \E g \in DOMAIN seen :
            /\ seen[g] >= returned[i].now
            /\ g = returned[i].hash \/ seen[g] - returned[i].now > REPLAY_WINDOW_SECONDS

SubmitInv == SubmitTypeOK /\ Remembered /\ Submit!OncePerWindow

\* A difference that does not wrap is itself.
LEMMA NoWrap ==
    ASSUME NEW before \in 0..MaxSubmitClock, NEW now \in 0..MaxSubmitClock, before <= now
    PROVE  Submit!Expired(before, now) <=> now - before > REPLAY_WINDOW_SECONDS
<1>1. now - before \in 0..(Uint64 - 1) /\ Uint64 \in Nat \ {0}
    BY SubmitAssumption
<1>2. PICK d : d = now - before
    OBVIOUS
<1>3. d % Uint64 = d
    BY <1>1, <1>2
<1> QED
    BY <1>2, <1>3 DEF Submit!Expired

\* One more transaction is returned.
LEMMA ReturnedMore ==
    ASSUME NEW S, NEW r \in Seq(S), NEW e, NEW s, s = Append(r, e)
    PROVE  /\ \E T : s \in Seq(T)
           /\ \E n \in Nat : /\ DOMAIN r = 1..n /\ DOMAIN s = 1..(n + 1) /\ s[n + 1] = e
                             /\ \A i \in 1..n : s[i] = r[i]
<1>2. r \in Seq(S \cup {e})
    OBVIOUS
<1>3. /\ s \in Seq(S \cup {e}) /\ Len(r) \in Nat /\ DOMAIN r = 1..Len(r)
      /\ DOMAIN s = 1..(Len(r) + 1) /\ s[Len(r) + 1] = e /\ \A i \in 1..Len(r) : s[i] = r[i]
    BY <1>2
<1> QED
    BY <1>3

\* A check under the cache's lock: what it forgets has expired, what it lets
\* pass was not returned within the window.
LEMMA DeserializeStep ==
    ASSUME SubmitInv, NEW t \in NodeThread, Submit!Deserialize(t)
    PROVE  SubmitInv'
<1>1. PICK hash, now : hash = call[t].tx.txHash /\ now = call[t].now
    OBVIOUS
<1>2. /\ call[t].at = "check" /\ now \in 0..clock
      /\ clock \in 0..MaxSubmitClock /\ now \in 0..MaxSubmitClock
      /\ UNCHANGED clock
    BY <1>1, SubmitAssumption DEF SubmitInv, SubmitTypeOK, Submit!Deserialize
<1>3. /\ Submit!Remember(hash, now)
      /\ wrapped' = (wrapped \/ \E h \in DOMAIN seen : seen[h] > now)
      /\ \/ /\ Submit!Fresh(hash, now)
            /\ returned' = Append(returned, [hash |-> hash, now |-> now])
            /\ call' = [call EXCEPT ![t].at = "add"]
         \/ Submit!Answer(t) /\ UNCHANGED returned
    BY <1>1, Zenon DEF Submit!Deserialize
<1>4. /\ DOMAIN seen' = Submit!Purged(now) \cup {hash} /\ Submit!Purged(now) \subseteq DOMAIN seen
      /\ seen' = [h \in DOMAIN seen' |-> seen'[h]]
      /\ seen'[hash] = now /\ \A h \in Submit!Purged(now) \ {hash} : seen'[h] = seen[h]
    BY <1>3 DEF Submit!Remember, Submit!Purged
<1>5. /\ call' = [u \in NodeThread |-> call'[u]]
      /\ \A u \in NodeThread : call'[u].at = "check" => call'[u].now \in 0..clock
  <2>1. CASE call' = [call EXCEPT ![t].at = "add"]
      BY <2>1 DEF SubmitInv, SubmitTypeOK
  <2>2. CASE Submit!Answer(t)
      BY <2>2 DEF SubmitInv, SubmitTypeOK, Submit!Answer, Submit!Free
  <2> QED BY <1>3, <2>1, <2>2
<1>6. wrapped' \in BOOLEAN /\ \A h \in DOMAIN seen' : seen'[h] \in 0..clock
    BY <1>2, <1>3, <1>4 DEF SubmitInv, SubmitTypeOK
<1>7. PICK n \in Nat : DOMAIN returned = 1..n
    BY DEF SubmitInv, SubmitTypeOK
<1>8. \/ UNCHANGED returned
      \/ /\ \E S : returned' \in Seq(S)
         /\ DOMAIN returned' = 1..(n + 1)
         /\ returned'[n + 1].hash = hash /\ returned'[n + 1].now = now
         /\ \A i \in 1..n : returned'[i] = returned[i]
         /\ Submit!Fresh(hash, now)
  <2> SUFFICES ASSUME Submit!Fresh(hash, now),
                      returned' = Append(returned, [hash |-> hash, now |-> now])
               PROVE  /\ \E S : returned' \in Seq(S)
                      /\ DOMAIN returned' = 1..(n + 1)
                      /\ returned'[n + 1].hash = hash /\ returned'[n + 1].now = now
                      /\ \A i \in 1..n : returned'[i] = returned[i]
      BY <1>3
  <2>1. PICK e : e = [hash |-> hash, now |-> now]
      OBVIOUS
  <2>2. /\ \E S : returned' \in Seq(S)
        /\ \E m \in Nat : /\ DOMAIN returned = 1..m /\ DOMAIN returned' = 1..(m + 1)
                          /\ returned'[m + 1] = e
                          /\ \A i \in 1..m : returned'[i] = returned[i]
    <3>1. PICK r, s : r = returned /\ s = returned'
        OBVIOUS
    <3>2. (\E S : r \in Seq(S)) /\ s = Append(r, e)
        BY <2>1, <3>1 DEF SubmitInv, SubmitTypeOK
    <3> PICK S : r \in Seq(S)
        BY <3>2
    <3>3. /\ \E T : s \in Seq(T)
          /\ \E m \in Nat : /\ DOMAIN r = 1..m /\ DOMAIN s = 1..(m + 1) /\ s[m + 1] = e
                            /\ \A i \in 1..m : s[i] = r[i]
        BY <3>2, ReturnedMore, SMTT(30)
    <3> QED BY <3>1, <3>3
  <2>3. PICK m \in Nat : /\ DOMAIN returned = 1..m /\ DOMAIN returned' = 1..(m + 1)
                         /\ returned'[m + 1] = e
                         /\ \A i \in 1..m : returned'[i] = returned[i]
      BY <2>2
  <2>4. m = n
      BY <1>7, <2>3
  <2> QED BY <2>1, <2>2, <2>3, <2>4
<1>9. SubmitTypeOK'
  <2>1. /\ \E S : returned' \in Seq(S)
        /\ \A i \in DOMAIN returned' : returned'[i].now \in 0..clock
    <3>1. CASE UNCHANGED returned
        BY <3>1 DEF SubmitInv, SubmitTypeOK
    <3>2. CASE ~UNCHANGED returned
      <4>1. \A i \in 1..(n + 1) : i \in 1..n \/ i = n + 1
          OBVIOUS
      <4> QED BY <1>2, <1>7, <1>8, <3>2, <4>1 DEF SubmitInv, SubmitTypeOK
    <3> QED BY <3>1, <3>2
  <2> QED BY <1>2, <1>4, <1>5, <1>6, <2>1 DEF SubmitTypeOK
<1>10. CASE wrapped'
    BY <1>9, <1>10 DEF SubmitInv, Remembered, Submit!OncePerWindow
<1>11. CASE ~wrapped'
  <2>1. ~wrapped /\ \A h \in DOMAIN seen : seen[h] \in 0..MaxSubmitClock /\ seen[h] <= now
    <3>1. ~wrapped /\ \A h \in DOMAIN seen : ~(seen[h] > now)
        BY <1>3, <1>11, Zenon
    <3>2. \A h \in DOMAIN seen : seen[h] \in 0..clock
        BY DEF SubmitInv, SubmitTypeOK
    <3> QED BY <1>2, <3>1, <3>2, SubmitAssumption
  <2>2. \A h \in DOMAIN seen :
            h \in Submit!Purged(now) \/ now - seen[h] > REPLAY_WINDOW_SECONDS
      BY <1>2, <2>1, NoWrap DEF Submit!Purged
  <2>3. ASSUME NEW i \in 1..n
        PROVE  /\ returned[i].now \in Nat /\ returned[i].now <= now
               /\ \/ /\ returned[i].hash \in Submit!Purged(now)
                     /\ seen[returned[i].hash] >= returned[i].now
                  \/ now - returned[i].now > REPLAY_WINDOW_SECONDS
    <3>1. returned[i].now \in 0..clock
        BY <1>7 DEF SubmitInv, SubmitTypeOK
    <3>2. PICK g \in DOMAIN seen :
              /\ seen[g] >= returned[i].now
              /\ g = returned[i].hash \/ seen[g] - returned[i].now > REPLAY_WINDOW_SECONDS
        BY <1>7, <2>1 DEF SubmitInv, Remembered
    <3>3. PICK x, y : x = seen[g] /\ y = returned[i].now
        OBVIOUS
    <3>4. /\ x \in Nat /\ y \in Nat /\ x >= y /\ x <= now /\ now \in Nat
          /\ g = returned[i].hash \/ x - y > REPLAY_WINDOW_SECONDS
          /\ g \in Submit!Purged(now) \/ now - x > REPLAY_WINDOW_SECONDS
        BY <1>2, <2>1, <2>2, <3>1, <3>2, <3>3
    <3>5. /\ y <= now
          /\ \/ g = returned[i].hash /\ g \in Submit!Purged(now)
             \/ now - y > REPLAY_WINDOW_SECONDS
        BY <3>4, SubmitAssumption
    <3> QED BY <3>3, <3>4, <3>5
  <2>4. ASSUME NEW i \in 1..n
        PROVE  \E g \in DOMAIN seen' :
                   /\ seen'[g] >= returned[i].now
                   /\ g = returned[i].hash \/ seen'[g] - returned[i].now > REPLAY_WINDOW_SECONDS
    <3>1. CASE returned[i].hash \in Submit!Purged(now) \ {hash}
               /\ seen[returned[i].hash] >= returned[i].now
        BY <1>4, <3>1
    <3>2. CASE returned[i].hash = hash \/ now - returned[i].now > REPLAY_WINDOW_SECONDS
        BY <1>4, <2>3, <3>2
    <3> QED BY <2>3, <3>1, <3>2
  <2>5. CASE UNCHANGED returned
    <3>1. Remembered'
        BY <1>7, <2>4, <2>5 DEF Remembered
    <3>2. Submit!OncePerWindow'
        BY <2>1, <2>5 DEF SubmitInv, Submit!OncePerWindow
    <3> QED BY <1>9, <3>1, <3>2 DEF SubmitInv
  <2>6. CASE ~UNCHANGED returned
    <3>1. /\ DOMAIN returned' = 1..(n + 1)
          /\ returned'[n + 1].hash = hash /\ returned'[n + 1].now = now
          /\ \A i \in 1..n : returned'[i] = returned[i]
          /\ hash \notin Submit!Purged(now)
        BY <1>8, <2>6 DEF Submit!Fresh
    <3>2. \A i \in 1..(n + 1) : i \in 1..n \/ i = n + 1
        OBVIOUS
    <3>3. Remembered'
      <4> SUFFICES ASSUME NEW i \in 1..(n + 1)
                   PROVE  \E g \in DOMAIN seen' :
                              /\ seen'[g] >= returned'[i].now
                              /\ \/ g = returned'[i].hash
                                 \/ seen'[g] - returned'[i].now > REPLAY_WINDOW_SECONDS
          BY <3>1 DEF Remembered
      <4>1. CASE i \in 1..n
          BY <2>4, <3>1, <4>1
      <4>2. CASE i = n + 1
        <5>1. hash \in DOMAIN seen' /\ seen'[hash] >= now
            BY <1>2, <1>4
        <5> QED BY <3>1, <4>2, <5>1
      <4> QED BY <3>2, <4>1, <4>2
    <3>4. Submit!OncePerWindow'
      <4> SUFFICES ASSUME NEW i \in 1..(n + 1), NEW j \in 1..(n + 1), i < j,
                          returned'[i].hash = returned'[j].hash
                   PROVE  returned'[j].now - returned'[i].now > REPLAY_WINDOW_SECONDS
          BY <3>1 DEF Submit!OncePerWindow
      <4>1. i \in 1..n
          BY <3>2
      <4>2. CASE j \in 1..n
          BY <1>7, <2>1, <3>1, <4>1, <4>2 DEF SubmitInv, Submit!OncePerWindow
      <4>3. CASE j = n + 1
          BY <2>3, <3>1, <4>1, <4>3
      <4> QED BY <3>2, <4>2, <4>3
    <3> QED BY <1>9, <3>3, <3>4 DEF SubmitInv
  <2> QED BY <2>5, <2>6
<1> QED
    BY <1>10, <1>11

\* Each step of the servers.
LEMMA SubmitKept ==
    /\ Submit!Init => SubmitInv
    /\ SubmitInv /\ [Submit!Next]_(Submit!submitVars) => SubmitInv'
<1>1. Submit!Init => SubmitInv
  <2> SUFFICES ASSUME Submit!Init PROVE SubmitInv
      OBVIOUS
  <2>1. /\ clock = 0 /\ seen = <<>> /\ returned = <<>> /\ wrapped = FALSE
        /\ call = [t \in NodeThread |-> Submit!Free]
      BY DEF Submit!Init
  <2>2. /\ DOMAIN seen = {} /\ DOMAIN returned = {} /\ returned \in Seq({})
        /\ seen = [h \in DOMAIN seen |-> seen[h]]
      BY <2>1
  <2>3. call = [t \in NodeThread |-> call[t]] /\ \A t \in NodeThread : call[t].at # "check"
      BY <2>1 DEF Submit!Free
  <2>4. SubmitTypeOK
    <3>1. \E S : returned \in Seq(S)
        BY <2>2
    <3>2. clock \in 0..MaxSubmitClock
        BY <2>1, SubmitAssumption
    <3>3. wrapped \in BOOLEAN
        BY <2>1
    <3> QED BY <2>2, <2>3, <3>1, <3>2, <3>3 DEF SubmitTypeOK
  <2> QED
      BY <2>2, <2>4 DEF SubmitInv, Remembered, Submit!OncePerWindow
<1>2. ASSUME SubmitInv, [Submit!Next]_(Submit!submitVars) PROVE SubmitInv'
  <2>1. ASSUME UNCHANGED <<seen, returned, wrapped>>, clock' \in 0..MaxSubmitClock, clock' >= clock,
               call' = [t \in NodeThread |-> call'[t]],
               \A t \in NodeThread : call'[t].at = "check" => call'[t].now \in 0..clock'
        PROVE  SubmitInv'
      BY <1>2, <2>1 DEF SubmitInv, SubmitTypeOK, Remembered, Submit!OncePerWindow
  <2>2. /\ clock \in 0..MaxSubmitClock /\ call = [t \in NodeThread |-> call[t]]
        /\ \A t \in NodeThread : call[t].at = "check" => call[t].now \in 0..clock
      BY <1>2 DEF SubmitInv, SubmitTypeOK
  <2>3. ASSUME NEW t \in NodeThread, NEW j \in Request, Submit!Receive(t, j) PROVE SubmitInv'
    <3>1. /\ UNCHANGED <<clock, seen, returned, wrapped>>
          /\ \/ call' = [call EXCEPT ![t] = [at |-> "check", tx |-> j, now |-> clock]]
             \/ call' = [call EXCEPT ![t] = [at |-> "free"]]
        BY <2>3 DEF Submit!Receive, Submit!Answer, Submit!Free
    <3> QED BY <2>1, <2>2, <3>1
  <2>4. ASSUME NEW t \in NodeThread, Submit!Deserialize(t) PROVE SubmitInv'
      BY <1>2, <2>4, DeserializeStep
  <2>5. ASSUME NEW t \in NodeThread, Submit!AddBlock(t) PROVE SubmitInv'
      BY <2>1, <2>2, <2>5 DEF Submit!AddBlock, Submit!Answer, Submit!Free
  <2>6. CASE Submit!Tick
      BY <2>1, <2>2, <2>6, SubmitAssumption DEF Submit!Tick
  <2>7. CASE Submit!Restart
    <3>1. /\ seen' = <<>> /\ returned' = <<>> /\ wrapped' = FALSE /\ UNCHANGED clock
          /\ call' = [t \in NodeThread |-> [at |-> "free"]]
        BY <2>7 DEF Submit!Restart, Submit!Free
    <3>2. /\ DOMAIN seen' = {} /\ DOMAIN returned' = {} /\ returned' \in Seq({})
          /\ seen' = [h \in DOMAIN seen' |-> seen'[h]]
        BY <3>1
    <3> QED
        BY <2>2, <3>1, <3>2 DEF SubmitInv, SubmitTypeOK, Remembered, Submit!OncePerWindow
  <2>8. CASE UNCHANGED Submit!submitVars
      BY <2>1, <2>2, <2>8 DEF Submit!submitVars
  <2> QED BY <1>2, <2>3, <2>4, <2>5, <2>6, <2>7, <2>8 DEF Submit!Next
<1> QED
    BY <1>1, <1>2

\* No step of the other units breaks it.
THEOREM SubmitInvariant == UnitsSpec => [](unit = "submit" => SubmitInv)
<1> DEFINE Inv == unit = "submit" => SubmitInv
<1>1. UnitsInit => Inv
    BY SubmitKept DEF UnitsInit, IdentityInit, AccountsInit, KeysInit, ConnectionsInit,
                      SubmitInit, LimiterInit, PowInit, RegistryInit, NetworkInit, PoolsInit,
                      EvmInit, PeersInit
<1>2. Inv /\ [UnitsNext]_<<unit, unitVars>> => Inv'
  <2> SUFFICES ASSUME Inv, [UnitsNext]_<<unit, unitVars>>, unit' = "submit" PROVE SubmitInv'
      OBVIOUS
  <2>1. unit = "submit" /\ [Submit!Next]_(Submit!submitVars)
      BY DEF UnitsNext, IdentityNext, AccountsNext, KeysNext, ConnectionsNext,
             SubmitNext, LimiterNext, PowNext, RegistryNext, NetworkNext, PoolsNext, EvmNext,
             PeersNext, unitVars, socketVars, cacheVars,
             Submit!submitVars
  <2> QED BY <2>1, SubmitKept
<1> QED
    BY <1>1, <1>2, PTL DEF UnitsSpec

\* A transaction is returned once in a replay window, for any window and any
\* number of servers, as long as no two checks meet in the wrong order: the
\* clock is read before the lock, and the difference is unsigned.
THEOREM HandedOnOnce == UnitsSpec => []OncePerWindow
<1>1. (unit = "submit" => SubmitInv) => OncePerWindow
    BY DEF SubmitInv, OncePerWindow
<1> QED
    BY <1>1, SubmitInvariant, PTL

-----------------------------------------------------------------------------
(* The table of peers: MedorNetManager                                     *)

\* The connections of a host, and whether a thread is about to add one.
Linked(h) == {p \in DOMAIN peers : HostOf[p] = h /\ peers[p].connected}
Coming(t, h) == IF thread[t].at = "hello" /\ HostOf[thread[t].peer] = h THEN 1 ELSE 0

\* A thread that names a peer names one of Peer, and only two threads connect.
ThreadsOK ==
    /\ thread = [t \in Registry!Thread |-> thread[t]]
    /\ \A t \in Registry!Thread :
           \/ thread[t] = Registry!Idle
           \/ /\ thread[t] = [at |-> thread[t].at, peer |-> thread[t].peer]
              /\ thread[t].peer \in Peer
    /\ \A t \in Registry!Thread : thread[t].at \in {"hello", "connect"} => t # "receiver"

TableOK ==
    /\ DOMAIN peers \subseteq Peer /\ IsFiniteSet(DOMAIN peers)
    /\ \A p \in DOMAIN peers :
           "connected" \in DOMAIN peers[p] /\ peers[p].connected \in BOOLEAN

\* Each host is within its count, and its count with what is coming within
\* what two threads may add to it.
CountsOK ==
    /\ ipCount \in [Registry!Host -> Nat]
    /\ \A h \in Registry!Host :
           /\ Cardinality(Linked(h)) <= ipCount[h]
           /\ ipCount[h] + Coming("retry", h) + Coming("caller", h) <= PerIp + 1

RegistryInv == ThreadsOK /\ toRetry \subseteq Peer /\ TableOK /\ CountsOK

\* Steps that add no connection and let no thread start one.
LEMMA NoneLinked ==
    ASSUME RegistryInv, TableOK', ThreadsOK', toRetry' \subseteq Peer, ipCount' = ipCount,
           \A h \in Registry!Host : Linked(h)' \subseteq Linked(h),
           \A t \in Registry!Thread : thread'[t].at = "hello" => thread'[t] = thread[t]
    PROVE  RegistryInv'
<1>1. \A h \in Registry!Host : IsFiniteSet(Linked(h)) /\ Cardinality(Linked(h)) \in Nat
  <2> SUFFICES ASSUME NEW h \in Registry!Host
               PROVE  IsFiniteSet(Linked(h)) /\ Cardinality(Linked(h)) \in Nat
      OBVIOUS
  <2>1. Linked(h) \subseteq DOMAIN peers
      BY DEF Linked
  <2> QED BY <2>1, FS_Subset, FS_CardinalityType DEF RegistryInv, TableOK
<1>2. \A h \in Registry!Host : /\ Cardinality(Linked(h)') <= Cardinality(Linked(h))
                               /\ Cardinality(Linked(h)') \in Nat
    BY <1>1, FS_Subset, FS_CardinalityType
<1>3. \A h \in Registry!Host : \A t \in Registry!Thread :
          Coming(t, h)' \in {0, 1} /\ Coming(t, h) \in {0, 1} /\ Coming(t, h)' <= Coming(t, h)
    BY DEF Coming
<1>4. "retry" \in Registry!Thread /\ "caller" \in Registry!Thread
    BY DEF Registry!Thread, Registry!Retry, Registry!Caller
<1>5. CountsOK'
  <2>1. \A h \in Registry!Host :
            /\ Cardinality(Linked(h)') <= ipCount[h]
            /\ ipCount[h] + Coming("retry", h)' + Coming("caller", h)' <= PerIp + 1
      BY <1>1, <1>2, <1>3, <1>4, RegistryAssumption DEF RegistryInv, CountsOK
  <2> QED BY <2>1 DEF RegistryInv, CountsOK
<1> QED
    BY <1>5 DEF RegistryInv

\* A thread looks a peer up: it comes only while the host is below its limit.
LEMMA ConnectBegins ==
    ASSUME RegistryInv, NEW t \in {"retry", "caller"}, NEW p \in Peer, thread[t].at # "hello",
           Registry!BeginConnect(t, p), toRetry' \subseteq Peer, UNCHANGED <<peers, ipCount>>
    PROVE  RegistryInv'
<1>1. /\ t \in Registry!Thread /\ t # "receiver"
      /\ "retry" \in Registry!Thread /\ "caller" \in Registry!Thread
    BY DEF Registry!Thread, Registry!Retry, Registry!Caller
<1>2. PICK next : /\ thread' = [thread EXCEPT ![t] = next]
                   /\ \/ next = Registry!Idle
                      \/ next = [at |-> "hello", peer |-> p] /\ Registry!MayConnect(p)
    BY DEF Registry!BeginConnect
<1>3. /\ thread' = [u \in Registry!Thread |-> thread'[u]] /\ thread'[t] = next
      /\ \A u \in Registry!Thread : u # t => thread'[u] = thread[u]
    BY <1>1, <1>2 DEF RegistryInv, ThreadsOK
<1>4. next.at \in {"idle", "hello"}
    BY <1>2 DEF Registry!Idle
<1>5. ThreadsOK'
    BY <1>1, <1>2, <1>3 DEF RegistryInv, ThreadsOK
<1>6. TableOK' /\ \A h : Linked(h)' = Linked(h)
    BY DEF RegistryInv, TableOK, Linked
<1>7. \A h \in Registry!Host :
          ipCount[h] + Coming("retry", h)' + Coming("caller", h)' <= PerIp + 1
  <2> SUFFICES ASSUME NEW h \in Registry!Host
               PROVE  ipCount[h] + Coming("retry", h)' + Coming("caller", h)' <= PerIp + 1
      OBVIOUS
  <2>1. /\ ipCount[h] \in Nat
        /\ ipCount[h] + Coming("retry", h) + Coming("caller", h) <= PerIp + 1
      BY DEF RegistryInv, CountsOK
  <2>2. \A u \in Registry!Thread : Coming(u, h) \in {0, 1} /\ Coming(u, h)' \in {0, 1}
      BY DEF Coming
  <2>3. \A u \in Registry!Thread : u # t => Coming(u, h)' = Coming(u, h)
      BY <1>3 DEF Coming
  <2>4. Coming(t, h) = 0
      BY DEF Coming
  <2>5. Coming(t, h)' = 1 => ipCount[h] < PerIp
      BY <1>2, <1>3, <1>4 DEF Coming, Registry!MayConnect, Registry!Idle
  <2> QED BY <1>1, <2>1, <2>2, <2>3, <2>4, <2>5, RegistryAssumption
<1> QED
    BY <1>5, <1>6, <1>7 DEF RegistryInv, CountsOK

\* The greeting has been sent: the thread no longer comes, and the host has
\* one connection more at most.
LEMMA ConnectEnds ==
    ASSUME RegistryInv, NEW t \in Registry!Thread, Registry!FinishConnect(t)
    PROVE  RegistryInv'
<1>1. PICK p : p = thread[t].peer
    OBVIOUS
<1>2. /\ thread[t].at = "hello" /\ p \in Peer /\ t \in {"retry", "caller"}
      /\ thread' = [thread EXCEPT ![t] = Registry!Idle] /\ toRetry' = toRetry
    BY <1>1 DEF RegistryInv, ThreadsOK, Registry!FinishConnect, Registry!Idle, Registry!Thread,
                Registry!Retry, Registry!Caller, Registry!Receiver
<1>3. /\ thread' = [u \in Registry!Thread |-> thread'[u]] /\ thread'[t] = Registry!Idle
      /\ \A u \in Registry!Thread : u # t => thread'[u] = thread[u]
    BY <1>2 DEF RegistryInv, ThreadsOK
<1>4. ThreadsOK' /\ \A u \in Registry!Thread : thread'[u].at = "hello" => thread'[u] = thread[u]
    BY <1>2, <1>3 DEF RegistryInv, ThreadsOK, Registry!Idle
<1>5. CASE p \notin DOMAIN peers
  <2>1. UNCHANGED <<peers, ipCount>>
      BY <1>1, <1>5 DEF Registry!FinishConnect, Registry!Known
  <2>2. TableOK' /\ \A h : Linked(h)' \subseteq Linked(h)
      BY <2>1 DEF RegistryInv, TableOK, Linked
  <2> QED BY <1>2, <1>4, <2>1, <2>2, NoneLinked DEF RegistryInv
<1>6. CASE p \in DOMAIN peers
  <2>1. PICK ip : ip = HostOf[p]
      OBVIOUS
  <2>2. /\ ip \in Registry!Host
        /\ ipCount' = [ipCount EXCEPT ![ip] = @ + 1]
        /\ peers' = [peers EXCEPT ![p] = [@ EXCEPT !.connected = TRUE, !.retries = 0, !.delay = 1]]
      BY <1>1, <1>2, <1>6, <2>1 DEF Registry!FinishConnect, Registry!Known, Registry!Host
  <2>3. /\ DOMAIN peers' = DOMAIN peers
        /\ "connected" \in DOMAIN peers'[p] /\ peers'[p].connected = TRUE
        /\ \A q \in DOMAIN peers : q # p => peers'[q] = peers[q]
      BY <1>6, <2>2 DEF RegistryInv, TableOK
  <2>4. TableOK'
      BY <2>3 DEF RegistryInv, TableOK
  <2>5. \A h : Linked(h)' = IF h = ip THEN Linked(h) \cup {p} ELSE Linked(h)
      BY <1>6, <2>1, <2>3 DEF Linked
  <2>6. \A h \in Registry!Host :
            /\ ipCount'[h] = IF h = ip THEN ipCount[h] + 1 ELSE ipCount[h]
            /\ ipCount[h] \in Nat /\ Cardinality(Linked(h)) <= ipCount[h]
            /\ ipCount[h] + Coming("retry", h) + Coming("caller", h) <= PerIp + 1
      BY <2>2 DEF RegistryInv, CountsOK
  <2>7. \A h \in Registry!Host : Cardinality(Linked(h)') <= ipCount'[h]
    <3> SUFFICES ASSUME NEW h \in Registry!Host PROVE Cardinality(Linked(h)') <= ipCount'[h]
        OBVIOUS
    <3>1. Linked(h) \subseteq DOMAIN peers
        BY DEF Linked
    <3>2. IsFiniteSet(Linked(h)) /\ Cardinality(Linked(h)) \in Nat
        BY <3>1, FS_Subset, FS_CardinalityType DEF RegistryInv, TableOK
    <3>3. Cardinality(Linked(h) \cup {p}) <= Cardinality(Linked(h)) + 1
        BY <3>2, FS_AddElement
    <3>4. Cardinality(Linked(h) \cup {p}) \in Nat
        BY <3>2, FS_AddElement, FS_CardinalityType
    <3> QED BY <2>5, <2>6, <3>2, <3>3, <3>4
  <2>8. \A h \in Registry!Host : \A u \in Registry!Thread :
            /\ Coming(u, h) \in {0, 1} /\ Coming(u, h)' \in {0, 1}
            /\ u # t => Coming(u, h)' = Coming(u, h)
            /\ u = t => Coming(u, h)' = 0
            /\ u = t /\ h = ip => Coming(u, h) = 1
      BY <1>1, <1>2, <1>3, <2>1 DEF Coming, Registry!Idle
  <2>9. "retry" \in Registry!Thread /\ "caller" \in Registry!Thread
      BY DEF Registry!Thread, Registry!Retry, Registry!Caller
  <2>10. \A h \in Registry!Host :
             ipCount'[h] + Coming("retry", h)' + Coming("caller", h)' <= PerIp + 1
      BY <1>2, <2>6, <2>8, <2>9, RegistryAssumption
  <2>11. ipCount' \in [Registry!Host -> Nat]
      BY <2>2 DEF RegistryInv, CountsOK
  <2> QED BY <1>2, <1>4, <2>4, <2>7, <2>10, <2>11 DEF RegistryInv, CountsOK
<1> QED
    BY <1>5, <1>6

\* A removed peer takes its connection and its count with it.
LEMMA PeerRemoved ==
    ASSUME RegistryInv, NEW p \in Peer, Registry!RemovePeer(p)
    PROVE  RegistryInv'
<1>1. PICK ip : ip = HostOf[p]
    OBVIOUS
<1>2. /\ p \in DOMAIN peers /\ ip \in Registry!Host /\ UNCHANGED <<thread, toRetry>>
      /\ ipCount' = [ipCount EXCEPT ![ip] = IF peers[p].connected THEN @ - 1 ELSE @]
      /\ peers' = [q \in DOMAIN peers \ {p} |-> peers[q]]
    BY <1>1 DEF Registry!RemovePeer, Registry!Known, Registry!Host
<1>3. TableOK' /\ ThreadsOK'
    BY <1>2, FS_Subset DEF RegistryInv, TableOK, ThreadsOK
<1>4. \A h : Linked(h)' = Linked(h) \ {p}
    BY <1>2 DEF Linked
<1>5. ASSUME NEW h \in Registry!Host
      PROVE  /\ ipCount'[h] \in Nat /\ Cardinality(Linked(h)') <= ipCount'[h]
             /\ ipCount'[h] <= ipCount[h]
  <2>1. Linked(h) \subseteq DOMAIN peers
      BY DEF Linked
  <2>2. IsFiniteSet(Linked(h)) /\ Cardinality(Linked(h)) \in Nat
      BY <2>1, FS_Subset, FS_CardinalityType DEF RegistryInv, TableOK
  <2>3. /\ Cardinality(Linked(h) \ {p}) = IF p \in Linked(h) THEN Cardinality(Linked(h)) - 1
                                                          ELSE Cardinality(Linked(h))
        /\ Cardinality(Linked(h) \ {p}) \in Nat
      BY <2>2, FS_RemoveElement, FS_CardinalityType
  <2>4. p \in Linked(h) <=> h = ip /\ peers[p].connected
      BY <1>1, <1>2 DEF Linked
  <2>5. ipCount[h] \in Nat /\ Cardinality(Linked(h)) <= ipCount[h]
      BY DEF RegistryInv, CountsOK
  <2>6. ipCount'[h] = IF h = ip /\ peers[p].connected THEN ipCount[h] - 1 ELSE ipCount[h]
      BY <1>2 DEF RegistryInv, CountsOK
  <2>7. Cardinality(Linked(h)') = Cardinality(Linked(h) \ {p})
      BY <1>4
  <2>8. CASE h = ip /\ peers[p].connected
      BY <2>2, <2>3, <2>4, <2>5, <2>6, <2>7, <2>8
  <2>9. CASE ~(h = ip /\ peers[p].connected)
      BY <2>2, <2>3, <2>4, <2>5, <2>6, <2>7, <2>9
  <2> QED BY <2>8, <2>9
<1>6. \A h \in Registry!Host : \A t \in Registry!Thread :
          Coming(t, h)' = Coming(t, h) /\ Coming(t, h) \in {0, 1}
    BY <1>2 DEF Coming
<1>7. "retry" \in Registry!Thread /\ "caller" \in Registry!Thread
    BY DEF Registry!Thread, Registry!Retry, Registry!Caller
<1>8. ipCount' = [h \in Registry!Host |-> ipCount'[h]]
    BY <1>2 DEF RegistryInv, CountsOK
<1>9. \A h \in Registry!Host :
          ipCount'[h] + Coming("retry", h)' + Coming("caller", h)' <= PerIp + 1
    BY <1>5, <1>6, <1>7, RegistryAssumption DEF RegistryInv, CountsOK
<1> QED
    BY <1>2, <1>3, <1>5, <1>8, <1>9 DEF RegistryInv, CountsOK

\* Peers keep their names, and none is connected that was not.
NobodyLinked ==
    /\ DOMAIN peers' = DOMAIN peers
    /\ \A p \in DOMAIN peers :
           /\ "connected" \in DOMAIN peers'[p] /\ peers'[p].connected \in BOOLEAN
           /\ peers'[p].connected => peers[p].connected

\* Steps of the receiving thread, and of those that touch no thread: peers
\* keep their names and gain no connection.
LEMMA QuietStep ==
    ASSUME RegistryInv, UNCHANGED <<ipCount, toRetry>>,
           NobodyLinked,
           ThreadsOK',
           \A t \in Registry!Thread : thread'[t].at = "hello" => thread'[t] = thread[t]
    PROVE  RegistryInv'
<1>1. TableOK'
    BY DEF RegistryInv, TableOK, NobodyLinked
<1>2. ASSUME NEW h PROVE Linked(h)' \subseteq Linked(h)
    BY DEF Linked, NobodyLinked
<1>3. ipCount' = ipCount /\ toRetry' \subseteq Peer
    BY DEF RegistryInv
<1> QED
    BY <1>1, <1>2, <1>3, NoneLinked

\* The receiving thread goes on to something else.
LEMMA ReceiverMoves ==
    ASSUME ThreadsOK, NEW next, thread' = [thread EXCEPT !["receiver"] = next],
           \/ next = Registry!Idle
           \/ /\ next = [at |-> next.at, peer |-> next.peer] /\ next.peer \in Peer
              /\ next.at \notin {"hello", "connect"}
    PROVE  /\ ThreadsOK'
           /\ \A t \in Registry!Thread : thread'[t].at = "hello" => thread'[t] = thread[t]
<1>1. "receiver" \in Registry!Thread
    BY DEF Registry!Thread, Registry!Receiver
<1>2. next.at \notin {"hello", "connect"}
    BY DEF Registry!Idle
<1>3. /\ thread' = [t \in Registry!Thread |-> thread'[t]] /\ thread'["receiver"] = next
      /\ \A t \in Registry!Thread : t # "receiver" => thread'[t] = thread[t]
    BY <1>1 DEF ThreadsOK
<1> QED
    BY <1>2, <1>3 DEF ThreadsOK

LEMMA ReceiverStep ==
    ASSUME RegistryInv,
           \/ \E p \in Peer, m \in Registry!Message : Registry!Receive(p, m)
           \/ Registry!Dispatch \/ Registry!DisconnectPeer \/ Registry!ScheduleReconnect
    PROVE  RegistryInv'
<1>1. /\ ThreadsOK /\ TableOK /\ "receiver" \in Registry!Thread
      /\ Registry!Receiver = "receiver" /\ Registry!Idle.at = "idle"
    BY DEF RegistryInv, Registry!Thread, Registry!Receiver, Registry!Idle
<1>2. CASE \E p \in Peer, m \in Registry!Message : Registry!Receive(p, m)
  <2> PICK p \in Peer, m \in Registry!Message : Registry!Receive(p, m)
      BY <1>2
  <2>1. UNCHANGED <<ipCount, toRetry>> /\ p \in DOMAIN peers
      BY DEF Registry!Receive, Registry!Known
  <2>2. \/ thread' = thread
        \/ thread' = [thread EXCEPT !["receiver"] = [at |-> m, peer |-> p]]
      BY <1>1 DEF Registry!Receive
  <2>3. m \notin {"hello", "connect"}
      BY DEF Registry!Message
  <2>4. ThreadsOK' /\ \A t \in Registry!Thread : thread'[t].at = "hello" => thread'[t] = thread[t]
    <3>1. CASE thread' = thread
        BY <1>1, <3>1 DEF ThreadsOK
    <3>2. CASE thread' = [thread EXCEPT !["receiver"] = [at |-> m, peer |-> p]]
        BY <1>1, <2>3, <3>2, ReceiverMoves
    <3> QED BY <2>2, <3>1, <3>2
  <2>5. \E v : \/ peers' = [peers EXCEPT ![p] = [@ EXCEPT !.violations = v]]
               \/ peers' = [peers EXCEPT ![p] = [@ EXCEPT !.messages = v]]
      BY DEF Registry!Receive
  <2>6. NobodyLinked
      BY <1>1, <2>1, <2>5 DEF TableOK, NobodyLinked
  <2> QED BY <2>1, <2>4, <2>6, QuietStep
<1>3. CASE Registry!Dispatch
  <2>1. PICK p, m : /\ p = thread["receiver"].peer /\ m = thread["receiver"].at
      OBVIOUS
  <2>2. m \in Registry!Message /\ p \in Peer
      BY <1>1, <1>3, <2>1 DEF Registry!Dispatch, ThreadsOK, Registry!Message
  <2>3. UNCHANGED <<ipCount, toRetry>>
      BY <1>3 DEF Registry!Dispatch
  <2>4. \/ thread' = [thread EXCEPT !["receiver"] = Registry!Idle]
        \/ thread' = [thread EXCEPT !["receiver"] = [at |-> "leave", peer |-> p]]
      BY <1>1, <1>3, <2>1 DEF Registry!Dispatch
  <2>5. ThreadsOK' /\ \A t \in Registry!Thread : thread'[t].at = "hello" => thread'[t] = thread[t]
    <3>1. CASE thread' = [thread EXCEPT !["receiver"] = Registry!Idle]
        BY <1>1, <3>1, ReceiverMoves
    <3>2. CASE thread' = [thread EXCEPT !["receiver"] = [at |-> "leave", peer |-> p]]
        BY <1>1, <2>2, <3>2, ReceiverMoves
    <3> QED BY <2>4, <3>1, <3>2
  <2>6. \/ peers' = peers
        \/ p \in DOMAIN peers /\ peers' = Registry!Banned(p)
        \/ /\ p \in DOMAIN peers
           /\ \E v : peers' = [peers EXCEPT ![p] = [@ EXCEPT !.violations = v]]
      BY <1>1, <1>3, <2>1 DEF Registry!Dispatch, Registry!PerformHandshake, Registry!Known
  <2>7. NobodyLinked
      BY <1>1, <2>6 DEF TableOK, NobodyLinked, Registry!Banned
  <2> QED BY <2>3, <2>5, <2>7, QuietStep
<1>4. CASE Registry!DisconnectPeer
  <2>1. PICK p : p = thread["receiver"].peer
      OBVIOUS
  <2>2. thread["receiver"].at = "leave" /\ p \in Peer /\ UNCHANGED <<ipCount, toRetry>>
      BY <1>1, <1>4, <2>1 DEF Registry!DisconnectPeer, ThreadsOK
  <2>3. \/ thread' = [thread EXCEPT !["receiver"] = Registry!Idle]
        \/ thread' = [thread EXCEPT !["receiver"] = [at |-> "schedule", peer |-> p]]
      BY <1>1, <1>4, <2>1 DEF Registry!DisconnectPeer
  <2>4. ThreadsOK' /\ \A t \in Registry!Thread : thread'[t].at = "hello" => thread'[t] = thread[t]
    <3>1. CASE thread' = [thread EXCEPT !["receiver"] = Registry!Idle]
        BY <1>1, <3>1, ReceiverMoves
    <3>2. CASE thread' = [thread EXCEPT !["receiver"] = [at |-> "schedule", peer |-> p]]
        BY <1>1, <2>2, <3>2, ReceiverMoves
    <3> QED BY <2>3, <3>1, <3>2
  <2>5. \/ peers' = peers
        \/ p \in DOMAIN peers /\ peers' = [peers EXCEPT ![p].connected = FALSE]
      BY <1>1, <1>4, <2>1 DEF Registry!DisconnectPeer, Registry!Known
  <2>6. NobodyLinked
      BY <1>1, <2>5 DEF TableOK, NobodyLinked
  <2> QED BY <2>2, <2>4, <2>6, QuietStep
<1>5. CASE Registry!ScheduleReconnect
  <2>1. PICK p : p = thread["receiver"].peer
      OBVIOUS
  <2>2. /\ UNCHANGED <<ipCount, toRetry>>
        /\ thread' = [thread EXCEPT !["receiver"] = Registry!Idle]
        /\ peers' = IF p \in DOMAIN peers
                    THEN [peers EXCEPT ![p] = Registry!Rescheduled(peers[p])] ELSE peers
      BY <1>1, <1>5, <2>1 DEF Registry!ScheduleReconnect, Registry!Known
  <2>3. ThreadsOK' /\ \A t \in Registry!Thread : thread'[t].at = "hello" => thread'[t] = thread[t]
      BY <1>1, <2>2, ReceiverMoves
  <2>4. NobodyLinked
      BY <1>1, <2>2 DEF TableOK, NobodyLinked, Registry!Rescheduled
  <2> QED BY <2>2, <2>3, <2>4, QuietStep
<1> QED
    BY <1>2, <1>3, <1>4, <1>5

LEMMA RegistryStep ==
    ASSUME RegistryInv, Registry!Next
    PROVE  RegistryInv'
<1>1. /\ ThreadsOK /\ TableOK /\ toRetry \subseteq Peer
      /\ Registry!Retry = "retry" /\ Registry!Caller = "caller" /\ Registry!Idle.at = "idle"
      /\ "retry" \in Registry!Thread /\ "caller" \in Registry!Thread
    BY DEF RegistryInv, Registry!Thread, Registry!Retry, Registry!Caller, Registry!Idle
<1>2. CASE \E t \in Registry!Thread : Registry!FinishConnect(t)
    BY <1>2, ConnectEnds
<1>3. CASE Registry!CallerConnects
  <2>1. PICK p : p = thread["caller"].peer
      OBVIOUS
  <2>2. /\ thread["caller"].at = "connect" /\ p \in Peer /\ Registry!BeginConnect("caller", p)
        /\ UNCHANGED <<peers, ipCount, toRetry>>
      BY <1>1, <1>3, <2>1 DEF Registry!CallerConnects, ThreadsOK
  <2> QED BY <1>1, <2>2, ConnectBegins
<1>4. CASE \E p \in Peer : Registry!RetryConnects(p)
  <2> PICK p \in Peer : Registry!RetryConnects(p)
      BY <1>4
  <2>1. /\ thread["retry"] = Registry!Idle /\ Registry!BeginConnect("retry", p)
        /\ toRetry' \subseteq Peer /\ UNCHANGED <<peers, ipCount>>
      BY <1>1 DEF Registry!RetryConnects
  <2> QED BY <1>1, <2>1, ConnectBegins
<1>5. CASE \E p \in Peer : Registry!RemovePeer(p)
    BY <1>5, PeerRemoved
<1>6. CASE \/ \E p \in Bootstrap : Registry!ConnectBootstrap(p)
           \/ \E p \in Peer : Registry!AddPeer(p)
  <2> DEFINE connecting(p) == [thread EXCEPT !["caller"] = [at |-> "connect", peer |-> p]]
  <2>1. PICK p \in Peer :
            /\ UNCHANGED <<ipCount, toRetry>>
            /\ peers' = peers \/ (p \notin DOMAIN peers /\ peers' = Registry!With(p))
            /\ thread' = thread \/ thread' = connecting(p)
      BY <1>1, <1>6, RegistryAssumption
      DEF Registry!ConnectBootstrap, Registry!AddPeer, Registry!Known
  <2>2. TableOK'
    <3>1. CASE peers' = peers
        BY <1>1, <3>1 DEF TableOK
    <3>2. CASE p \notin DOMAIN peers /\ peers' = Registry!With(p)
      <4>1. /\ DOMAIN peers' = DOMAIN peers \cup {p}
            /\ \A q \in DOMAIN peers' : peers'[q] = IF q = p THEN Registry!NewPeer ELSE peers[q]
          BY <3>2 DEF Registry!With, Registry!Known
      <4>2. "connected" \in DOMAIN Registry!NewPeer /\ Registry!NewPeer.connected = FALSE
          BY DEF Registry!NewPeer
      <4>3. IsFiniteSet(DOMAIN peers')
          BY <1>1, <4>1, FS_AddElement DEF TableOK
      <4> QED BY <1>1, <4>1, <4>2, <4>3 DEF TableOK
    <3> QED BY <2>1, <3>1, <3>2
  <2>3. ASSUME NEW h PROVE Linked(h)' \subseteq Linked(h)
      BY <2>1 DEF Linked, Registry!With, Registry!NewPeer, Registry!Known
  <2>4. /\ thread' = [t \in Registry!Thread |-> thread'[t]]
        /\ \A t \in Registry!Thread :
               \/ thread'[t] = thread[t]
               \/ t = "caller" /\ thread'[t] = [at |-> "connect", peer |-> p]
      BY <1>1, <2>1 DEF ThreadsOK
  <2>5. ThreadsOK' /\ \A t \in Registry!Thread : thread'[t].at = "hello" => thread'[t] = thread[t]
      BY <1>1, <2>4 DEF ThreadsOK
  <2> QED BY <1>1, <2>1, <2>2, <2>3, <2>5, NoneLinked
<1>7. CASE Registry!RetryDisconnected
  <2>1. UNCHANGED <<peers, thread, ipCount>> /\ toRetry' \subseteq Peer
      BY <1>1, <1>7 DEF Registry!RetryDisconnected, Registry!Known, TableOK
  <2>2. TableOK' /\ ThreadsOK' /\ \A h : Linked(h)' \subseteq Linked(h)
      BY <1>1, <2>1 DEF TableOK, ThreadsOK, Linked
  <2> QED BY <2>1, <2>2, NoneLinked
<1>8. CASE \/ Registry!Start \/ Registry!Stop \/ Registry!Tick \/ Registry!EvictPeers
           \/ Registry!UnbanExpired \/ \E p \in Peer : Registry!BanPeer(p)
  <2>1. UNCHANGED <<ipCount, toRetry, thread>>
      BY <1>8 DEF Registry!Start, Registry!Stop, Registry!Tick, Registry!EvictPeers,
                  Registry!UnbanExpired, Registry!BanPeer
  <2>2. NobodyLinked
    <3>1. CASE \E p \in Peer : Registry!BanPeer(p)
        BY <1>1, <3>1 DEF Registry!BanPeer, Registry!Banned, Registry!Known, TableOK, NobodyLinked
    <3>2. CASE Registry!EvictPeers
        BY <1>1, <3>2 DEF Registry!EvictPeers, Registry!Known, TableOK, NobodyLinked
    <3>3. CASE Registry!UnbanExpired
        BY <1>1, <3>3 DEF Registry!UnbanExpired, Registry!Known, TableOK, NobodyLinked
    <3>4. CASE Registry!Start \/ Registry!Stop \/ Registry!Tick
        BY <1>1, <3>4 DEF Registry!Start, Registry!Stop, Registry!Tick, Registry!Known,
                          TableOK, NobodyLinked
    <3> QED BY <1>8, <3>1, <3>2, <3>3, <3>4
  <2>3. ThreadsOK' /\ \A t \in Registry!Thread : thread'[t].at = "hello" => thread'[t] = thread[t]
      BY <1>1, <2>1 DEF ThreadsOK
  <2> QED BY <2>1, <2>2, <2>3, QuietStep
<1>9. CASE \/ \E p \in Peer, m \in Registry!Message : Registry!Receive(p, m)
           \/ Registry!Dispatch \/ Registry!DisconnectPeer \/ Registry!ScheduleReconnect
    BY <1>9, ReceiverStep
<1> QED
    BY <1>2, <1>3, <1>4, <1>5, <1>6, <1>7, <1>8, <1>9 DEF Registry!Next

\* RegistryInv holds at the start and is kept.
LEMMA RegistryKept ==
    /\ Registry!Init => RegistryInv
    /\ RegistryInv /\ [Registry!Next]_(Registry!netVars) => RegistryInv'
<1>1. ASSUME Registry!Init PROVE RegistryInv
  <2>1. ThreadsOK /\ toRetry \subseteq Peer
      BY <1>1 DEF Registry!Init, ThreadsOK, Registry!Idle
  <2>2. peers = [p \in {} |-> Registry!NewPeer] /\ DOMAIN peers = {}
      BY <1>1 DEF Registry!Init
  <2>3. TableOK /\ \A h : Linked(h) = {}
      BY <2>2, FS_EmptySet DEF TableOK, Linked
  <2>4. \A t \in Registry!Thread : \A h : Coming(t, h) = 0
      BY <1>1 DEF Registry!Init, Coming, Registry!Idle
  <2>5. CountsOK
    <3>1. \A h : Cardinality(Linked(h)) = 0 /\ Coming("retry", h) = 0 /\ Coming("caller", h) = 0
        BY <2>3, <2>4, FS_EmptySet DEF Registry!Thread, Registry!Retry, Registry!Caller
    <3>2. ipCount = [h \in Registry!Host |-> 0]
        BY <1>1 DEF Registry!Init
    <3> QED BY <3>1, <3>2, RegistryAssumption DEF CountsOK
  <2> QED BY <2>1, <2>3, <2>5 DEF RegistryInv
<1>2. ASSUME RegistryInv, UNCHANGED Registry!netVars PROVE RegistryInv'
  <2>1. UNCHANGED <<peers, ipCount, thread, toRetry>>
      BY <1>2 DEF Registry!netVars
  <2>2. ThreadsOK' /\ TableOK' /\ toRetry' \subseteq Peer /\ \A h : Linked(h)' \subseteq Linked(h)
      BY <1>2, <2>1 DEF RegistryInv, ThreadsOK, TableOK, Linked
  <2> QED BY <1>2, <2>1, <2>2, NoneLinked
<1> QED
    BY <1>1, <1>2, RegistryStep

\* No step of the other units breaks it.
THEOREM RegistryInvariant == UnitsSpec => [](unit = "registry" => RegistryInv)
<1> DEFINE Inv == unit = "registry" => RegistryInv
<1>1. UnitsInit => Inv
    BY RegistryKept DEF UnitsInit, IdentityInit, AccountsInit, KeysInit, ConnectionsInit,
                        SubmitInit, LimiterInit, PowInit, RegistryInit, NetworkInit, PoolsInit,
                        EvmInit, PeersInit
<1>2. Inv /\ [UnitsNext]_<<unit, unitVars>> => Inv'
  <2> SUFFICES ASSUME Inv, [UnitsNext]_<<unit, unitVars>>, unit' = "registry" PROVE RegistryInv'
      OBVIOUS
  <2>1. unit = "registry" /\ [Registry!Next]_(Registry!netVars)
      BY DEF UnitsNext, IdentityNext, AccountsNext, KeysNext, ConnectionsNext, SubmitNext,
             LimiterNext, PowNext, RegistryNext, NetworkNext, PoolsNext, EvmNext, PeersNext,
             unitVars, tableVars,
             Registry!netVars
  <2> QED BY <2>1, RegistryKept
<1> QED
    BY <1>1, <1>2, PTL DEF UnitsSpec

\* No host has more connections than are counted for it, and none is counted
\* more than the one other thread's connection above its limit, whatever bans,
\* evictions, retries and removals come between a check and its connection.
THEOREM HostsStayLimited == UnitsSpec => []PerIpLimit
<1>1. (unit = "registry" => RegistryInv) => PerIpLimit
  <2> SUFFICES ASSUME RegistryInv PROVE Registry!PerIpLimit
      BY DEF PerIpLimit
  <2>1. ASSUME NEW h \in Registry!Host
        PROVE  Cardinality(Linked(h)) <= ipCount[h] /\ ipCount[h] <= PerIp + 1
    <3>1. Coming("retry", h) \in {0, 1} /\ Coming("caller", h) \in {0, 1}
        BY DEF Coming
    <3> QED BY <3>1, RegistryAssumption DEF RegistryInv, CountsOK
  <2>2. \A h : Linked(h) = {p \in Registry!Known : HostOf[p] = h /\ peers[p].connected}
      BY DEF Linked, Registry!Known
  <2>3. \A S : Registry!Cardinality(S) = Cardinality(S)
      BY DEF Registry!Cardinality, Cardinality
  <2> QED BY <2>1, <2>2, <2>3 DEF Registry!PerIpLimit
<1> QED
    BY <1>1, RegistryInvariant, PTL

-----------------------------------------------------------------------------
(* What connections bring: MedorNetwork                                    *)

\* Messages of this prefix all decode; connections that bring it to a callback.
Whole(p) == \A m \in InboundMessage : PrefixOf[m] = p => Network!Decodes(m)
OnTheirWay(p) ==
    {k \in Conn : conn[k].at = "dispatch" /\ k \in fresh /\ PrefixOf[conn[k].brings] = p}

\* What is not new brings a message.
ConnsOK ==
    /\ conn = [k \in Conn |-> [at |-> conn[k].at, brings |-> conn[k].brings]]
    /\ \A k \in Conn :
           conn[k].at \in {"queued", "read", "dispatch"} => conn[k].brings \in InboundMessage

NetworkInv ==
    /\ ConnsOK
    /\ IsFiniteSet(fresh) /\ delivered \in [Network!Prefix -> Nat]
    /\ \A p \in Network!Prefix :
           Whole(p) => delivered[p] + Cardinality(OnTheirWay(p)) = IF p \in seenMsgIds THEN 1 ELSE 0

LEMMA WayFinite ==
    ASSUME IsFiniteSet(fresh), NEW p
    PROVE  IsFiniteSet(OnTheirWay(p)) /\ Cardinality(OnTheirWay(p)) \in Nat
<1>1. OnTheirWay(p) \subseteq fresh
    BY DEF OnTheirWay
<1> QED
    BY <1>1, FS_Subset, FS_CardinalityType

\* Steps that neither bring a connection to its callback nor call one.
LEMMA NothingDispatched ==
    ASSUME NetworkInv, ConnsOK', UNCHANGED <<seenMsgIds, fresh, delivered>>,
           \A k \in Conn : \/ conn'[k] = conn[k]
                           \/ conn[k].at # "dispatch" /\ conn'[k].at # "dispatch"
    PROVE  NetworkInv'
<1>1. ASSUME NEW p PROVE OnTheirWay(p)' = OnTheirWay(p)
    BY DEF OnTheirWay
<1>2. \A p : Whole(p)' = Whole(p)
    BY DEF Whole, Network!Decodes
<1> QED
    BY <1>1, <1>2 DEF NetworkInv

\* A prefix is looked up and remembered in one span of a lock: the second
\* connection that brings it finds it.
LEMMA SeenStep ==
    ASSUME NetworkInv, NEW k \in Conn, Network!CheckSeen(k)
    PROVE  NetworkInv'
<1>1. PICK p : p = PrefixOf[conn[k].brings]
    OBVIOUS
<1>2. conn[k].at = "read" /\ p \in Network!Prefix /\ conn[k].brings \in InboundMessage
    BY <1>1 DEF Network!CheckSeen, Network!At, NetworkInv, ConnsOK, Network!Prefix
<1>3. PICK place \in {"closed", "dispatch"} : conn' = [conn EXCEPT ![k].at = place]
    BY DEF Network!CheckSeen, Network!Move
<1>4. /\ conn'[k] = [at |-> place, brings |-> conn[k].brings]
      /\ \A l \in Conn : l # k => conn'[l] = conn[l]
      /\ conn' = [l \in Conn |-> [at |-> conn'[l].at, brings |-> conn'[l].brings]]
    BY <1>3 DEF NetworkInv, ConnsOK
<1>5. ConnsOK'
    BY <1>2, <1>4 DEF NetworkInv, ConnsOK
<1>6. CASE UNCHANGED <<seenMsgIds, fresh, delivered>> /\ p \in seenMsgIds /\ conn'[k].at = "closed"
    BY <1>2, <1>4, <1>5, <1>6, NothingDispatched
<1>7. CASE p \notin seenMsgIds /\ conn'[k].at = "dispatch" /\ Network!Remember(k, p)
  <2>1. CASE /\ seenMsgIds' = {} /\ fresh' = {}
             /\ delivered' = [q \in Network!Prefix |-> 0]
    <3>1. \A q : OnTheirWay(q)' = {}
        BY <2>1 DEF OnTheirWay
    <3> QED BY <1>5, <2>1, <3>1, FS_EmptySet DEF NetworkInv
  <2>2. CASE /\ seenMsgIds' = seenMsgIds \cup {p} /\ fresh' = fresh \cup {k}
             /\ delivered' = delivered
    <3>1. \A q : OnTheirWay(q)' = IF q = p THEN OnTheirWay(q) \cup {k} ELSE OnTheirWay(q)
      <4> SUFFICES ASSUME NEW q
                   PROVE  OnTheirWay(q)' = IF q = p THEN OnTheirWay(q) \cup {k} ELSE OnTheirWay(q)
          OBVIOUS
      <4>1. \A l \in Conn : l # k => (l \in OnTheirWay(q)' <=> l \in OnTheirWay(q))
          BY <1>4, <2>2 DEF OnTheirWay
      <4>2. k \in OnTheirWay(q)' <=> q = p
          BY <1>1, <1>4, <1>7, <2>2 DEF OnTheirWay
      <4>3. k \notin OnTheirWay(q) /\ OnTheirWay(q) \subseteq Conn /\ OnTheirWay(q)' \subseteq Conn
          BY <1>2 DEF OnTheirWay
      <4> QED BY <4>1, <4>2, <4>3
    <3>2. k \notin OnTheirWay(p) /\ IsFiniteSet(OnTheirWay(p)) /\ Cardinality(OnTheirWay(p)) \in Nat
        BY <1>2, WayFinite DEF OnTheirWay, NetworkInv
    <3>3. Cardinality(OnTheirWay(p) \cup {k}) = Cardinality(OnTheirWay(p)) + 1
        BY <3>2, FS_AddElement
    <3>4. \A q : Whole(q)' = Whole(q)
        BY DEF Whole, Network!Decodes
    <3>5. ASSUME NEW q \in Network!Prefix, Whole(q)
          PROVE  delivered'[q] + Cardinality(OnTheirWay(q)') = IF q \in seenMsgIds' THEN 1 ELSE 0
      <4>1. /\ delivered[q] + Cardinality(OnTheirWay(q)) = IF q \in seenMsgIds THEN 1 ELSE 0
            /\ delivered[q] \in Nat
          BY <3>5 DEF NetworkInv
      <4>2. CASE q = p
        <5>1. Cardinality(OnTheirWay(q)') = Cardinality(OnTheirWay(q)) + 1
            BY <3>1, <3>3, <4>2
        <5> QED BY <1>7, <2>2, <3>2, <4>1, <4>2, <5>1
      <4>3. CASE q # p
        <5>1. Cardinality(OnTheirWay(q)') = Cardinality(OnTheirWay(q))
            BY <3>1, <4>3
        <5> QED BY <2>2, <4>1, <4>3, <5>1
      <4> QED BY <4>2, <4>3
    <3>6. IsFiniteSet(fresh')
        BY <2>2, FS_AddElement DEF NetworkInv
    <3> QED BY <1>5, <2>2, <3>4, <3>5, <3>6 DEF NetworkInv
  <2> QED BY <1>7, <2>1, <2>2 DEF Network!Remember, Network!SeenWith
<1> QED
  <2>1. \/ /\ p \in seenMsgIds /\ Network!Move(k, "closed")
           /\ UNCHANGED <<seenMsgIds, fresh, delivered>>
        \/ p \notin seenMsgIds /\ Network!Move(k, "dispatch") /\ Network!Remember(k, p)
      BY <1>1 DEF Network!CheckSeen
  <2>2. \A at : Network!Move(k, at) => conn'[k].at = at
      BY DEF Network!Move, NetworkInv, ConnsOK
  <2> QED BY <1>6, <1>7, <2>1, <2>2

\* A callback is called, or the message does not decode.
LEMMA DispatchStep ==
    ASSUME NetworkInv, NEW k \in Conn, Network!Dispatch(k)
    PROVE  NetworkInv'
<1>1. PICK m, p : m = conn[k].brings /\ p = PrefixOf[m]
    OBVIOUS
<1>2. /\ conn[k].at = "dispatch" /\ m \in InboundMessage /\ p \in Network!Prefix
      /\ UNCHANGED <<seenMsgIds, fresh>>
      /\ delivered' = IF Network!Decodes(m) /\ k \in fresh
                      THEN [delivered EXCEPT ![p] = @ + 1] ELSE delivered
    BY <1>1 DEF Network!Dispatch, Network!At, NetworkInv, ConnsOK, Network!Prefix
<1>3. /\ conn'[k] = [at |-> "closed", brings |-> m]
      /\ \A l \in Conn : l # k => conn'[l] = conn[l]
      /\ conn' = [l \in Conn |-> [at |-> conn'[l].at, brings |-> conn'[l].brings]]
    BY <1>1 DEF Network!Dispatch, Network!Move, NetworkInv, ConnsOK
<1>4. ConnsOK'
    BY <1>2, <1>3 DEF NetworkInv, ConnsOK
<1>5. \A q : OnTheirWay(q)' = OnTheirWay(q) \ {k}
  <2> SUFFICES ASSUME NEW q PROVE OnTheirWay(q)' = OnTheirWay(q) \ {k}
      OBVIOUS
  <2>1. \A l \in Conn : l # k => (l \in OnTheirWay(q)' <=> l \in OnTheirWay(q))
      BY <1>2, <1>3 DEF OnTheirWay
  <2>2. k \notin OnTheirWay(q)' /\ OnTheirWay(q) \subseteq Conn /\ OnTheirWay(q)' \subseteq Conn
      BY <1>3 DEF OnTheirWay
  <2> QED BY <2>1, <2>2
<1>6. \A q : k \in OnTheirWay(q) <=> q = p /\ k \in fresh
    BY <1>1, <1>2 DEF OnTheirWay
<1>7. \A q : Whole(q)' = Whole(q)
    BY DEF Whole, Network!Decodes
<1>8. ASSUME NEW q \in Network!Prefix, Whole(q)
      PROVE  delivered'[q] + Cardinality(OnTheirWay(q)') = IF q \in seenMsgIds THEN 1 ELSE 0
  <2>1. /\ delivered[q] + Cardinality(OnTheirWay(q)) = IF q \in seenMsgIds THEN 1 ELSE 0
        /\ delivered[q] \in Nat
      BY <1>8 DEF NetworkInv
  <2>2. IsFiniteSet(OnTheirWay(q)) /\ Cardinality(OnTheirWay(q)) \in Nat
      BY WayFinite DEF NetworkInv
  <2>3. CASE q = p /\ k \in fresh
    <3>1. Network!Decodes(m)
        BY <1>1, <1>2, <1>8, <2>3 DEF Whole
    <3>2. delivered'[q] = delivered[q] + 1
        BY <1>2, <2>3, <3>1 DEF NetworkInv
    <3>3. Cardinality(OnTheirWay(q)') = Cardinality(OnTheirWay(q)) - 1
        BY <1>5, <1>6, <2>2, <2>3, FS_RemoveElement
    <3> QED BY <2>1, <2>2, <3>2, <3>3
  <2>4. CASE ~(q = p /\ k \in fresh)
    <3>1. delivered'[q] = delivered[q]
        BY <1>2, <2>4 DEF NetworkInv
    <3>2. OnTheirWay(q)' = OnTheirWay(q)
        BY <1>5, <1>6, <2>4
    <3> QED BY <2>1, <3>1, <3>2
  <2> QED BY <2>3, <2>4
<1>9. delivered' \in [Network!Prefix -> Nat] /\ IsFiniteSet(fresh')
    BY <1>2 DEF NetworkInv
<1> QED
    BY <1>2, <1>4, <1>7, <1>8, <1>9 DEF NetworkInv

LEMMA NetworkStep ==
    ASSUME NetworkInv, Network!Next
    PROVE  NetworkInv'
<1>1. ConnsOK
    BY DEF NetworkInv
<1>2. CASE \E k \in Conn : Network!CheckSeen(k)
    BY <1>2, SeenStep
<1>3. CASE \E k \in Conn : Network!Dispatch(k)
    BY <1>3, DispatchStep
<1>4. CASE \E k \in Conn, m \in InboundMessage : Network!Accept(k, m)
  <2> PICK k \in Conn, m \in InboundMessage : Network!Accept(k, m)
      BY <1>4
  <2>1. /\ conn[k].at = "new" /\ UNCHANGED <<seenMsgIds, fresh, delivered>>
        /\ \/ conn' = [conn EXCEPT ![k].at = "closed"]
           \/ conn' = [conn EXCEPT ![k] = [at |-> "queued", brings |-> m]]
      BY DEF Network!Accept, Network!At, Network!Move
  <2>2. ConnsOK' /\ \A l \in Conn : \/ conn'[l] = conn[l]
                                    \/ conn[l].at # "dispatch" /\ conn'[l].at # "dispatch"
      BY <1>1, <2>1 DEF ConnsOK
  <2> QED BY <2>1, <2>2, NothingDispatched
<1>5. CASE \E k \in Conn : Network!RecvFails(k) \/ Network!Recv(k)
  <2> PICK k \in Conn : Network!RecvFails(k) \/ Network!Recv(k)
      BY <1>5
  <2>1. /\ conn[k].at = "queued" /\ UNCHANGED <<seenMsgIds, fresh, delivered>>
        /\ \/ conn' = [conn EXCEPT ![k].at = "closed"]
           \/ conn' = [conn EXCEPT ![k].at = "read"]
      BY DEF Network!RecvFails, Network!Recv, Network!At, Network!Move
  <2>2. ConnsOK' /\ \A l \in Conn : \/ conn'[l] = conn[l]
                                    \/ conn[l].at # "dispatch" /\ conn'[l].at # "dispatch"
      BY <1>1, <2>1 DEF ConnsOK
  <2> QED BY <2>1, <2>2, NothingDispatched
<1>6. CASE \/ Network!Start \/ Network!LoadStores \/ Network!ConnectToPeer
           \/ Network!Stop \/ Network!Drained \/ Network!SaveStores
  <2>1. UNCHANGED <<conn, seenMsgIds, fresh, delivered>>
      BY <1>6 DEF Network!Start, Network!LoadStores, Network!ConnectToPeer, Network!Stop,
                  Network!Drained, Network!SaveStores
  <2>2. ConnsOK'
      BY <1>1, <2>1 DEF ConnsOK
  <2> QED BY <2>1, <2>2, NothingDispatched
<1> QED
    BY <1>2, <1>3, <1>4, <1>5, <1>6 DEF Network!Next

\* NetworkInv holds at the start and is kept.
LEMMA NetworkKept ==
    /\ Network!Init => NetworkInv
    /\ NetworkInv /\ [Network!Next]_(Network!networkVars) => NetworkInv'
<1>1. ASSUME Network!Init PROVE NetworkInv
  <2>1. /\ conn = [k \in Conn |-> [at |-> "new", brings |-> Network!NoFrame]]
        /\ fresh = {} /\ seenMsgIds = {} /\ delivered = [p \in Network!Prefix |-> 0]
      BY <1>1 DEF Network!Init
  <2>2. ConnsOK
      BY <2>1 DEF ConnsOK
  <2>3. \A p : OnTheirWay(p) = {}
      BY <2>1 DEF OnTheirWay
  <2> QED BY <2>1, <2>2, <2>3, FS_EmptySet DEF NetworkInv
<1>2. ASSUME NetworkInv, UNCHANGED Network!networkVars PROVE NetworkInv'
  <2>1. UNCHANGED <<conn, seenMsgIds, fresh, delivered>>
      BY <1>2 DEF Network!networkVars
  <2>2. ConnsOK'
      BY <1>2, <2>1 DEF NetworkInv, ConnsOK
  <2> QED BY <1>2, <2>1, <2>2, NothingDispatched
<1> QED
    BY <1>1, <1>2, NetworkStep

\* No step of the other units breaks it.
THEOREM NetworkInvariant == UnitsSpec => [](unit = "network" => NetworkInv)
<1> DEFINE Inv == unit = "network" => NetworkInv
<1>1. UnitsInit => Inv
    BY NetworkKept DEF UnitsInit, IdentityInit, AccountsInit, KeysInit, ConnectionsInit,
                       SubmitInit, LimiterInit, PowInit, RegistryInit, NetworkInit, PoolsInit,
                       EvmInit, PeersInit
<1>2. Inv /\ [UnitsNext]_<<unit, unitVars>> => Inv'
  <2> SUFFICES ASSUME Inv, [UnitsNext]_<<unit, unitVars>>, unit' = "network" PROVE NetworkInv'
      OBVIOUS
  <2>1. unit = "network" /\ [Network!Next]_(Network!networkVars)
      BY DEF UnitsNext, IdentityNext, AccountsNext, KeysNext, ConnectionsNext, SubmitNext,
             LimiterNext, PowNext, RegistryNext, NetworkNext, PoolsNext, EvmNext, PeersNext,
             unitVars, inboundVars,
             Network!networkVars
  <2> QED BY <2>1, NetworkKept
<1> QED
    BY <1>1, <1>2, PTL DEF UnitsSpec

\* A prefix that is remembered was handed to a callback once, or is on its
\* way, for any number of connections, workers and prefixes, however often
\* the set of them is cleared (handleInbound and dispatchFrame).
THEOREM CallbacksReachedOnce == UnitsSpec => []ReachesCallbackOnce
<1>1. (unit = "network" => NetworkInv) => ReachesCallbackOnce
  <2> SUFFICES ASSUME NetworkInv PROVE Network!ReachesCallbackOnce
      BY DEF ReachesCallbackOnce
  <2>1. \A p : OnTheirWay(p) =
                   {k \in Network!At("dispatch") \cap fresh : PrefixOf[conn[k].brings] = p}
      BY DEF OnTheirWay, Network!At
  <2>2. \A S : Network!Cardinality(S) = Cardinality(S)
      BY DEF Network!Cardinality, Cardinality
  <2>3. \A p \in Network!Prefix :
            Whole(p) => delivered[p] + Cardinality(OnTheirWay(p)) =
                            IF p \in seenMsgIds THEN 1 ELSE 0
      BY DEF NetworkInv
  <2> QED BY <2>1, <2>2, <2>3 DEF Network!ReachesCallbackOnce, Whole
<1> QED
    BY <1>1, NetworkInvariant, PTL

-----------------------------------------------------------------------------
(* Token buckets: MedorRateLimiter                                         *)

\* What a key was allowed, in time.
Spent(k) == granted[k] * Limiter!NsPerToken

LimiterTypeOK ==
    /\ clock \in Nat \ {0}
    /\ bucket = [k \in LimitedKey |-> bucket[k]]
    /\ granted \in [LimitedKey -> Nat] /\ reading \in [LimitedKey -> Nat]
    /\ slack \in [LimitedKey -> Nat]
    /\ call = [t \in NodeThread |-> call[t]]

\* A call has not waited for longer than it may, and the janitor looks for what
\* was idle when it woke.
ReadingsOK ==
    /\ \A t \in NodeThread : call[t] # Limiter!NoCall =>
           /\ call[t].key \in LimitedKey
           /\ call[t].now \in 1..clock /\ clock - call[t].now <= MaxStall
    /\ janitor.left # {} => janitor.cutoff \in Int /\ janitor.cutoff <= clock - IdleTimeout

\* A key that never called; one with a bucket, whose credit is not yet spent;
\* and one whose bucket was taken away, or swept when it was full again.
Fresh(k) == bucket[k] = Limiter!NoBucket /\ reading[k] = 0 /\ granted[k] = 0
Filled(k) ==
    /\ bucket[k].seen = reading[k] /\ reading[k] \in 1..clock
    /\ bucket[k].credit \in 0..Limiter!MaxCredit
    /\ Spent(k) + bucket[k].credit <= Limiter!MaxCredit + (reading[k] - 1) + slack[k]
Emptied(k) ==
    /\ bucket[k] = Limiter!NoBucket /\ reading[k] \in 1..clock
    /\ \/ Spent(k) <= (reading[k] - 1) + slack[k]
       \/ Spent(k) <= (clock - MaxStall - 1) + slack[k]

BucketsOK == \A k \in LimitedKey : Fresh(k) \/ Filled(k) \/ Emptied(k)

LimiterInv == LimiterTypeOK /\ ReadingsOK /\ BucketsOK

\* A token and a burst take a time.
LEMMA Sizes ==
    /\ Limiter!NsPerToken \in Nat /\ Limiter!MaxCredit \in Nat
    /\ Limiter!MaxCredit + MaxStall <= IdleTimeout + 1
<1>1. Limiter!NsPerToken \in Nat
    BY LimiterAssumption DEF Limiter!NsPerToken
<1>2. Limiter!MaxCredit \in Nat
  <2>1. PICK burst : burst = IF BurstSize < RequestsPerSecond THEN RequestsPerSecond ELSE BurstSize
      OBVIOUS
  <2>2. burst \in Nat /\ Limiter!MaxCredit = burst * Limiter!NsPerToken
      BY <2>1, LimiterAssumption DEF Limiter!MaxCredit
  <2> QED BY <1>1, <2>2
<1> QED
    BY <1>1, <1>2, LimiterAssumption

\* What a call costs.
LEMMA SpentMore ==
    ASSUME NEW g \in Nat
    PROVE  /\ g * Limiter!NsPerToken \in Nat
           /\ (g + 1) * Limiter!NsPerToken = g * Limiter!NsPerToken + Limiter!NsPerToken
<1>1. PICK n : n = Limiter!NsPerToken
    OBVIOUS
<1>2. n \in Nat
    BY <1>1, Sizes
<1>3. g * n \in Nat /\ (g + 1) * n = g * n + n
    BY <1>2
<1> QED BY <1>1, <1>3

\* The fields of an absent bucket.
LEMMA NoBucketFields == Limiter!NoBucket.credit = 0 /\ Limiter!NoBucket.seen = 0
BY DEF Limiter!NoBucket

\* A bucket that a call finds and fills up does not hold more than the time
\* since pays for, with what the order of the readings gives twice.
LEMMA FilledUp ==
    ASSUME LimiterInv, NEW k \in LimitedKey, NEW now \in 1..clock, clock - now <= MaxStall,
           NEW l, l = slack[k] + (IF now < reading[k] THEN reading[k] - now ELSE 0),
           NEW b, b = Limiter!Credited(bucket[k], now)
    PROVE  /\ b = [credit |-> b.credit, seen |-> now]
           /\ b.credit \in 0..Limiter!MaxCredit /\ l \in Nat
           /\ Spent(k) + b.credit <= Limiter!MaxCredit + (now - 1) + l
<1>1. PICK m, n, r, s, p : /\ m = Limiter!MaxCredit /\ r = reading[k]
                           /\ s = slack[k] /\ p = Spent(k) /\ n = clock
    OBVIOUS
<1>2. /\ m \in Nat /\ r \in Nat /\ s \in Nat /\ p \in Nat /\ n \in Nat /\ MaxStall \in Nat
      /\ granted[k] = 0 => p = 0
    BY <1>1, Sizes, SpentMore, LimiterAssumption DEF LimiterInv, LimiterTypeOK, Spent
<1>3. l \in Nat /\ l >= s /\ (now < r => l = s + (r - now)) /\ now \in 1..n /\ n - now <= MaxStall
    BY <1>1, <1>2
<1>4. CASE bucket[k] = Limiter!NoBucket
  <2>1. b = [credit |-> m, seen |-> now]
      BY <1>1, <1>4, NoBucketFields DEF Limiter!Credited
  <2>2. b.credit = m /\ b.seen = now
      BY <2>1
  <2>3. \/ r = 0 /\ p = 0
        \/ r \in 1..n /\ (p <= (r - 1) + s \/ p <= (n - MaxStall - 1) + s)
      BY <1>1, <1>2, <1>4, NoBucketFields DEF LimiterInv, BucketsOK, Fresh, Filled, Emptied
  <2>4. p + m <= m + (now - 1) + l
      BY <1>2, <1>3, <2>3
  <2> QED BY <1>1, <1>2, <1>3, <2>1, <2>2, <2>4
<1>5. CASE bucket[k] # Limiter!NoBucket
  <2>1. PICK c, e : c = bucket[k].credit /\ e = bucket[k].seen
      OBVIOUS
  <2>2. /\ e = r /\ r \in 1..n /\ c \in 0..m /\ p + c <= m + (r - 1) + s
      BY <1>1, <1>5, <2>1 DEF LimiterInv, BucketsOK, Fresh, Filled, Emptied
  <2>3. PICK x : x = IF now <= e THEN c ELSE IF c + (now - e) > m THEN m ELSE c + (now - e)
      OBVIOUS
  <2>4. b = [credit |-> x, seen |-> now]
      BY <1>1, <2>1, <2>2, <2>3 DEF Limiter!Credited
  <2>5. b.credit = x /\ b.seen = now
      BY <2>4
  <2>6. x \in 0..m /\ p + x <= m + (now - 1) + l
    <3>1. CASE now <= e
        BY <1>2, <1>3, <2>2, <2>3, <3>1
    <3>2. CASE now > e
        BY <1>2, <1>3, <2>2, <2>3, <3>2
    <3> QED BY <1>2, <1>3, <2>2, <3>1, <3>2
  <2> QED BY <1>1, <1>3, <2>4, <2>5, <2>6
<1> QED BY <1>4, <1>5

\* A key nothing happens to but that time passes.
LEMMA KeyKept ==
    ASSUME LimiterInv, NEW k \in LimitedKey, clock' \in Nat, clock' >= clock,
           bucket'[k] = bucket[k], granted'[k] = granted[k], reading'[k] = reading[k],
           slack'[k] = slack[k]
    PROVE  Fresh(k)' \/ Filled(k)' \/ Emptied(k)'
<1>1. Spent(k)' = Spent(k) /\ Spent(k) \in Nat
    BY SpentMore DEF Spent, LimiterInv, LimiterTypeOK
<1>2. slack[k] \in Nat /\ reading[k] \in Nat /\ clock \in Nat /\ MaxStall \in Nat
    BY LimiterAssumption DEF LimiterInv, LimiterTypeOK
<1>3. Limiter!MaxCredit' = Limiter!MaxCredit /\ Limiter!NoBucket' = Limiter!NoBucket
    BY DEF Limiter!MaxCredit, Limiter!NsPerToken, Limiter!NoBucket
<1>4. CASE Fresh(k)
    BY <1>3, <1>4 DEF Fresh
<1>5. CASE Filled(k)
    BY <1>1, <1>2, <1>3, <1>5 DEF Filled
<1>6. CASE Emptied(k)
  <2>1. PICK p, r, n, s : p = Spent(k) /\ r = reading[k] /\ n = clock /\ s = slack[k]
      OBVIOUS
  <2>2. /\ p \in Nat /\ n \in Nat /\ s \in Nat /\ r \in 1..n
        /\ p <= (r - 1) + s \/ p <= (n - MaxStall - 1) + s
      BY <1>1, <1>2, <1>6, <2>1 DEF Emptied
  <2>3. PICK m : m = clock'
      OBVIOUS
  <2>4. r \in 1..m /\ (p <= (r - 1) + s \/ p <= (m - MaxStall - 1) + s)
      BY <1>2, <2>1, <2>2, <2>3
  <2> QED BY <1>1, <1>3, <1>6, <2>1, <2>3, <2>4 DEF Emptied
<1> QED BY <1>4, <1>5, <1>6 DEF LimiterInv, BucketsOK

\* A call takes a token if there is one.
LEMMA AllowStep ==
    ASSUME LimiterInv, NEW t \in NodeThread, Limiter!Allow(t)
    PROVE  LimiterInv'
<1>1. PICK k, now, b, l :
          /\ k = call[t].key /\ now = call[t].now
          /\ b = Limiter!Credited(bucket[k], now)
          /\ l = slack[k] + (IF now < reading[k] THEN reading[k] - now ELSE 0)
    OBVIOUS
<1>2. k \in LimitedKey /\ now \in 1..clock /\ clock - now <= MaxStall
    BY <1>1 DEF LimiterInv, ReadingsOK, Limiter!Allow
<1>3. /\ b = [credit |-> b.credit, seen |-> now]
      /\ b.credit \in 0..Limiter!MaxCredit /\ l \in Nat
      /\ Spent(k) + b.credit <= Limiter!MaxCredit + (now - 1) + l
    BY <1>1, <1>2, FilledUp
<1>4. /\ \/ /\ bucket' = [bucket EXCEPT ![k] = b] /\ UNCHANGED granted
         \/ /\ b.credit >= Limiter!NsPerToken
            /\ bucket' = [bucket EXCEPT ![k] = [b EXCEPT !.credit = @ - Limiter!NsPerToken]]
            /\ granted' = [granted EXCEPT ![k] = @ + 1]
      /\ slack' = [slack EXCEPT ![k] = l]
      /\ reading' = [reading EXCEPT ![k] = now]
      /\ call' = [call EXCEPT ![t] = Limiter!NoCall]
      /\ UNCHANGED <<clock, janitor>>
  <2>1. b.credit < Limiter!NsPerToken \/ b.credit >= Limiter!NsPerToken
      BY <1>3, Sizes
  <2> QED BY <1>1, <2>1 DEF Limiter!Allow
<1>5. /\ bucket' = [j \in LimitedKey |-> bucket'[j]]
      /\ granted' \in [LimitedKey -> Nat] /\ reading' \in [LimitedKey -> Nat]
      /\ slack' \in [LimitedKey -> Nat]
      /\ call' = [u \in NodeThread |-> call'[u]]
    BY <1>2, <1>3, <1>4 DEF LimiterInv, LimiterTypeOK
<1>6. \A u \in NodeThread : call'[u] # Limiter!NoCall => call'[u] = call[u]
    BY <1>4 DEF LimiterInv, LimiterTypeOK
<1>7. ReadingsOK'
    BY <1>4, <1>6 DEF LimiterInv, ReadingsOK, Limiter!NoCall
<1>8. Filled(k)'
  <2>1. reading'[k] = now /\ slack'[k] = l /\ granted[k] \in Nat /\ k \in DOMAIN bucket
        /\ clock \in Nat
      BY <1>2, <1>4 DEF LimiterInv, LimiterTypeOK
  <2>2. PICK n, m, p : n = Limiter!NsPerToken /\ m = Limiter!MaxCredit /\ p = Spent(k)
      OBVIOUS
  <2>3. n \in Nat /\ m \in Nat /\ p \in Nat
      BY <2>1, <2>2, Sizes, SpentMore DEF Spent
  <2>4. /\ bucket'[k].seen = now /\ bucket'[k].credit \in 0..m
        /\ Spent(k)' + bucket'[k].credit = p + b.credit
    <3>1. CASE bucket' = [bucket EXCEPT ![k] = b] /\ UNCHANGED granted
      <4>1. bucket'[k] = b /\ Spent(k)' = p
          BY <2>1, <2>2, <3>1 DEF Spent, Limiter!NsPerToken
      <4> QED BY <1>3, <2>2, <4>1
    <3>2. CASE /\ b.credit >= Limiter!NsPerToken
               /\ bucket' = [bucket EXCEPT ![k] = [b EXCEPT !.credit = @ - Limiter!NsPerToken]]
               /\ granted' = [granted EXCEPT ![k] = @ + 1]
      <4>1. PICK e : e = [b EXCEPT !.credit = @ - n]
          OBVIOUS
      <4>2. e.credit = b.credit - n /\ e.seen = now
          BY <1>3, <4>1
      <4>3. bucket'[k] = e
          BY <2>1, <2>2, <3>2, <4>1
      <4>4. granted'[k] = granted[k] + 1
          BY <2>1, <3>2 DEF LimiterInv, LimiterTypeOK
      <4>5. Spent(k)' = p + n
        <5>1. Spent(k)' = granted'[k] * Limiter!NsPerToken
            BY DEF Spent, Limiter!NsPerToken
        <5> QED BY <2>1, <2>2, <4>4, <5>1, SpentMore DEF Spent
      <4> QED BY <1>3, <2>2, <2>3, <3>2, <4>2, <4>3, <4>5
    <3> QED BY <1>4, <3>1, <3>2
  <2>5. Limiter!MaxCredit' = m /\ clock' = clock
      BY <1>4, <2>2 DEF Limiter!MaxCredit, Limiter!NsPerToken
  <2> QED BY <1>2, <1>3, <2>1, <2>2, <2>3, <2>4, <2>5 DEF Filled
<1>9. ASSUME NEW j \in LimitedKey, j # k PROVE Fresh(j)' \/ Filled(j)' \/ Emptied(j)'
  <2>1. /\ bucket'[j] = bucket[j] /\ granted'[j] = granted[j] /\ reading'[j] = reading[j]
        /\ slack'[j] = slack[j]
      BY <1>4, <1>9 DEF LimiterInv, LimiterTypeOK
  <2>2. clock' \in Nat /\ clock' >= clock
      BY <1>4 DEF LimiterInv, LimiterTypeOK
  <2> QED BY <2>1, <2>2, KeyKept
<1>10. LimiterTypeOK'
    BY <1>4, <1>5 DEF LimiterInv, LimiterTypeOK
<1> QED BY <1>7, <1>8, <1>9, <1>10 DEF LimiterInv, BucketsOK

\* A bucket a caller takes away comes back full, which is counted.
LEMMA TakenAwayStep ==
    ASSUME LimiterInv, NEW K, Limiter!TakenAway(K)
    PROVE  LimiterInv'
<1>1. /\ bucket' = [k \in LimitedKey |-> IF k \in K THEN Limiter!NoBucket ELSE bucket[k]]
      /\ slack' = [k \in LimitedKey |->
           slack[k] + (IF k \in K /\ bucket[k] # Limiter!NoBucket THEN Limiter!MaxCredit ELSE 0)]
      /\ UNCHANGED <<clock, call, janitor, granted, reading>>
    BY DEF Limiter!TakenAway
<1>2. LimiterTypeOK' /\ ReadingsOK'
  <2>1. \A k \in LimitedKey : slack'[k] \in Nat
      BY <1>1, Sizes DEF LimiterInv, LimiterTypeOK
  <2> QED BY <1>1, <2>1 DEF LimiterInv, LimiterTypeOK, ReadingsOK, Limiter!NoCall
<1>3. ASSUME NEW k \in LimitedKey PROVE Fresh(k)' \/ Filled(k)' \/ Emptied(k)'
  <2>1. /\ granted'[k] = granted[k] /\ reading'[k] = reading[k] /\ slack[k] \in Nat
        /\ clock' \in Nat /\ clock' >= clock /\ clock' = clock
      BY <1>1 DEF LimiterInv, LimiterTypeOK
  <2>2. CASE k \in K /\ bucket[k] # Limiter!NoBucket
    <3>1. bucket'[k] = Limiter!NoBucket /\ slack'[k] = slack[k] + Limiter!MaxCredit
        BY <1>1, <2>2
    <3>2. Filled(k) /\ Spent(k) \in Nat
        BY <2>2, SpentMore DEF LimiterInv, BucketsOK, Fresh, Emptied, LimiterTypeOK, Spent
    <3>3. PICK c, m, p, r, s : /\ c = bucket[k].credit /\ m = Limiter!MaxCredit /\ p = Spent(k)
                               /\ r = reading[k] /\ s = slack[k]
        OBVIOUS
    <3>4. /\ c \in 0..m /\ m \in Nat /\ p \in Nat /\ s \in Nat /\ r \in 1..clock /\ clock \in Nat
          /\ p + c <= m + (r - 1) + s
        BY <2>1, <3>2, <3>3, Sizes DEF Filled, LimiterInv, LimiterTypeOK
    <3>5. p <= (r - 1) + (s + m)
        BY <3>4
    <3>6. Spent(k)' = p /\ Limiter!NoBucket' = Limiter!NoBucket
        BY <1>1, <3>3 DEF Spent, Limiter!NsPerToken, Limiter!NoBucket
    <3> QED BY <2>1, <3>1, <3>3, <3>4, <3>5, <3>6 DEF Emptied
  <2>3. CASE ~(k \in K /\ bucket[k] # Limiter!NoBucket)
    <3>1. bucket'[k] = bucket[k] /\ slack'[k] = slack[k]
        BY <1>1, <2>1, <2>3
    <3> QED BY <2>1, <3>1, KeyKept
  <2> QED BY <2>2, <2>3
<1> QED BY <1>2, <1>3 DEF LimiterInv, BucketsOK

\* A bucket the janitor sweeps was full again before, and a call that still
\* waits for its shard has not read the clock too early to know.
LEMMA SweepStep ==
    ASSUME LimiterInv, Limiter!SweepShard
    PROVE  LimiterInv'
<1>1. PICK sh : sh = Limiter!Smallest(janitor.left)
    OBVIOUS
<1>2. /\ janitor.left # {}
      /\ bucket' = [k \in LimitedKey |-> IF ShardOf[k] = sh THEN Limiter!Swept(bucket[k])
                                     ELSE bucket[k]]
      /\ janitor' = [janitor EXCEPT !.left = @ \ {sh}]
      /\ UNCHANGED <<clock, call, granted, reading, slack>>
    BY <1>1 DEF Limiter!SweepShard
<1>3. LimiterTypeOK' /\ ReadingsOK'
  <2>1. janitor'.left # {} => janitor'.cutoff = janitor.cutoff
      BY <1>2
  <2> QED BY <1>2, <2>1 DEF LimiterInv, LimiterTypeOK, ReadingsOK, Limiter!NoCall
<1>4. ASSUME NEW k \in LimitedKey PROVE Fresh(k)' \/ Filled(k)' \/ Emptied(k)'
  <2>1. /\ granted'[k] = granted[k] /\ reading'[k] = reading[k] /\ slack'[k] = slack[k]
        /\ slack[k] \in Nat /\ clock' \in Nat /\ clock' >= clock /\ clock' = clock
      BY <1>2 DEF LimiterInv, LimiterTypeOK
  <2>2. CASE bucket'[k] = bucket[k]
      BY <2>1, <2>2, KeyKept
  <2>3. CASE bucket'[k] # bucket[k]
    <3>1. bucket'[k] = Limiter!NoBucket /\ bucket[k].seen < janitor.cutoff
        BY <1>2, <2>3 DEF Limiter!Swept
    <3>2. Filled(k) /\ Spent(k) \in Nat
        BY <2>3, <3>1, SpentMore DEF LimiterInv, BucketsOK, Fresh, Emptied, LimiterTypeOK, Spent
    <3>3. PICK c, m, p, r, s, n, x :
              /\ c = bucket[k].credit /\ m = Limiter!MaxCredit /\ p = Spent(k)
              /\ r = reading[k] /\ s = slack[k] /\ n = clock /\ x = janitor.cutoff
        OBVIOUS
    <3>4. /\ c \in 0..m /\ m \in Nat /\ p \in Nat /\ s \in Nat /\ n \in Nat /\ r \in 1..n
          /\ p + c <= m + (r - 1) + s
          /\ x \in Int /\ r < x /\ x <= n - IdleTimeout
        BY <1>2, <2>1, <3>1, <3>2, <3>3, Sizes DEF Filled, LimiterInv, LimiterTypeOK, ReadingsOK
    <3>5. m + MaxStall <= IdleTimeout + 1 /\ MaxStall \in Nat /\ IdleTimeout \in Nat
        BY <3>3, Sizes, LimiterAssumption
    <3>6. p <= (n - MaxStall - 1) + s
        BY <3>4, <3>5
    <3>7. Spent(k)' = p /\ Limiter!NoBucket' = Limiter!NoBucket
        BY <1>2, <3>3 DEF Spent, Limiter!NsPerToken, Limiter!NoBucket
    <3> QED BY <2>1, <3>1, <3>3, <3>4, <3>6, <3>7 DEF Emptied
  <2> QED BY <2>2, <2>3
<1> QED BY <1>3, <1>4 DEF LimiterInv, BucketsOK

\* Each step of the limiter, of its callers and of its janitor.
LEMMA LimiterKept ==
    /\ Limiter!Init => LimiterInv
    /\ LimiterInv /\ [Limiter!Next]_(Limiter!limiterVars) => LimiterInv'
<1>1. Limiter!Init => LimiterInv
    BY DEF Limiter!Init, LimiterInv, LimiterTypeOK, ReadingsOK, BucketsOK, Fresh
<1>2. ASSUME LimiterInv, [Limiter!Next]_(Limiter!limiterVars) PROVE LimiterInv'
  <2>1. ASSUME UNCHANGED <<bucket, granted, reading, slack>>, clock' \in Nat, clock' >= clock,
               call' = [t \in NodeThread |-> call'[t]], ReadingsOK'
        PROVE  LimiterInv'
    <3>1. \A k \in LimitedKey : Fresh(k)' \/ Filled(k)' \/ Emptied(k)'
        BY <1>2, <2>1, KeyKept
    <3>2. LimiterTypeOK'
        BY <1>2, <2>1 DEF LimiterInv, LimiterTypeOK
    <3> QED BY <3>1, <3>2, <2>1 DEF LimiterInv, BucketsOK
  <2>2. clock \in Nat \ {0} /\ call = [t \in NodeThread |-> call[t]] /\ MaxStall \in Nat
        /\ IdleTimeout \in Nat
      BY <1>2, LimiterAssumption DEF LimiterInv, LimiterTypeOK
  <2>3. CASE Limiter!Tick
    <3>1. ReadingsOK'
      <4>1. clock' = clock + 1 /\ UNCHANGED <<call, janitor>>
            /\ \A t \in NodeThread : call[t] # Limiter!NoCall => clock - call[t].now < MaxStall
          BY <2>3 DEF Limiter!Tick
      <4>2. Limiter!NoCall' = Limiter!NoCall
          BY DEF Limiter!NoCall
      <4> QED BY <1>2, <2>2, <4>1, <4>2 DEF LimiterInv, ReadingsOK
    <3> QED BY <2>1, <2>2, <2>3, <3>1 DEF Limiter!Tick
  <2>4. ASSUME NEW t \in NodeThread, NEW k \in LimitedKey, Limiter!ReadClock(t, k) PROVE LimiterInv'
    <3>1. /\ call' = [call EXCEPT ![t] = [key |-> k, now |-> clock]]
          /\ UNCHANGED <<clock, bucket, janitor, granted, reading, slack>>
        BY <2>4 DEF Limiter!ReadClock
    <3>2. ReadingsOK'
        BY <1>2, <2>2, <3>1 DEF LimiterInv, ReadingsOK, Limiter!NoCall
    <3>3. call' = [u \in NodeThread |-> call'[u]]
        BY <2>2, <3>1
    <3> QED BY <2>1, <2>2, <3>1, <3>2, <3>3
  <2>5. ASSUME NEW t \in NodeThread, Limiter!Allow(t) PROVE LimiterInv'
      BY <1>2, <2>5, AllowStep
  <2>6. ASSUME NEW k \in LimitedKey, Limiter!Evict(k) PROVE LimiterInv'
      BY <1>2, <2>6, TakenAwayStep DEF Limiter!Evict
  <2>7. CASE Limiter!Clear \/ UNCHANGED Limiter!limiterVars
    <3>1. UNCHANGED <<clock, call, janitor, bucket, granted, reading, slack>>
        BY <2>7 DEF Limiter!Clear, Limiter!limiterVars
    <3>2. ReadingsOK'
        BY <1>2, <3>1 DEF LimiterInv, ReadingsOK, Limiter!NoCall
    <3> QED BY <2>1, <2>2, <3>1, <3>2
  <2>8. CASE Limiter!ClearShard
      BY <1>2, <2>8, TakenAwayStep DEF Limiter!ClearShard
  <2>9. CASE Limiter!JanitorWakes
    <3>1. /\ janitor' = [cutoff |-> clock - IdleTimeout, left |-> Shards]
          /\ UNCHANGED <<clock, call, bucket, granted, reading, slack>>
        BY <2>9 DEF Limiter!JanitorWakes
    <3>2. ReadingsOK'
        BY <1>2, <2>2, <3>1 DEF LimiterInv, ReadingsOK, Limiter!NoCall
    <3> QED BY <2>1, <2>2, <3>1, <3>2
  <2>10. CASE Limiter!SweepShard
      BY <1>2, <2>10, SweepStep
  <2> QED
      BY <1>2, <2>3, <2>4, <2>5, <2>6, <2>7, <2>8, <2>9, <2>10 DEF Limiter!Next
<1> QED BY <1>1, <1>2

\* What the invariant allows of a key, whatever its bucket.
LEMMA RateWithin == LimiterInv => Limiter!RateHolds
<1> SUFFICES ASSUME LimiterInv, NEW k \in LimitedKey
             PROVE  granted[k] * Limiter!NsPerToken
                        <= Limiter!MaxCredit + (clock - 1) + slack[k]
    BY DEF Limiter!RateHolds
<1>1. PICK m, p, r, s, n : /\ m = Limiter!MaxCredit /\ p = Spent(k) /\ r = reading[k]
                           /\ s = slack[k] /\ n = clock
    OBVIOUS
<1>2. /\ m \in Nat /\ p \in Nat /\ s \in Nat /\ n \in Nat \ {0} /\ MaxStall \in Nat
      /\ granted[k] = 0 => p = 0
    BY <1>1, Sizes, SpentMore, LimiterAssumption DEF LimiterInv, LimiterTypeOK, Spent
<1>3. CASE Fresh(k)
    BY <1>1, <1>2, <1>3 DEF Fresh, Spent
<1>4. CASE Filled(k)
    BY <1>1, <1>2, <1>4 DEF Filled, Spent
<1>5. CASE Emptied(k)
  <2>1. r \in 1..n /\ (p <= (r - 1) + s \/ p <= (n - MaxStall - 1) + s)
      BY <1>1, <1>5 DEF Emptied
  <2>2. p <= m + (n - 1) + s
      BY <1>2, <2>1
  <2> QED BY <1>1, <2>2 DEF Spent
<1> QED BY <1>3, <1>4, <1>5 DEF LimiterInv, BucketsOK

\* No step of the other units breaks it.
THEOREM LimiterInvariant == UnitsSpec => [](unit = "limiter" => LimiterInv)
<1> DEFINE Inv == unit = "limiter" => LimiterInv
<1>1. UnitsInit => Inv
    BY LimiterKept DEF UnitsInit, IdentityInit, AccountsInit, KeysInit, ConnectionsInit,
                       SubmitInit, LimiterInit, PowInit, RegistryInit, NetworkInit, PoolsInit,
                       EvmInit, PeersInit
<1>2. Inv /\ [UnitsNext]_<<unit, unitVars>> => Inv'
  <2> SUFFICES ASSUME Inv, [UnitsNext]_<<unit, unitVars>>, unit' = "limiter"
               PROVE  LimiterInv'
      OBVIOUS
  <2>1. unit = "limiter" /\ [Limiter!Next]_(Limiter!limiterVars)
      BY DEF UnitsNext, IdentityNext, AccountsNext, KeysNext, ConnectionsNext,
             SubmitNext, LimiterNext, PowNext, RegistryNext, NetworkNext, PoolsNext, EvmNext,
             PeersNext, unitVars, bucketVars, Limiter!limiterVars
  <2> QED BY <2>1, LimiterKept
<1> QED
    BY <1>1, <1>2, PTL DEF UnitsSpec

\* Whatever races for the lock, sweeps and removals there are, a key is not
\* allowed more than a burst and what the time pays for, with what readings out
\* of order and removals by a caller give it (src/src/rate_limiter.cpp:88-121).
THEOREM RateStaysHeld == UnitsSpec => []RateHolds
<1>1. (unit = "limiter" => LimiterInv) => RateHolds
    BY RateWithin DEF RateHolds
<1> QED
    BY <1>1, LimiterInvariant, PTL

-----------------------------------------------------------------------------
(* Messages marked as seen: MedorMessageHandler                            *)

\* The active bucket holds what was accepted since it was last rotated, and
\* the two together HalfSeen messages more.
Recent(a, b, acc, n, k) ==
    /\ \A i \in 1..n : i > n - k => acc[i] \in a
    /\ \A i \in 1..n : i > n - k - HalfSeen => acc[i] \in a \cup b
FarApart(acc, n) ==
    \A i, j \in 1..n : i < j /\ acc[i] = acc[j] => j - i > HalfSeen

SeenInv ==
    /\ \E S : accepted \in Seq(S)
    /\ IsFiniteSet(seenActive) /\ Cardinality(seenActive) < HalfSeen
    /\ Recent(seenActive, seenStale, accepted, Len(accepted), Cardinality(seenActive))
    /\ FarApart(accepted, Len(accepted))

\* All is forgotten.
LEMMA AllForgotten ==
    ASSUME accepted = <<>>, seenActive = {}
    PROVE  SeenInv
<1>1. accepted \in Seq({}) /\ Len(accepted) = 0 /\ 1..0 = {}
    OBVIOUS
<1>2. IsFiniteSet(seenActive) /\ Cardinality(seenActive) = 0
    BY FS_EmptySet
<1> QED
    BY <1>1, <1>2, PeersAssumption DEF SeenInv, Recent, FarApart

\* A message that neither bucket holds.
LEMMA MarkedSeen ==
    ASSUME SeenInv, NEW id, ~Peers!Seen(id), Peers!Mark(id)
    PROVE  SeenInv'
<1>1. PICK a, b, c, n, k, m :
          /\ a = seenActive /\ b = seenStale /\ c = accepted /\ n = Len(accepted)
          /\ k = Cardinality(seenActive) /\ m = a \cup {id}
    OBVIOUS
<1>2. PICK d : d = Append(c, id)
    OBVIOUS
<1>3. PICK S : c \in Seq(S)
    BY <1>1 DEF SeenInv
<1>4. /\ n \in Nat /\ Len(d) = n + 1 /\ d \in Seq(S \cup {id})
      /\ d[n + 1] = id /\ \A i \in 1..n : d[i] = c[i]
    BY <1>1, <1>2, <1>3
<1>5. /\ IsFiniteSet(a) /\ k \in Nat /\ k < HalfSeen /\ HalfSeen \in Nat /\ HalfSeen > 0
      /\ Recent(a, b, c, n, k) /\ FarApart(c, n)
    BY <1>1, FS_CardinalityType, PeersAssumption DEF SeenInv
<1>6. id \notin a /\ id \notin b
    BY <1>1 DEF Peers!Seen
<1>7. IsFiniteSet(m) /\ Cardinality(m) = k + 1
    BY <1>1, <1>5, <1>6, FS_AddElement
<1>8. /\ seenActive' = IF k + 1 >= HalfSeen THEN {} ELSE m
      /\ seenStale' = IF k + 1 >= HalfSeen THEN m ELSE b
      /\ accepted' = d
  <2>1. Peers!Cardinality(m) = Cardinality(m)
      BY DEF Peers!Cardinality, Cardinality
  <2> QED BY <1>1, <1>2, <1>7, <2>1 DEF Peers!Mark
<1>9. FarApart(d, n + 1)
  <2> SUFFICES ASSUME NEW i \in 1..(n + 1), NEW j \in 1..(n + 1), i < j, d[i] = d[j]
               PROVE  j - i > HalfSeen
      BY DEF FarApart
  <2>1. i \in 1..n
      BY <1>4
  <2>2. CASE j \in 1..n
      BY <1>4, <1>5, <2>1, <2>2 DEF FarApart
  <2>3. CASE j = n + 1
    <3>1. c[i] = id
        BY <1>4, <2>1, <2>3
    <3>2. ~(i > n - k - HalfSeen)
        BY <1>5, <1>6, <2>1, <3>1 DEF Recent
    <3> QED BY <1>4, <1>5, <2>1, <2>3, <3>2
  <2> QED BY <1>4, <2>2, <2>3
<1>10. \A i \in 1..(n + 1) : i > n - k => d[i] \in m
  <2> SUFFICES ASSUME NEW i \in 1..(n + 1), i > n - k PROVE d[i] \in m
      OBVIOUS
  <2>1. CASE i \in 1..n
      BY <1>1, <1>4, <1>5, <2>1 DEF Recent
  <2>2. CASE i = n + 1
      BY <1>1, <1>4, <2>2
  <2> QED BY <1>4, <2>1, <2>2
<1>11. CASE k + 1 >= HalfSeen
  <2>1. seenActive' = {} /\ seenStale' = m /\ k + 1 = HalfSeen
      BY <1>5, <1>8, <1>11
  <2>2. IsFiniteSet({}) /\ Cardinality({}) = 0
      BY FS_EmptySet
  <2>3. Recent({}, m, d, n + 1, 0)
      BY <1>4, <1>5, <1>10, <2>1 DEF Recent
  <2> QED BY <1>4, <1>5, <1>8, <1>9, <2>1, <2>2, <2>3 DEF SeenInv
<1>12. CASE ~(k + 1 >= HalfSeen)
  <2>1. seenActive' = m /\ seenStale' = b
      BY <1>8, <1>12
  <2>2. \A i \in 1..(n + 1) : i > n - k - HalfSeen => d[i] \in m \cup b
    <3> SUFFICES ASSUME NEW i \in 1..(n + 1), i > n - k - HalfSeen PROVE d[i] \in m \cup b
        OBVIOUS
    <3>1. CASE i \in 1..n
        BY <1>1, <1>4, <1>5, <3>1 DEF Recent
    <3>2. CASE i = n + 1
        BY <1>1, <1>4, <3>2
    <3> QED BY <1>4, <3>1, <3>2
  <2>3. n + 1 - (k + 1) = n - k
      BY <1>4, <1>5
  <2>4. Recent(m, b, d, n + 1, k + 1)
    <3>1. n \in Nat /\ k \in Nat /\ HalfSeen \in Nat
        BY <1>4, <1>5
    <3> QED BY <1>10, <2>2, <2>3, <3>1 DEF Recent
  <2>5. k + 1 < HalfSeen
      BY <1>5, <1>12
  <2> QED BY <1>4, <1>7, <1>8, <1>9, <2>1, <2>4, <2>5 DEF SeenInv
<1> QED
    BY <1>11, <1>12

\* SeenInv holds at the start and is kept.
LEMMA SeenKept ==
    /\ Peers!HandlerInit => SeenInv
    /\ SeenInv /\ [Peers!HandlerNext]_(Peers!handlerVars) => SeenInv'
<1>1. ASSUME Peers!HandlerInit PROVE SeenInv
  <2>1. accepted = <<>> /\ seenActive = {}
      BY <1>1 DEF Peers!HandlerInit, Peers!Init
  <2> QED BY <2>1, AllForgotten
<1> SUFFICES ASSUME SeenInv, [Peers!HandlerNext]_(Peers!handlerVars) PROVE SeenInv'
    BY <1>1
<1>2. ASSUME UNCHANGED <<seenActive, seenStale, accepted>> PROVE SeenInv'
    BY <1>2 DEF SeenInv, Recent, FarApart
<1>3. ASSUME accepted' = <<>>, seenActive' = {} PROVE SeenInv'
  <2>1. accepted' \in Seq({}) /\ Len(accepted') = 0 /\ 1..0 = {}
      BY <1>3
  <2>2. IsFiniteSet(seenActive') /\ Cardinality(seenActive') = 0
      BY <1>3, FS_EmptySet
  <2> QED BY <2>1, <2>2, PeersAssumption DEF SeenInv, Recent, FarApart
<1>4. CASE UNCHANGED Peers!handlerVars
    BY <1>2, <1>4 DEF Peers!handlerVars, Peers!pmVars
<1>5. CASE Peers!ManagerStep
  <2>1. CASE Peers!Start \/ Peers!ForgetSeen
      BY <1>3, <2>1 DEF Peers!Start, Peers!ForgetSeen
  <2>2. CASE Peers!Tick \/ Peers!CleanUp \/ Peers!SavePeers \/ Peers!EvictStalePeers
      BY <1>2, <2>2 DEF Peers!Tick, Peers!CleanUp, Peers!SavePeers, Peers!EvictStalePeers
  <2>3. CASE Peers!EvictLowScorePeers \/ Peers!UnbanExpiredPeers \/ Peers!ReadPeers
             \/ Peers!WriteFile
      BY <1>2, <2>3 DEF Peers!EvictLowScorePeers, Peers!UnbanExpiredPeers, Peers!ReadPeers,
                        Peers!WriteFile
  <2>4. ASSUME NEW p, Peers!AddPeer(p) PROVE SeenInv'
      BY <1>2, <2>4 DEF Peers!AddPeer
  <2>5. ASSUME NEW t, Peers!ChangePeer(t) \/ Peers!RemoveStale(t) PROVE SeenInv'
      BY <1>2, <2>5 DEF Peers!ChangePeer, Peers!RemoveStale
  <2> QED BY <1>5, <2>1, <2>2, <2>3, <2>4, <2>5 DEF Peers!ManagerStep
<1>6. ASSUME NEW t, NEW p, Peers!DoHandshake(t, p) PROVE SeenInv'
    BY <1>2, <1>6 DEF Peers!DoHandshake
<1>7. ASSUME NEW t, NEW p, NEW message, Peers!Receive(t, p, message) PROVE SeenInv'
    BY <1>2, <1>7 DEF Peers!Receive
<1>8. ASSUME NEW t, Peers!Dispatch(t) PROVE SeenInv'
  <2>1. PICK id : \/ UNCHANGED <<seenActive, seenStale, accepted>>
                  \/ ~Peers!Seen(id) /\ Peers!Mark(id)
      BY <1>8 DEF Peers!Dispatch
  <2> QED BY <1>2, <2>1, MarkedSeen
<1> QED
    BY <1>4, <1>5, <1>6, <1>7, <1>8 DEF Peers!HandlerNext

\* No step of the other units breaks it.
THEOREM SeenInvariant == UnitsSpec => [](unit = "peers" => SeenInv)
<1> DEFINE Inv == unit = "peers" => SeenInv
<1>1. UnitsInit => Inv
    BY SeenKept DEF UnitsInit, IdentityInit, AccountsInit, KeysInit, ConnectionsInit,
                    SubmitInit, LimiterInit, PowInit, RegistryInit, NetworkInit, PoolsInit,
                    EvmInit, PeersInit
<1>2. Inv /\ [UnitsNext]_<<unit, unitVars>> => Inv'
  <2> SUFFICES ASSUME Inv, [UnitsNext]_<<unit, unitVars>>, unit' = "peers" PROVE SeenInv'
      OBVIOUS
  <2>1. unit = "peers" /\ [Peers!HandlerNext]_(Peers!handlerVars)
      BY DEF UnitsNext, IdentityNext, AccountsNext, KeysNext, ConnectionsNext, SubmitNext,
             LimiterNext, PowNext, RegistryNext, NetworkNext, PoolsNext, EvmNext, PeersNext,
             unitVars, scoreVars, Peers!handlerVars, Peers!pmVars
  <2> QED BY <2>1, SeenKept
<1> QED
    BY <1>1, <1>2, PTL DEF UnitsSpec

\* A message is never taken for new again before half of what the buckets may
\* hold has been accepted since, unless all was forgotten in between.
THEOREM SeenNeverReplayed == UnitsSpec => []NoReplay
<1>1. (unit = "peers" => SeenInv) => NoReplay
  <2> SUFFICES ASSUME SeenInv PROVE Peers!NoReplay
      BY DEF NoReplay
  <2>1. PICK S : accepted \in Seq(S)
      BY DEF SeenInv
  <2>2. DOMAIN accepted = 1..Len(accepted)
      BY <2>1
  <2> QED BY <2>2 DEF SeenInv, FarApart, Peers!NoReplay
<1> QED
    BY <1>1, SeenInvariant, PTL

-----------------------------------------------------------------------------
(* Scores and bans: MedorPeerManager                                       *)

\* A peer is a record; one whose score is zero is banned.
PeerShape(r) ==
    r = [score |-> r.score, banned |-> r.banned, until |-> r.until, bans |-> r.bans,
         errors |-> r.errors, handshake |-> r.handshake, seen |-> r.seen,
         tokens |-> r.tokens, refill |-> r.refill]
SoundPeer(r) ==
    /\ PeerShape(r) /\ r.score \in Nat /\ r.banned \in BOOLEAN
    /\ r.score = 0 => r.banned
SoundTable(f) ==
    /\ f = [p \in DOMAIN f |-> f[p]] /\ IsFiniteSet(DOMAIN f)
    /\ \A p \in DOMAIN f : SoundPeer(f[p])

\* What a thread is about to do: a score moves by a number, and what is about
\* to be written was read from the peers.
SoundCall(c) ==
    /\ c.do = "score" => c.by \in Int
    /\ c.do = "write" => SoundTable(c.peers)
SoundCalls(s) == \E S : s \in Seq(S) /\ \A c \in S : SoundCall(c)

TodoOK ==
    /\ todo = [t \in Peers!Thread |-> todo[t]]
    /\ \A t \in Peers!Thread : SoundCalls(todo[t])

ScoresInv == SoundTable(scored) /\ SoundTable(peerFile) /\ TodoOK

\* The smaller and the larger of two numbers.
LEMMA OfTwo ==
    ASSUME NEW a \in Int, NEW b \in Int, NEW S, S = {a, b}
    PROVE  /\ Peers!Min(S) \in {a, b} /\ Peers!Min(S) <= a /\ Peers!Min(S) <= b
           /\ Peers!Max(S) \in {a, b} /\ Peers!Max(S) >= a /\ Peers!Max(S) >= b
<1>1. (\E x \in S : \A y \in S : x <= y) /\ (\E x \in S : \A y \in S : x >= y)
  <2>1. CASE a <= b
      BY <2>1
  <2>2. CASE b <= a
      BY <2>2
  <2> QED BY <2>1, <2>2
<1>2. Peers!Min(S) \in S /\ \A y \in S : Peers!Min(S) <= y
    BY <1>1 DEF Peers!Min
<1>3. Peers!Max(S) \in S /\ \A y \in S : Peers!Max(S) >= y
    BY <1>1 DEF Peers!Max
<1> QED
    BY <1>2, <1>3

\* A score stays between zero and its maximum.
LEMMA ClampedScore ==
    ASSUME NEW n \in Int
    PROVE  Peers!Clamped(n) \in Nat
<1>1. PICK S, m, T : S = {n, MaxScore} /\ m = Peers!Min(S) /\ T = {0, m}
    OBVIOUS
<1>2. m \in Int
  <2>1. MaxScore \in Int
      BY PeersAssumption
  <2>2. m \in {n, MaxScore}
      BY <1>1, <2>1, OfTwo
  <2> QED BY <2>1, <2>2
<1>3. 0 \in Int
    OBVIOUS
<1>4. Peers!Max(T) \in {0, m} /\ Peers!Max(T) >= 0
    BY <1>1, <1>2, <1>3, OfTwo
<1>5. Peers!Max(T) \in Nat
    BY <1>2, <1>4
<1> QED
    BY <1>1, <1>5 DEF Peers!Clamped

\* A change of a record's fields leaves it a record.
LEMMA BannedPeer ==
    ASSUME NEW r, PeerShape(r), r.score \in Nat
    PROVE  SoundPeer(Peers!Ban(r))
<1>1. PICK u, n : Peers!Ban(r) = [r EXCEPT !.banned = TRUE, !.until = u, !.bans = n]
    BY DEF Peers!Ban
<1>2. PICK s : s = [r EXCEPT !.banned = TRUE, !.until = u, !.bans = n]
    OBVIOUS
<1>3. PeerShape(s) /\ s.score = r.score /\ s.banned = TRUE
    BY <1>2 DEF PeerShape
<1> QED
    BY <1>1, <1>2, <1>3 DEF SoundPeer

\* Each change of a peer that a call makes.
LEMMA ScoredPeerSound ==
    ASSUME NEW r, SoundPeer(r), NEW n \in Int
    PROVE  SoundPeer(Peers!Scored(r, n))
<1>1. PICK c, s : c = Peers!Clamped(r.score + n) /\ s = [r EXCEPT !.score = c]
    OBVIOUS
<1>2. c \in Nat
  <2>1. r.score + n \in Int
      BY DEF SoundPeer
  <2> QED BY <1>1, <2>1, ClampedScore
<1>3. PeerShape(s) /\ s.score = c /\ s.banned = r.banned
    BY <1>1 DEF SoundPeer, PeerShape
<1>4. Peers!Scored(r, n) = IF s.score = 0 /\ ~r.banned THEN Peers!Ban(s) ELSE s
    BY <1>1 DEF Peers!Scored
<1>5. CASE s.score = 0 /\ ~r.banned
    BY <1>2, <1>3, <1>4, <1>5, BannedPeer
<1>6. CASE ~(s.score = 0 /\ ~r.banned)
  <2>1. Peers!Scored(r, n) = s
      BY <1>4, <1>6
  <2>2. s.banned \in BOOLEAN /\ (s.score = 0 => s.banned)
      BY <1>3, <1>6 DEF SoundPeer
  <2> QED BY <1>2, <1>3, <2>1, <2>2 DEF SoundPeer
<1> QED
    BY <1>5, <1>6

LEMMA CountedPeerSound ==
    ASSUME NEW r, SoundPeer(r)
    PROVE  SoundPeer(Peers!DecodeFailed(r))
<1>1. PICK e, s : e = Peers!Min({r.errors + 1, MaxDecodeErrors}) /\ s = [r EXCEPT !.errors = e]
    OBVIOUS
<1>2. PeerShape(s) /\ s.score = r.score /\ s.banned = r.banned
    BY <1>1 DEF SoundPeer, PeerShape
<1>3. SoundPeer(s)
    BY <1>2 DEF SoundPeer
<1>4. SoundPeer(Peers!Ban(s))
    BY <1>3, BannedPeer DEF SoundPeer
<1>5. Peers!DecodeFailed(r) = s \/ Peers!DecodeFailed(r) = Peers!Ban(s)
    BY <1>1 DEF Peers!DecodeFailed
<1> QED
    BY <1>3, <1>4, <1>5

LEMMA OtherChangesSound ==
    ASSUME NEW r, SoundPeer(r)
    PROVE  /\ SoundPeer(Peers!Handshaken(r)) /\ SoundPeer(Peers!Refilled(r))
           /\ SoundPeer(Peers!Unbanned(r))
<1>1. SoundPeer(Peers!Handshaken(r))
  <2>1. PICK v, S, n : v = r.score + 50 /\ S = {v, MaxScore} /\ n = Peers!Min(S)
      OBVIOUS
  <2>2. n \in Nat \ {0}
    <3>1. v \in Nat \ {0} /\ MaxScore \in Nat \ {0}
        BY <2>1, PeersAssumption DEF SoundPeer
    <3>2. v \in Int /\ MaxScore \in Int
        BY <3>1
    <3>3. n \in {v, MaxScore}
        BY <2>1, <3>2, OfTwo
    <3> QED BY <3>1, <3>3
  <2>3. PICK s : s = [r EXCEPT !.handshake = TRUE, !.seen = clock, !.score = n]
      OBVIOUS
  <2>4. PeerShape(s) /\ s.score = n /\ s.banned = r.banned
      BY <2>3 DEF SoundPeer, PeerShape
  <2>5. Peers!Handshaken(r) = s
      BY <2>1, <2>3 DEF Peers!Handshaken
  <2> QED BY <2>2, <2>4, <2>5 DEF SoundPeer
<1>2. SoundPeer(Peers!Refilled(r))
  <2>1. PICK n : Peers!Refilled(r) = [r EXCEPT !.tokens = n, !.refill = clock]
      BY DEF Peers!Refilled
  <2>2. PICK s : s = [r EXCEPT !.tokens = n, !.refill = clock]
      OBVIOUS
  <2>3. PeerShape(s) /\ s.score = r.score /\ s.banned = r.banned
      BY <2>2 DEF SoundPeer, PeerShape
  <2> QED BY <2>1, <2>2, <2>3 DEF SoundPeer
<1>3. SoundPeer(Peers!Unbanned(r))
  <2>1. PICK s : s = [r EXCEPT !.banned = FALSE, !.score = UnbanScore]
      OBVIOUS
  <2>2. PeerShape(s) /\ s.score = UnbanScore /\ s.banned = FALSE
      BY <2>1 DEF SoundPeer, PeerShape
  <2>3. SoundPeer(s)
      BY <2>2, PeersAssumption DEF SoundPeer
  <2> QED BY <2>1, <2>3 DEF Peers!Unbanned
<1> QED
    BY <1>1, <1>2, <1>3

\* The table with one peer changed, one peer added, and some left out.
LEMMA TableChanges ==
    ASSUME NEW f, SoundTable(f)
    PROVE  /\ \A p \in DOMAIN f : \A r : SoundPeer(r) => SoundTable([f EXCEPT ![p] = r])
           /\ \A p, r : SoundPeer(r) =>
                  SoundTable([q \in DOMAIN f \cup {p} |-> IF q = p THEN r ELSE f[q]])
           /\ \A D \in SUBSET DOMAIN f : SoundTable([q \in D |-> f[q]])
<1>1. IsFiniteSet(DOMAIN f)
    BY DEF SoundTable
<1>2. ASSUME NEW p \in DOMAIN f, NEW r, SoundPeer(r) PROVE SoundTable([f EXCEPT ![p] = r])
  <2>1. PICK g : g = [f EXCEPT ![p] = r]
      OBVIOUS
  <2>2. /\ g = [q \in DOMAIN g |-> g[q]] /\ DOMAIN g = DOMAIN f
        /\ \A q \in DOMAIN g : SoundPeer(g[q])
      BY <1>2, <2>1 DEF SoundTable
  <2> QED BY <1>1, <2>1, <2>2 DEF SoundTable
<1>3. ASSUME NEW p, NEW r, SoundPeer(r)
      PROVE  SoundTable([q \in DOMAIN f \cup {p} |-> IF q = p THEN r ELSE f[q]])
  <2>1. PICK g : g = [q \in DOMAIN f \cup {p} |-> IF q = p THEN r ELSE f[q]]
      OBVIOUS
  <2>2. /\ g = [q \in DOMAIN g |-> g[q]] /\ DOMAIN g = DOMAIN f \cup {p}
        /\ \A q \in DOMAIN g : SoundPeer(g[q])
      BY <1>3, <2>1 DEF SoundTable
  <2>3. IsFiniteSet(DOMAIN g)
      BY <1>1, <2>2, FS_AddElement
  <2> QED BY <2>1, <2>2, <2>3 DEF SoundTable
<1>4. ASSUME NEW D \in SUBSET DOMAIN f PROVE SoundTable([q \in D |-> f[q]])
  <2>1. PICK g : g = [q \in D |-> f[q]]
      OBVIOUS
  <2>2. /\ g = [q \in DOMAIN g |-> g[q]] /\ DOMAIN g = D
        /\ \A q \in DOMAIN g : SoundPeer(g[q])
      BY <2>1 DEF SoundTable
  <2>3. IsFiniteSet(D)
      BY <1>1, FS_Subset
  <2> QED BY <2>1, <2>2, <2>3 DEF SoundTable
<1> QED
    BY <1>2, <1>3, <1>4

-----------------------------------------------------------------------------
(* What threads are about to do *)

\* The calls of a list, the first, the others, and two lists one after the
\* other.
LEMMA CallsSplit ==
    ASSUME NEW s, SoundCalls(s), s # <<>>
    PROVE  SoundCall(Head(s)) /\ SoundCalls(Tail(s))
<1>1. PICK S : s \in Seq(S) /\ \A c \in S : SoundCall(c)
    BY DEF SoundCalls
<1>2. Head(s) \in S /\ Tail(s) \in Seq(S)
    BY <1>1
<1> QED
    BY <1>1, <1>2 DEF SoundCalls

LEMMA CallsJoined ==
    ASSUME NEW s, SoundCalls(s), NEW r, SoundCalls(r)
    PROVE  SoundCalls(s \o r)
<1>1. PICK S : s \in Seq(S) /\ \A c \in S : SoundCall(c)
    BY DEF SoundCalls
<1>2. PICK R : r \in Seq(R) /\ \A c \in R : SoundCall(c)
    BY DEF SoundCalls
<1>3. s \in Seq(S \cup R) /\ r \in Seq(S \cup R)
    BY <1>1, <1>2, SeqMonotonic
<1>4. s \o r \in Seq(S \cup R)
    BY <1>3, ConcatProperties
<1> QED
    BY <1>1, <1>2, <1>4 DEF SoundCalls

LEMMA FewCalls ==
    /\ SoundCalls(<<>>)
    /\ \A c : SoundCall(c) => SoundCalls(<<c>>)
    /\ \A c, d : SoundCall(c) /\ SoundCall(d) => SoundCalls(<<c, d>>)
<1>1. SoundCalls(<<>>)
  <2>1. PICK s, S : s = <<>> /\ S = {}
      OBVIOUS
  <2>2. s \in Seq(S) /\ \A x \in S : SoundCall(x)
      BY <2>1
  <2>3. SoundCalls(s)
      BY <2>2 DEF SoundCalls
  <2> QED BY <2>1, <2>3
<1>2. ASSUME NEW c, SoundCall(c) PROVE SoundCalls(<<c>>)
  <2>1. PICK s, S : s = <<c>> /\ S = {c}
      OBVIOUS
  <2>2. s \in Seq(S) /\ \A x \in S : SoundCall(x)
      BY <1>2, <2>1
  <2>3. SoundCalls(s)
      BY <2>2 DEF SoundCalls
  <2> QED BY <2>1, <2>3
<1>3. ASSUME NEW c, NEW d, SoundCall(c), SoundCall(d) PROVE SoundCalls(<<c, d>>)
  <2>1. PICK s, S : s = <<c, d>> /\ S = {c, d}
      OBVIOUS
  <2>2. s \in Seq(S) /\ \A x \in S : SoundCall(x)
      BY <1>3, <2>1
  <2>3. SoundCalls(s)
      BY <2>2 DEF SoundCalls
  <2> QED BY <2>1, <2>3
<1> QED
    BY <1>1, <1>2, <1>3

\* A finite set of calls, in any order.
LEMMA CallsListed ==
    ASSUME NEW C, IsFiniteSet(C), \A c \in C : SoundCall(c)
    PROVE  SoundCalls(Peers!SetToSeq(C))
<1>1. PICK n, D : n = Cardinality(C) /\ D = 1..n
    OBVIOUS
<1>2. n \in Nat /\ \E f \in [D -> C] : IsInjective(f)
    BY <1>1, FS_CardinalityType DEF ExistsBijection, Bijection, Injection
<1>3. Peers!Cardinality(C) = n /\ \A f : Peers!IsInjective(f) <=> IsInjective(f)
    BY <1>1 DEF Peers!Cardinality, Cardinality, Peers!IsInjective, IsInjective
<1>4. Peers!SetToSeq(C) \in [D -> C]
  <2>1. Peers!SetToSeq(C) = CHOOSE f \in [D -> C] : Peers!IsInjective(f)
      BY <1>1, <1>3 DEF Peers!SetToSeq
  <2>2. \E f \in [D -> C] : Peers!IsInjective(f)
      BY <1>2, <1>3
  <2> QED BY <2>1, <2>2
<1>5. Peers!SetToSeq(C) \in Seq(C)
    BY <1>1, <1>2, <1>4
<1> QED
    BY <1>5 DEF SoundCalls

\* The calls that the PeerManager and the handler of a message make.
LEMMA MadeCalls ==
    /\ \A p : \A n \in Int : SoundCall(Peers!Score(p, n))
    /\ \A p : SoundCall(Peers!BanPeer(p)) /\ SoundCall(Peers!RecordDecodeError(p))
    /\ \A p : SoundCall(Peers!HandshakeDone(p)) /\ SoundCall(Peers!RemovePeer(p))
BY DEF SoundCall, Peers!Score, Peers!BanPeer, Peers!RecordDecodeError, Peers!HandshakeDone,
       Peers!RemovePeer

LEMMA HandlerCalls ==
    ASSUME NEW p, NEW message
    PROVE  SoundCalls(Peers!Handler(p, message)) /\ SoundCalls(Peers!Malformed(p, message))
<1>1. /\ \A n \in Int : SoundCalls(<<Peers!Score(p, n)>>)
      /\ SoundCalls(<<Peers!BanPeer(p)>>) /\ SoundCalls(<<>>)
    BY MadeCalls, FewCalls
<1>2. ASSUME NEW n \in Int
      PROVE  SoundCalls(<<Peers!Score(p, n), Peers!RecordDecodeError(p)>>)
    BY MadeCalls, FewCalls
<1>3. ASSUME NEW n \in Int
      PROVE  SoundCalls(<<Peers!RecordDecodeError(p), Peers!Score(p, n)>>)
    BY MadeCalls, FewCalls
<1>4. SoundCalls(Peers!Malformed(p, message))
  <2>1. -30 \in Int /\ -100 \in Int
      OBVIOUS
  <2>2. SoundCalls(<<Peers!Score(p, -100)>>)
      BY <1>1, <2>1
  <2>3. SoundCalls(<<Peers!RecordDecodeError(p), Peers!Score(p, -30)>>)
      BY <1>3, <2>1
  <2> QED BY <2>2, <2>3 DEF Peers!Malformed
<1>5. SoundCalls(Peers!HandleHandshake(p, message)) /\ SoundCalls(Peers!HandleBlock(p, message))
  <2>1. -100 \in Int /\ -200 \in Int
      OBVIOUS
  <2>2. /\ SoundCalls(<<Peers!Score(p, -100)>>) /\ SoundCalls(<<Peers!Score(p, -200)>>)
        /\ SoundCalls(<<Peers!Score(p, 50)>>) /\ SoundCalls(<<Peers!Score(p, 20)>>)
      BY <1>1, <2>1
  <2>3. SoundCalls(<<Peers!Score(p, -100), Peers!RecordDecodeError(p)>>)
      BY <1>2, <2>1
  <2> QED BY <1>1, <2>2, <2>3 DEF Peers!HandleHandshake, Peers!HandleBlock
<1>6. \A m : SoundCalls(Peers!HandleTransaction(p, m))
  <2>1. -50 \in Int
      OBVIOUS
  <2>2. /\ SoundCalls(<<Peers!Score(p, -50)>>) /\ SoundCalls(<<Peers!Score(p, 5)>>)
      BY <1>1, <2>1
  <2>3. SoundCalls(<<Peers!Score(p, -50), Peers!RecordDecodeError(p)>>)
      BY <1>2, <2>1
  <2> QED BY <1>1, <2>2, <2>3 DEF Peers!HandleTransaction
<1>7. SoundCalls(Peers!HandleTxBatch(p))
    BY <1>6, CallsJoined DEF Peers!HandleTxBatch
<1>8. /\ SoundCalls(Peers!HandleReject(p)) /\ SoundCalls(Peers!HandleUnknown(p))
      /\ SoundCalls(Peers!Reward(p, message))
  <2>1. -10 \in Int /\ -20 \in Int
      OBVIOUS
  <2>2. /\ SoundCalls(<<Peers!Score(p, -10)>>) /\ SoundCalls(<<Peers!Score(p, -20)>>)
        /\ SoundCalls(<<Peers!Score(p, 20)>>) /\ SoundCalls(<<Peers!Score(p, 10)>>)
        /\ SoundCalls(<<Peers!Score(p, 5)>>)
      BY <1>1, <2>1
  <2> QED BY <1>1, <2>2 DEF Peers!HandleReject, Peers!HandleUnknown, Peers!Reward
<1> QED
    BY <1>4, <1>5, <1>6, <1>7, <1>8 DEF Peers!Handler

\* A thread is given calls, has made one, and has made one that led to others.
LEMMA CallsGiven ==
    ASSUME TodoOK, NEW t \in Peers!Thread, NEW s, SoundCalls(s), todo' = [todo EXCEPT ![t] = s]
    PROVE  TodoOK'
BY DEF TodoOK

LEMMA CallMade ==
    ASSUME TodoOK, NEW t \in Peers!Thread, todo[t] # <<>>
    PROVE  /\ SoundCall(Peers!Call(t))
           /\ Peers!Return(t) => TodoOK'
           /\ \A more : SoundCalls(more) /\ Peers!ReturnAnd(t, more) => TodoOK'
<1>1. SoundCall(Head(todo[t])) /\ SoundCalls(Tail(todo[t]))
    BY CallsSplit DEF TodoOK
<1>2. ASSUME Peers!Return(t) PROVE TodoOK'
  <2>1. todo' = [todo EXCEPT ![t] = Tail(todo[t])]
      BY <1>2 DEF Peers!Return
  <2> QED BY <1>1, <2>1, CallsGiven
<1>3. ASSUME NEW more, SoundCalls(more), Peers!ReturnAnd(t, more) PROVE TodoOK'
  <2>1. PICK s : s = more \o Tail(todo[t])
      OBVIOUS
  <2>2. SoundCalls(s)
      BY <1>1, <1>3, <2>1, CallsJoined
  <2>3. todo' = [todo EXCEPT ![t] = s]
      BY <1>3, <2>1 DEF Peers!ReturnAnd
  <2> QED BY <2>2, <2>3, CallsGiven
<1> QED
    BY <1>1, <1>2, <1>3 DEF Peers!Call

\* What each step does to the peers.
LEMMA ChangedTables ==
    ASSUME ScoresInv
    PROVE  /\ \A t \in Peers!Thread : Peers!ChangePeer(t) => SoundTable(scored')
           /\ \A t : Peers!RemoveStale(t) => SoundTable(scored')
           /\ \A p : Peers!AddPeer(p) => SoundTable(scored')
           /\ Peers!UnbanExpiredPeers => SoundTable(scored')
           /\ SoundTable(Peers!Loaded)
<1>1. SoundTable(scored) /\ SoundTable(peerFile) /\ TodoOK
    BY DEF ScoresInv
<1>2. \A p \in DOMAIN scored : SoundPeer(scored[p])
    BY <1>1 DEF SoundTable
<1>3. ASSUME NEW t \in Peers!Thread, Peers!ChangePeer(t) PROVE SoundTable(scored')
  <2>1. PICK p, n : p = Peers!Call(t).peer /\ n = Peers!Call(t).by
      OBVIOUS
  <2>2. PICK r, do : r = scored[p] /\ do = Peers!Call(t).do
      OBVIOUS
  <2>3. SoundCall(Peers!Call(t)) /\ do \in {"score", "ban", "decodeError", "handshake"}
      BY <1>1, <1>3, <2>2, CallMade DEF Peers!ChangePeer
  <2>4. \/ scored' = scored
        \/ /\ p \in DOMAIN scored /\ do = "score"
           /\ scored' = [scored EXCEPT ![p] = Peers!Scored(r, n)]
        \/ p \in DOMAIN scored /\ scored' = [scored EXCEPT ![p] = Peers!Ban(r)]
        \/ p \in DOMAIN scored /\ scored' = [scored EXCEPT ![p] = Peers!DecodeFailed(r)]
        \/ p \in DOMAIN scored /\ scored' = [scored EXCEPT ![p] = Peers!Handshaken(r)]
      BY <1>3, <2>1, <2>2 DEF Peers!ChangePeer, Peers!Changed, Peers!Known
  <2>5. CASE scored' = scored
      BY <1>1, <2>5
  <2>6. CASE p \in DOMAIN scored
    <3>1. SoundPeer(r)
        BY <1>2, <2>2, <2>6
    <3>2. SoundPeer(Peers!Ban(r))
        BY <3>1, BannedPeer DEF SoundPeer
    <3>3. SoundPeer(Peers!DecodeFailed(r))
        BY <3>1, CountedPeerSound
    <3>4. SoundPeer(Peers!Handshaken(r))
        BY <3>1, OtherChangesSound
    <3>5. do = "score" => SoundPeer(Peers!Scored(r, n))
        BY <2>1, <2>2, <2>3, <3>1, ScoredPeerSound DEF SoundCall
    <3>6. PICK s : scored' = scored \/ (SoundPeer(s) /\ scored' = [scored EXCEPT ![p] = s])
        BY <2>4, <3>2, <3>3, <3>4, <3>5
    <3> QED BY <1>1, <2>6, <3>6, TableChanges
  <2> QED BY <2>4, <2>5, <2>6
<1>4. ASSUME NEW t, Peers!RemoveStale(t) PROVE SoundTable(scored')
  <2>1. PICK D : D \in SUBSET DOMAIN scored /\ scored' = [q \in D |-> scored[q]]
      BY <1>4 DEF Peers!RemoveStale, Peers!Known
  <2> QED BY <1>1, <2>1, TableChanges
<1>5. ASSUME NEW p, Peers!AddPeer(p) PROVE SoundTable(scored')
  <2>1. PICK r : r = Peers!NewPeer
      OBVIOUS
  <2>2. SoundPeer(r)
      BY <2>1, PeersAssumption DEF Peers!NewPeer, SoundPeer, PeerShape
  <2>3. scored' = [q \in DOMAIN scored \cup {p} |-> IF q = p THEN r ELSE scored[q]]
      BY <1>5, <2>1 DEF Peers!AddPeer, Peers!Added, Peers!Known
  <2> QED BY <1>1, <2>2, <2>3, TableChanges
<1>6. ASSUME Peers!UnbanExpiredPeers PROVE SoundTable(scored')
  <2>1. scored' = [p \in DOMAIN scored |-> Peers!Unbanned(scored[p])]
      BY <1>6 DEF Peers!UnbanExpiredPeers, Peers!Known
  <2>2. \A p \in DOMAIN scored : SoundPeer(Peers!Unbanned(scored[p]))
      BY <1>2, OtherChangesSound
  <2>3. DOMAIN scored' = DOMAIN scored /\ \A p \in DOMAIN scored' : SoundPeer(scored'[p])
      BY <2>1, <2>2
  <2>4. scored' = [p \in DOMAIN scored' |-> scored'[p]] /\ IsFiniteSet(DOMAIN scored')
      BY <1>1, <2>1, <2>3 DEF SoundTable
  <2> QED BY <2>3, <2>4 DEF SoundTable
<1>7. SoundTable(Peers!Loaded)
  <2>1. PICK L, D :
            /\ L = Peers!Loaded /\ D \in SUBSET DOMAIN peerFile
            /\ L = [p \in D |-> [peerFile[p] EXCEPT !.handshake = FALSE, !.tokens = Burst,
                                                    !.refill = clock]]
      BY DEF Peers!Loaded
  <2>2. ASSUME NEW p \in D PROVE SoundPeer(L[p])
    <3>1. PICK r, s : /\ r = peerFile[p]
                      /\ s = [r EXCEPT !.handshake = FALSE, !.tokens = Burst, !.refill = clock]
        OBVIOUS
    <3>2. SoundPeer(r)
        BY <1>1, <2>1, <3>1 DEF SoundTable
    <3>3. PeerShape(s) /\ s.score = r.score /\ s.banned = r.banned
        BY <3>1, <3>2 DEF SoundPeer, PeerShape
    <3>4. L[p] = s
        BY <2>1, <3>1
    <3> QED BY <3>2, <3>3, <3>4 DEF SoundPeer
  <2>3. IsFiniteSet(D)
      BY <1>1, <2>1, FS_Subset DEF SoundTable
  <2>4. DOMAIN L = D /\ L = [p \in DOMAIN L |-> L[p]]
      BY <2>1
  <2> QED BY <2>1, <2>2, <2>3, <2>4 DEF SoundTable
<1> QED
    BY <1>3, <1>4, <1>5, <1>6, <1>7

\* The PeerManager's own steps, and the handler's.
LEMMA ManagerKeeps ==
    ASSUME ScoresInv, Peers!ManagerStep
    PROVE  ScoresInv'
<1>1. SoundTable(scored) /\ SoundTable(peerFile) /\ TodoOK /\ Peers!Timer \in Peers!Thread
    BY DEF ScoresInv, Peers!Thread
<1>2. CASE Peers!Start
  <2>1. /\ scored' = Peers!Loaded /\ UNCHANGED peerFile
        /\ todo' = [t \in Peers!Thread |-> <<>>]
      BY <1>2 DEF Peers!Start
  <2>2. TodoOK'
      BY <2>1, FewCalls DEF TodoOK
  <2> QED BY <1>1, <2>1, <2>2, ChangedTables DEF ScoresInv
<1>3. CASE Peers!Tick
  <2>1. UNCHANGED <<scored, peerFile, todo>>
      BY <1>3 DEF Peers!Tick
  <2> QED BY <1>1, <2>1 DEF ScoresInv, TodoOK
<1>4. CASE Peers!CleanUp
  <2>1. PICK a, b, c, d :
            /\ a = [do |-> "stale"] /\ b = [do |-> "low"] /\ c = [do |-> "unban"]
            /\ d = [do |-> "forget"]
      OBVIOUS
  <2>2. SoundCall(a) /\ SoundCall(b) /\ SoundCall(c) /\ SoundCall(d)
      BY <2>1 DEF SoundCall
  <2>3. PICK s, S : s = <<a, b, c, d>> /\ S = {a, b, c, d}
      OBVIOUS
  <2>4. s \in Seq(S) /\ \A x \in S : SoundCall(x)
      BY <2>2, <2>3
  <2>5. SoundCalls(s)
      BY <2>4 DEF SoundCalls
  <2>6. UNCHANGED <<scored, peerFile>> /\ todo' = [todo EXCEPT ![Peers!Timer] = s]
      BY <1>4, <2>1, <2>3 DEF Peers!CleanUp
  <2> QED BY <1>1, <2>5, <2>6, CallsGiven DEF ScoresInv
<1>5. CASE Peers!SavePeers
  <2>1. PICK c, ids : c = [do |-> "read", ids |-> ids] /\ UNCHANGED <<scored, peerFile>>
                      /\ todo' = [todo EXCEPT ![Peers!Timer] = <<c>>]
      BY <1>5 DEF Peers!SavePeers
  <2>2. SoundCalls(<<c>>)
      BY <2>1, FewCalls DEF SoundCall
  <2> QED BY <1>1, <2>1, <2>2, CallsGiven DEF ScoresInv
<1>6. CASE Peers!EvictStalePeers
  <2>1. PICK Q, C : /\ Q \in SUBSET DOMAIN scored /\ C = {Peers!RemovePeer(p) : p \in Q}
                    /\ Peers!ReturnAnd(Peers!Timer, Peers!SetToSeq(C))
                    /\ todo[Peers!Timer] # <<>> /\ UNCHANGED <<scored, peerFile>>
      BY <1>6 DEF Peers!EvictStalePeers, Peers!Known
  <2>2. IsFiniteSet(Q)
      BY <1>1, <2>1, FS_Subset DEF SoundTable
  <2>3. [p \in Q |-> Peers!RemovePeer(p)] \in Surjection(Q, C)
      BY <2>1 DEF Surjection
  <2>4. IsFiniteSet(C) /\ \A c \in C : SoundCall(c)
      BY <2>1, <2>2, <2>3, FS_Surjection, MadeCalls
  <2>5. SoundCalls(Peers!SetToSeq(C))
      BY <2>4, CallsListed
  <2> QED BY <1>1, <2>1, <2>5, CallMade DEF ScoresInv
<1>7. CASE Peers!EvictLowScorePeers
  <2>1. PICK Q, C : /\ Q \in SUBSET DOMAIN scored /\ C = {Peers!BanPeer(p) : p \in Q}
                    /\ Peers!ReturnAnd(Peers!Timer, Peers!SetToSeq(C))
                    /\ todo[Peers!Timer] # <<>> /\ UNCHANGED <<scored, peerFile>>
      BY <1>7 DEF Peers!EvictLowScorePeers, Peers!Known
  <2>2. IsFiniteSet(Q)
      BY <1>1, <2>1, FS_Subset DEF SoundTable
  <2>3. [p \in Q |-> Peers!BanPeer(p)] \in Surjection(Q, C)
      BY <2>1 DEF Surjection
  <2>4. IsFiniteSet(C) /\ \A c \in C : SoundCall(c)
      BY <2>1, <2>2, <2>3, FS_Surjection, MadeCalls
  <2>5. SoundCalls(Peers!SetToSeq(C))
      BY <2>4, CallsListed
  <2> QED BY <1>1, <2>1, <2>5, CallMade DEF ScoresInv
<1>8. CASE Peers!UnbanExpiredPeers
  <2>1. /\ Peers!Return(Peers!Timer) /\ todo[Peers!Timer] # <<>> /\ UNCHANGED peerFile
        /\ SoundTable(scored')
      BY <1>8, ChangedTables DEF Peers!UnbanExpiredPeers
  <2> QED BY <1>1, <2>1, CallMade DEF ScoresInv
<1>9. CASE Peers!ForgetSeen
  <2>1. /\ Peers!Return(Peers!Timer) /\ todo[Peers!Timer] # <<>>
        /\ UNCHANGED <<scored, peerFile>>
      BY <1>9 DEF Peers!ForgetSeen
  <2> QED BY <1>1, <2>1, CallMade DEF ScoresInv
<1>10. CASE Peers!ReadPeers
  <2>1. PICK D, f, c : /\ D \in SUBSET DOMAIN scored /\ f = [p \in D |-> scored[p]]
                       /\ c = [do |-> "write", peers |-> f]
                       /\ Peers!ReturnAnd(Peers!Timer, <<c>>)
                       /\ todo[Peers!Timer] # <<>> /\ UNCHANGED <<scored, peerFile>>
      BY <1>10 DEF Peers!ReadPeers, Peers!Known
  <2>2. SoundTable(f)
      BY <1>1, <2>1, TableChanges
  <2>3. SoundCalls(<<c>>)
      BY <2>1, <2>2, FewCalls DEF SoundCall
  <2> QED BY <1>1, <2>1, <2>3, CallMade DEF ScoresInv
<1>11. CASE Peers!WriteFile
  <2>1. /\ Peers!Return(Peers!Timer) /\ todo[Peers!Timer] # <<>> /\ UNCHANGED scored
        /\ Peers!Call(Peers!Timer).do = "write"
        /\ peerFile' = peerFile \/ peerFile' = Peers!Call(Peers!Timer).peers
      BY <1>11 DEF Peers!WriteFile
  <2>2. SoundTable(Peers!Call(Peers!Timer).peers)
      BY <1>1, <2>1, CallMade DEF SoundCall
  <2> QED BY <1>1, <2>1, <2>2, CallMade DEF ScoresInv
<1>12. ASSUME NEW p, Peers!AddPeer(p) PROVE ScoresInv'
  <2>1. UNCHANGED <<peerFile, todo>> /\ SoundTable(scored')
      BY <1>12, ChangedTables DEF Peers!AddPeer
  <2> QED BY <1>1, <2>1 DEF ScoresInv, TodoOK
<1>13. ASSUME NEW t \in Peers!Thread, Peers!ChangePeer(t) \/ Peers!RemoveStale(t)
       PROVE  ScoresInv'
  <2>1. /\ Peers!Return(t) /\ todo[t] # <<>> /\ UNCHANGED peerFile
        /\ SoundTable(scored')
      BY <1>13, ChangedTables DEF Peers!ChangePeer, Peers!RemoveStale
  <2> QED BY <1>1, <2>1, CallMade DEF ScoresInv
<1> QED
    BY <1>2, <1>3, <1>4, <1>5, <1>6, <1>7, <1>8, <1>9, <1>10, <1>11, <1>12, <1>13
       DEF Peers!ManagerStep

LEMMA HandlerKeeps ==
    ASSUME ScoresInv, NEW t \in FrameWorker
    PROVE  /\ \A p : Peers!DoHandshake(t, p) => ScoresInv'
           /\ \A p, message : Peers!Receive(t, p, message) => ScoresInv'
           /\ Peers!Dispatch(t) => ScoresInv'
<1>1. SoundTable(scored) /\ SoundTable(peerFile) /\ TodoOK /\ t \in Peers!Thread
    BY DEF ScoresInv, Peers!Thread
<1>2. ASSUME NEW p, Peers!DoHandshake(t, p) PROVE ScoresInv'
  <2>1. PICK c : /\ c \in {Peers!Score(p, -100), Peers!BanPeer(p), Peers!Score(p, -200),
                           Peers!HandshakeDone(p)}
                 /\ UNCHANGED <<scored, peerFile>> /\ todo' = [todo EXCEPT ![t] = <<c>>]
      BY <1>2 DEF Peers!DoHandshake
  <2>2. -100 \in Int /\ -200 \in Int
      OBVIOUS
  <2>3. SoundCall(c)
      BY <2>1, <2>2, MadeCalls
  <2>4. SoundCalls(<<c>>)
      BY <2>3, FewCalls
  <2> QED BY <1>1, <2>1, <2>4, CallsGiven DEF ScoresInv
<1>3. ASSUME NEW p, NEW message, Peers!Receive(t, p, message) PROVE ScoresInv'
  <2>1. UNCHANGED peerFile
      BY <1>3 DEF Peers!Receive
  <2>2. SoundTable(scored')
    <3>1. PICK r, s : r = Peers!Refilled(scored[p]) /\ s = [r EXCEPT !.tokens = @ - 1]
        OBVIOUS
    <3>2. \/ p \in DOMAIN scored /\ scored' = [scored EXCEPT ![p] = s]
          \/ p \in DOMAIN scored /\ scored' = [scored EXCEPT ![p] = r]
          \/ scored' = scored
        BY <1>3, <3>1 DEF Peers!Receive, Peers!CheckRateLimit, Peers!Changed, Peers!Known
    <3>3. CASE p \in DOMAIN scored
      <4>1. SoundPeer(r)
          BY <1>1, <3>1, <3>3, OtherChangesSound DEF SoundTable
      <4>2. PeerShape(s) /\ s.score = r.score /\ s.banned = r.banned
          BY <3>1, <4>1 DEF SoundPeer, PeerShape
      <4>3. SoundPeer(s)
          BY <4>1, <4>2 DEF SoundPeer
      <4> QED BY <1>1, <3>2, <3>3, <4>1, <4>3, TableChanges
    <3> QED BY <1>1, <3>2, <3>3
  <2>3. PICK s : SoundCalls(s) /\ todo' = [todo EXCEPT ![t] = s]
    <3>1. PICK c : c = [do |-> "seen", peer |-> p, id |-> message]
        OBVIOUS
    <3>2. SoundCalls(<<c>>)
        BY <3>1, FewCalls DEF SoundCall
    <3>3. -50 \in Int
        OBVIOUS
    <3>4. SoundCalls(<<Peers!Score(p, -50)>>)
        BY <3>3, MadeCalls, FewCalls
    <3>5. SoundCalls(Peers!Malformed(p, message))
        BY HandlerCalls
    <3>6. \/ todo' = [todo EXCEPT ![t] = Peers!Malformed(p, message)]
          \/ todo' = [todo EXCEPT ![t] = <<c>>]
          \/ todo' = [todo EXCEPT ![t] = <<Peers!Score(p, -50)>>]
        BY <1>3, <3>1 DEF Peers!Receive
    <3> QED BY <3>2, <3>4, <3>5, <3>6
  <2> QED BY <1>1, <2>1, <2>2, <2>3, CallsGiven DEF ScoresInv
<1>4. ASSUME Peers!Dispatch(t) PROVE ScoresInv'
  <2>1. PICK p, id, s :
            /\ s = <<Peers!Score(p, 1)>> \o Peers!Handler(p, id)
            /\ Peers!Return(t) \/ Peers!ReturnAnd(t, s)
            /\ todo[t] # <<>> /\ UNCHANGED <<scored, peerFile>>
      BY <1>4 DEF Peers!Dispatch
  <2>2. SoundCalls(<<Peers!Score(p, 1)>>)
      BY MadeCalls, FewCalls
  <2>3. SoundCalls(s)
      BY <2>1, <2>2, HandlerCalls, CallsJoined
  <2> QED BY <1>1, <2>1, <2>3, CallMade DEF ScoresInv
<1> QED
    BY <1>2, <1>3, <1>4

\* ScoresInv holds at the start and is kept.
LEMMA ScoresKept ==
    /\ Peers!HandlerInit => ScoresInv
    /\ ScoresInv /\ [Peers!HandlerNext]_(Peers!handlerVars) => ScoresInv'
<1>1. ASSUME Peers!HandlerInit PROVE ScoresInv
  <2>1. /\ scored = Peers!None /\ peerFile = Peers!None
        /\ todo = [t \in Peers!Thread |-> <<>>]
      BY <1>1 DEF Peers!HandlerInit, Peers!Init
  <2>2. SoundTable(Peers!None)
    <3>1. PICK f : f = Peers!None
        OBVIOUS
    <3>2. DOMAIN f = {} /\ f = [p \in DOMAIN f |-> f[p]]
        BY <3>1 DEF Peers!None
    <3> QED BY <3>1, <3>2, FS_EmptySet DEF SoundTable
  <2>3. TodoOK
      BY <2>1, FewCalls DEF TodoOK
  <2> QED BY <2>1, <2>2, <2>3 DEF ScoresInv
<1>2. ASSUME ScoresInv, UNCHANGED Peers!handlerVars PROVE ScoresInv'
  <2>1. UNCHANGED <<scored, peerFile, todo>>
      BY <1>2 DEF Peers!handlerVars, Peers!pmVars
  <2> QED BY <1>2, <2>1 DEF ScoresInv, TodoOK
<1> QED
    BY <1>1, <1>2, ManagerKeeps, HandlerKeeps DEF Peers!HandlerNext

\* No step of the other units breaks it.
THEOREM ScoresInvariant == UnitsSpec => [](unit = "peers" => ScoresInv)
<1> DEFINE Inv == unit = "peers" => ScoresInv
<1>1. UnitsInit => Inv
    BY ScoresKept DEF UnitsInit, IdentityInit, AccountsInit, KeysInit, ConnectionsInit,
                      SubmitInit, LimiterInit, PowInit, RegistryInit, NetworkInit, PoolsInit,
                      EvmInit, PeersInit
<1>2. Inv /\ [UnitsNext]_<<unit, unitVars>> => Inv'
  <2> SUFFICES ASSUME Inv, [UnitsNext]_<<unit, unitVars>>, unit' = "peers" PROVE ScoresInv'
      OBVIOUS
  <2>1. unit = "peers" /\ [Peers!HandlerNext]_(Peers!handlerVars)
      BY DEF UnitsNext, IdentityNext, AccountsNext, KeysNext, ConnectionsNext, SubmitNext,
             LimiterNext, PowNext, RegistryNext, NetworkNext, PoolsNext, EvmNext, PeersNext,
             unitVars, scoreVars, Peers!handlerVars, Peers!pmVars
  <2> QED BY <2>1, ScoresKept
<1> QED
    BY <1>1, <1>2, PTL DEF UnitsSpec

\* Whoever lowers a score, unbans a peer, saves or loads it, at any moment
\* between the others: no peer whose score is zero stays at large.
THEOREM ZeroStaysBanned == UnitsSpec => []NoneAtZero
<1>1. (unit = "peers" => ScoresInv) => NoneAtZero
    BY DEF NoneAtZero, Peers!NoneAtZero, Peers!Known, ScoresInv, SoundTable, SoundPeer
<1> QED
    BY <1>1, ScoresInvariant, PTL
================================================================================
