------------------------ MODULE MedorStateUnits_proofs ------------------------
(***************************************************************************)
(* What the pool of transactions, what it stores, the databases and the    *)
(* chain of the C++ node promise, for every value of their constants.      *)
(* Each has an inductive invariant of its own, which the steps of the      *)
(* other units leave alone.                                                *)
(***************************************************************************)
EXTENDS MedorStateUnits, SequenceTheorems, Totals

-----------------------------------------------------------------------------
(* Lists *)

\* Where the members of two lists are in the one after the other.
LEMMA Joined ==
    ASSUME NEW S, NEW a \in Seq(S), NEW b \in Seq(S), NEW n, n = Len(a), NEW m, m = Len(b),
           NEW s, s = a \o b
    PROVE  /\ DOMAIN s = 1..(n + m)
           /\ \A i \in 1..n : s[i] = a[i]
           /\ \A i \in 1..m : s[n + i] = b[i]
    OBVIOUS

\* The two parts of a list make it again.
LEMMA CutAndJoin ==
    ASSUME NEW S, NEW s \in Seq(S), NEW n \in 0..Len(s)
    PROVE  /\ SubSeq(s, 1, n) \in Seq(S) /\ SubSeq(s, n + 1, Len(s)) \in Seq(S)
           /\ SubSeq(s, 1, n) \o SubSeq(s, n + 1, Len(s)) = s
<1>1. PICK m \in Nat : m = Len(s)
    OBVIOUS
<1>2. n \in Nat /\ n <= m /\ \A i \in 1..m : s[i] \in S
    BY <1>1
<1>3. PICK a, b : a = SubSeq(s, 1, n) /\ b = SubSeq(s, n + 1, m)
    OBVIOUS
<1>4. PICK w \in Nat : w = m - n /\ n + w = m /\ m - (n + 1) + 1 = w
  <2>1. m - n \in Nat /\ n + (m - n) = m /\ m - (n + 1) + 1 = m - n
      BY <1>1, <1>2
  <2> QED BY <2>1
<1>5. /\ a \in Seq(S) /\ Len(a) = n
      /\ \A i \in 1..n : a[i] = s[i]
  <2>1. \A i \in 1..n : s[i] \in S
      BY <1>1, <1>2
  <2> QED BY <1>2, <1>3, <2>1, SubSeqProperties
<1>6. /\ b \in Seq(S) /\ Len(b) = w
      /\ \A i \in 1..w : b[i] = s[n + i]
  <2>1. n + 1 \in Int /\ m \in Int /\ \A i \in (n + 1)..m : s[i] \in S
      BY <1>1, <1>2
  <2>2. /\ b \in Seq(S)
        /\ Len(b) = IF n + 1 <= m THEN m - (n + 1) + 1 ELSE 0
        /\ \A i \in 1..(m - (n + 1) + 1) : b[i] = s[(n + 1) + i - 1]
      BY <1>3, <2>1, SubSeqProperties
  <2>3. Len(b) = w
      BY <1>1, <1>2, <1>4, <2>2
  <2>4. \A i \in 1..w : (n + 1) + i - 1 = n + i
      BY <1>2
  <2> QED BY <1>4, <2>2, <2>3, <2>4
<1>7. PICK t : t = a \o b
    OBVIOUS
<1>8. /\ t \in Seq(S) /\ Len(t) = n + w
      /\ \A i \in 1..n : t[i] = a[i]
      /\ \A i \in 1..w : t[n + i] = b[i]
  <2>1. a \in Seq(S) /\ b \in Seq(S)
      BY <1>5, <1>6
  <2>2. /\ t \in Seq(S) /\ Len(t) = Len(a) + Len(b)
        /\ DOMAIN t = 1..(Len(a) + Len(b))
      BY <1>7, <2>1
  <2>3. \A i \in 1..Len(a) : t[i] = a[i]
      BY <1>7, <2>1, Joined
  <2>4. \A i \in 1..Len(b) : t[Len(a) + i] = b[i]
      BY <1>7, <2>1, Joined
  <2> QED BY <1>5, <1>6, <2>2, <2>3, <2>4
<1>9. \A i \in 1..m : t[i] = s[i]
  <2> SUFFICES ASSUME NEW i \in 1..m, i > n PROVE t[i] = s[i]
      BY <1>2, <1>5, <1>8
  <2>1. i - n \in 1..w /\ n + (i - n) = i
      BY <1>1, <1>2, <1>4
  <2> QED BY <1>6, <1>8, <2>1
<1>10. t = s
  <2>1. Len(t) = Len(s) /\ \A i \in 1..Len(t) : t[i] = s[i]
      BY <1>1, <1>4, <1>8, <1>9
  <2> QED BY <1>8, <2>1, SeqEqual
<1> QED BY <1>1, <1>3, <1>5, <1>6, <1>7, <1>10

-----------------------------------------------------------------------------
(* What is stored of the pool: MedorMempoolPersist                         *)

\* The last job of k in s has this op.
LastIn(k, op, s) ==
    \E i \in DOMAIN s : /\ s[i].key = k /\ s[i].op = op
                        /\ \A j \in DOMAIN s : s[j].key = k => j <= i

\* Where the last job of a hash is, or what it has left.
JobWinsIn(k, left, stored) ==
    \/ LastIn(k, lastJob[k], left)
    \/ /\ Persist!JobsOf(k, left) = {}
       /\ (k \in stored) = (lastJob[k] = "put")

PersistTypeOK ==
    /\ persistQueue \in Seq(Persist!Job) /\ batch \in Seq(Persist!Job)
    /\ db \in SUBSET PersistKey
    /\ lastJob \in [PersistKey -> {"put", "delete"}]
    /\ persistWorker # "write" => batch = <<>>

PersistInv ==
    /\ PersistTypeOK
    /\ \A k \in PersistKey \ dropped : JobWinsIn(k, batch \o persistQueue, db)

\* The values a batch goes through.
LEMMA BatchApplied ==
    ASSUME NEW base \in SUBSET PersistKey, NEW s \in Seq(Persist!Job)
    PROVE  \E acc \in [0..Len(s) -> SUBSET PersistKey] :
               /\ acc[0] = base /\ acc[Len(s)] = Persist!AllApplied(base, s)
               /\ \A i \in 1..Len(s) : acc[i] = Persist!Applied(acc[i - 1], s[i])
<1>1. PICK n : n = Len(s) /\ n \in Nat /\ DOMAIN s = 1..n
    OBVIOUS
<1>0. PICK Good : Good = SUBSET PersistKey
    OBVIOUS
<1> DEFINE Folds(it) == it = [p \in SUBSET (1..n) |-> IF p = {} THEN base
                               ELSE Persist!Applied(it[p \ {Max(p)}], s[Max(p)])]
<1>2. \A acc \in Good, i \in 1..n : Persist!Applied(acc, s[i]) \in Good
  <2>0. \A i \in 1..n : s[i] \in Persist!Job
      BY <1>1
  <2>1. \A i \in 1..n : s[i].key \in PersistKey
      BY <2>0 DEF Persist!Job
  <2> QED BY <1>0, <2>1 DEF Persist!Applied
<1>3. PICK turn : turn = [i \in 1..n |-> [acc \in Good |-> Persist!Applied(acc, s[i])]]
    OBVIOUS
<1>4. \A acc \in Good, i \in 1..n : /\ turn[i][acc] = Persist!Applied(acc, s[i])
                                    /\ turn[i][acc] \in Good
    BY <1>2, <1>3
<1>5. PICK it : FoldsAll(it, turn, base, n) /\ StaysGood(it, n, Good)
  <2>1. n \in Nat /\ base \in Good /\ \A acc \in Good, i \in 1..n : turn[i][acc] \in Good
      BY <1>1, <1>4, <1>0
  <2> QED BY <2>1, FoldExists
<1>6. \A p \in SUBSET (1..n) : p # {} =>
          turn[Max(p)][it[p \ {Max(p)}]] = Persist!Applied(it[p \ {Max(p)}], s[Max(p)])
    BY <1>1, <1>4, <1>5, LastOfPlaces DEF StaysGood
<1>7. \E g : Folds(g)
  <2>1. it = [p \in SUBSET (1..n) |-> IF p = {} THEN base
                ELSE Persist!Applied(it[p \ {Max(p)}], s[Max(p)])]
      BY <1>5, <1>6 DEF FoldsAll
  <2> QED BY <2>1
<1>8. PICK the : the = CHOOSE g : Folds(g)
    OBVIOUS
<1>9. Folds(the)
  <2> HIDE DEF Folds
  <2> QED BY <1>7, <1>8
<1>10. FoldsIn(the, turn, base, n, Good)
  <2>1. \A p \in SUBSET (1..n) : p # {} /\ the[p \ {Max(p)}] \in Good =>
            the[p] = turn[Max(p)][the[p \ {Max(p)}]]
      BY <1>1, <1>4, <1>9, LastOfPlaces
  <2>2. the[{}] = base
      BY <1>9
  <2> HIDE DEF Folds
  <2> QED BY <2>1, <2>2 DEF FoldsIn
<1>12. GoesThrough([k \in 0..n |-> the[1..k]], turn, base, n, Good)
  <2>1. n \in Nat /\ base \in Good /\ \A acc \in Good, i \in 1..n : turn[i][acc] \in Good
      BY <1>1, <1>4, <1>0
  <2> HIDE DEF Folds
  <2> QED BY <2>1, <1>10, FoldSteps
<1>13. Persist!AllApplied(base, s) = the[1..n]
    BY <1>1, <1>8 DEF Persist!AllApplied, Persist!FoldLeft, Persist!MapThenFoldSet, Persist!Max, Max
<1>14. PICK acc : GoesThrough(acc, turn, base, n, Good) /\ acc[n] = the[1..n]
  <2>1. PICK acc : acc = [k \in 0..n |-> the[1..k]]
      OBVIOUS
  <2>2. acc[n] = the[1..n]
      BY <1>1, <2>1
  <2> HIDE DEF Folds
  <2> QED BY <1>12, <2>1, <2>2
<1>15. \A i \in 1..n : acc[i] = Persist!Applied(acc[i - 1], s[i])
  <2>1. \A i \in 1..n : i - 1 \in 0..n
      BY <1>1
  <2> QED BY <1>4, <1>14, <2>1 DEF GoesThrough
<1> QED BY <1>0, <1>1, <1>13, <1>14, <1>15 DEF GoesThrough

\* A batch leaves a hash as its last job says, or as it was without one.
LEMMA BatchLeaves ==
    ASSUME NEW base \in SUBSET PersistKey, NEW s \in Seq(Persist!Job), NEW k
    PROVE  /\ Persist!AllApplied(base, s) \in SUBSET PersistKey
           /\ Persist!JobsOf(k, s) = {} => (k \in Persist!AllApplied(base, s)) = (k \in base)
           /\ \A op : LastIn(k, op, s) => (k \in Persist!AllApplied(base, s)) = (op = "put")
<1>1. PICK n : n = Len(s) /\ n \in Nat /\ DOMAIN s = 1..n
    OBVIOUS
<1>2. PICK acc \in [0..n -> SUBSET PersistKey] :
               /\ acc[0] = base /\ acc[n] = Persist!AllApplied(base, s)
               /\ \A i \in 1..n : acc[i] = Persist!Applied(acc[i - 1], s[i])
    BY <1>1, BatchApplied
<1>3. ASSUME NEW i \in 1..n, s[i].key # k PROVE (k \in acc[i]) = (k \in acc[i - 1])
  <2>1. acc[i] = acc[i - 1] \cup {s[i].key} \/ acc[i] = acc[i - 1] \ {s[i].key}
      BY <1>2 DEF Persist!Applied
  <2> QED BY <1>3, <2>1
<1>4. ASSUME NEW i \in 1..n, s[i].key = k PROVE (k \in acc[i]) = (s[i].op = "put")
  <2>1. acc[i] = IF s[i].op = "put" THEN acc[i - 1] \cup {k} ELSE acc[i - 1] \ {k}
      BY <1>2, <1>4 DEF Persist!Applied
  <2> QED BY <2>1
<1>5. Persist!JobsOf(k, s) = {} => (k \in acc[n]) = (k \in base)
  <2> SUFFICES ASSUME Persist!JobsOf(k, s) = {} PROVE (k \in acc[n]) = (k \in base)
      OBVIOUS
  <2>1. \A i \in 1..n : s[i].key # k
      BY <1>1 DEF Persist!JobsOf
  <2> DEFINE Same == {i \in 0..n : (k \in acc[i]) = (k \in base)}
  <2>3. 0 \in Same
      BY <1>1, <1>2
  <2>4. \A i \in 1..n : i - 1 \in Same => i \in Same
      BY <1>1, <1>3, <2>1
  <2> HIDE DEF Same
  <2>5. 0..n \subseteq Same
      BY <1>1, <2>3, <2>4, PlaceInduction
  <2>6. n \in Same
      BY <1>1, <2>5
  <2> QED BY <2>6 DEF Same
<1>6. ASSUME NEW op, LastIn(k, op, s) PROVE (k \in acc[n]) = (op = "put")
  <2>1. PICK last \in 1..n : /\ s[last].key = k /\ s[last].op = op
                             /\ \A j \in 1..n : s[j].key = k => j <= last
      BY <1>1, <1>6 DEF LastIn
  <2> DEFINE Same == {i \in 0..n : i >= last => (k \in acc[i]) = (op = "put")}
  <2>3. 0 \in Same
      BY <1>1, <1>2
  <2>4. \A i \in 1..n : i - 1 \in Same => i \in Same
    <3> SUFFICES ASSUME NEW i \in 1..n, i - 1 \in Same, i >= last
                 PROVE  (k \in acc[i]) = (op = "put")
        OBVIOUS
    <3>1. CASE i = last
        BY <1>4, <2>1, <3>1
    <3>2. CASE i > last
      <4>1. s[i].key # k
          BY <2>1, <3>2
      <4>2. (k \in acc[i - 1]) = (op = "put")
        <5>1. i - 1 >= last
            BY <3>2
        <5> QED BY <5>1
      <4> QED BY <1>3, <4>1, <4>2
    <3> QED BY <3>1, <3>2
  <2> HIDE DEF Same
  <2>5. 0..n \subseteq Same
      BY <1>1, <2>3, <2>4, PlaceInduction
  <2>6. n \in Same
      BY <1>1, <2>5
  <2> QED BY <1>1, <2>1, <2>6 DEF Same
<1> QED BY <1>1, <1>2, <1>5, <1>6

\* Writing the batch: what is left and what is stored agree again.
LEMMA BatchWritten ==
    ASSUME NEW stored \in SUBSET PersistKey, NEW a \in Seq(Persist!Job),
           NEW b \in Seq(Persist!Job), NEW k, JobWinsIn(k, a \o b, stored)
    PROVE  JobWinsIn(k, b, Persist!AllApplied(stored, a))
<1>1. PICK n \in Nat, m \in Nat : n = Len(a) /\ m = Len(b)
    OBVIOUS
<1>0. DOMAIN a = 1..n /\ DOMAIN b = 1..m
    BY <1>1
<1>2. PICK s : s = a \o b
    OBVIOUS
<1>5. /\ DOMAIN s = 1..(n + m)
      /\ \A i \in 1..n : s[i] = a[i]
      /\ \A i \in 1..m : s[n + i] = b[i]
    BY <1>1, <1>2, Joined
<1>3. CASE Persist!JobsOf(k, s) = {}
  <2>1. \A i \in 1..(n + m) : s[i].key # k
      BY <1>5, <1>3 DEF Persist!JobsOf
  <2>2. Persist!JobsOf(k, a) = {} /\ Persist!JobsOf(k, b) = {}
    <3>1. \A i \in 1..n : a[i].key # k
        BY <1>0, <1>1, <1>5, <1>2, <2>1
    <3>2. \A i \in 1..m : b[i].key # k
        BY <1>0, <1>1, <1>5, <1>2, <2>1
    <3> QED BY <1>0, <1>1, <3>1, <3>2 DEF Persist!JobsOf
  <2>3. ~LastIn(k, lastJob[k], s)
      BY <1>5, <2>1 DEF LastIn
  <2>4. (k \in stored) = (lastJob[k] = "put")
      BY <1>2, <2>3 DEF JobWinsIn
  <2>5. Persist!JobsOf(k, a) = {} =>
            (k \in Persist!AllApplied(stored, a)) = (k \in stored)
      BY BatchLeaves
  <2>6. (k \in Persist!AllApplied(stored, a)) = (lastJob[k] = "put")
      BY <2>2, <2>4, <2>5
  <2> QED BY <2>2, <2>6 DEF JobWinsIn
<1>4. ASSUME LastIn(k, lastJob[k], s) PROVE JobWinsIn(k, b, Persist!AllApplied(stored, a))
  <2>1. PICK last \in 1..(n + m) :
            /\ s[last].key = k /\ s[last].op = lastJob[k]
            /\ \A j \in 1..(n + m) : s[j].key = k => j <= last
      BY <1>5, <1>4 DEF LastIn
  <2>2. CASE last <= n
    <3>1. LastIn(k, lastJob[k], a)
      <4>1. last \in 1..n /\ a[last].key = k /\ a[last].op = lastJob[k]
          BY <1>5, <2>1, <2>2
      <4>2. \A j \in 1..n : a[j].key = k => j <= last
          BY <1>5, <2>1
      <4> QED BY <1>0, <4>1, <4>2 DEF LastIn
    <3>2. \A i \in 1..m : b[i].key # k
        BY <1>0, <1>1, <1>5, <1>2, <2>1, <2>2
    <3> QED BY <1>0, <1>1, <3>1, <3>2, BatchLeaves DEF JobWinsIn, Persist!JobsOf
  <2>3. CASE last > n
    <3>1. PICK i : i = last - n /\ i \in 1..m /\ n + i = last
        BY <1>1, <2>1, <2>3
    <3>2. b[i].key = k /\ b[i].op = lastJob[k]
        BY <1>5, <2>1, <3>1
    <3>3. \A j \in 1..m : b[j].key = k => j <= i
      <4> SUFFICES ASSUME NEW j \in 1..m, b[j].key = k PROVE j <= i
          OBVIOUS
      <4>1. n + j \in 1..(n + m) /\ s[n + j].key = k
          BY <1>0, <1>1, <1>5, <1>2
      <4> QED BY <1>1, <2>1, <3>1, <4>1
    <3> QED BY <1>0, <1>1, <3>1, <3>2, <3>3 DEF JobWinsIn, LastIn
  <2> QED BY <1>1, <2>1, <2>2, <2>3
<1> QED BY <1>2, <1>3, <1>4 DEF JobWinsIn

\* A job at the back of the queue, and the first one dropped for it.
LEMMA JobPushed ==
    ASSUME PersistInv, NEW job \in Persist!Job, Persist!Enqueue(job)
    PROVE  PersistInv'
<1> USE DEF PersistInv, PersistTypeOK
<1>1. job.key \in PersistKey /\ job.op \in {"put", "delete"}
    BY DEF Persist!Job
<1>2. /\ UNCHANGED <<batch, db, persistWorker>>
      /\ lastJob' = [lastJob EXCEPT ![job.key] = job.op]
    BY DEF Persist!Enqueue
<1>3. PICK longer : longer = Append(persistQueue, job)
    OBVIOUS
<1>4. PICK n \in Nat, m \in Nat : n = Len(batch) /\ m = Len(persistQueue)
    OBVIOUS
<1>5. /\ longer \in Seq(Persist!Job) /\ longer # <<>> /\ Len(longer) = m + 1
      /\ \A i \in 1..m : longer[i] = persistQueue[i]
      /\ longer[m + 1] = job
    BY <1>3, <1>4
<1>6. PICK gone : gone = longer[1].key
    OBVIOUS
<1>7. \/ /\ persistQueue' = longer /\ dropped' = dropped \ {job.key}
      \/ /\ persistQueue' = Tail(longer)
         /\ \/ Persist!JobsOf(gone, Tail(longer)) = {} /\ dropped' = dropped \cup {gone}
            \/ Persist!JobsOf(gone, Tail(longer)) # {} /\ dropped' = dropped \ {job.key}
  <2>1. PICK over : over = (Len(longer) > MaxPersistQueue)
      OBVIOUS
  <2>2. PICK kept : kept = IF over THEN Tail(longer) ELSE longer
      OBVIOUS
  <2>3. Head(longer) = longer[1]
      BY <1>5
  <2>4. /\ persistQueue' = kept
        /\ dropped' = IF over /\ Persist!JobsOf(gone, kept) = {} THEN dropped \cup {gone}
                      ELSE dropped \ {job.key}
      BY <1>3, <1>6, <2>1, <2>2, <2>3, Zenon DEF Persist!Enqueue
  <2> QED BY <2>2, <2>4
<1>8. persistQueue' \in Seq(Persist!Job)
  <2>1. Tail(longer) \in Seq(Persist!Job)
      BY <1>5
  <2> QED BY <1>5, <1>7, <2>1
<1>9. PersistTypeOK'
    BY <1>1, <1>2, <1>8
<1>10. PICK s : s = batch \o persistQueue
    OBVIOUS
<1>11. /\ DOMAIN s = 1..(n + m)
       /\ \A i \in 1..n : s[i] = batch[i]
       /\ \A i \in 1..m : s[n + i] = persistQueue[i]
    BY <1>4, <1>10, Joined
<1>12. PICK t : t = batch \o persistQueue'
    OBVIOUS
<1>13. ASSUME NEW k \in PersistKey \ dropped' PROVE JobWinsIn(k, t, db)'
  <2> DEFINE p == n + m + 1
  <2>1. CASE persistQueue' = longer /\ dropped' = dropped \ {job.key}
    <3>1. /\ DOMAIN t = 1..p
          /\ \A i \in 1..n : t[i] = batch[i]
          /\ \A i \in 1..(m + 1) : t[n + i] = longer[i]
      <4>1. t = batch \o longer
          BY <1>12, <2>1
      <4>2. Len(longer) = m + 1 /\ n + (m + 1) = p
          BY <1>5
      <4>3. longer \in Seq(Persist!Job) /\ batch \in Seq(Persist!Job)
          BY <1>5
      <4>4. /\ DOMAIN t = 1..(n + (m + 1))
            /\ \A i \in 1..n : t[i] = batch[i]
            /\ \A i \in 1..(m + 1) : t[n + i] = longer[i]
        <5>1. PICK w : w = m + 1
            OBVIOUS
        <5>2. n = Len(batch)
            BY <1>4
        <5>3. w = Len(longer)
            BY <4>2, <5>1
        <5> HIDE DEF PersistInv, PersistTypeOK
        <5>4. /\ DOMAIN t = 1..(n + w)
              /\ \A i \in 1..n : t[i] = batch[i]
              /\ \A i \in 1..w : t[n + i] = longer[i]
            BY <4>1, <4>3, <5>2, <5>3, Joined
        <5> QED BY <5>1, <5>4
      <4> QED BY <4>2, <4>4
    <3>2. t[p] = job
      <4>1. m + 1 \in 1..(m + 1) /\ n + (m + 1) = p
          OBVIOUS
      <4> QED BY <1>5, <3>1, <4>1
    <3>3. \A i \in 1..(n + m) : t[i] = s[i]
      <4>1. ASSUME NEW i \in 1..(n + m), i > n PROVE t[i] = s[i]
        <5>1. PICK j \in 1..m : i = n + j
          <6>1. i - n \in 1..m /\ i = n + (i - n)
              BY <4>1
          <6> QED BY <6>1
        <5>2. t[i] = longer[j] /\ s[i] = persistQueue[j]
            BY <1>11, <3>1, <5>1
        <5> QED BY <1>5, <5>2
      <4> QED BY <1>11, <3>1, <4>1
    <3>4. CASE k = job.key
      <4>1. p \in DOMAIN t /\ \A j \in DOMAIN t : j <= p
          BY <3>1
      <4>2. lastJob'[k] = job.op
          BY <1>2, <3>4
      <4>3. LastIn(k, lastJob'[k], t)
          BY <3>2, <3>4, <4>1, <4>2 DEF LastIn
      <4> QED BY <4>3 DEF JobWinsIn
    <3>5. CASE k # job.key
      <4>1. k \notin dropped /\ lastJob'[k] = lastJob[k]
          BY <1>2, <2>1, <3>5
      <4>2. JobWinsIn(k, s, db)
          BY <1>10, <4>1
      <4>3. CASE LastIn(k, lastJob[k], s)
        <5>1. PICK last \in 1..(n + m) : /\ s[last].key = k /\ s[last].op = lastJob[k]
                                         /\ \A j \in 1..(n + m) : s[j].key = k => j <= last
            BY <1>11, <4>3 DEF LastIn
        <5>2. last \in 1..p /\ t[last].key = k /\ t[last].op = lastJob[k]
            BY <3>3, <5>1
        <5>3. \A j \in 1..p : t[j].key = k => j <= last
          <6> SUFFICES ASSUME NEW j \in 1..p, t[j].key = k PROVE j <= last
              OBVIOUS
          <6>1. j # p
              BY <3>2, <3>5
          <6>2. j \in 1..(n + m)
              BY <6>1
          <6> QED BY <3>3, <5>1, <6>2
        <5> QED BY <3>1, <4>1, <5>2, <5>3 DEF LastIn, JobWinsIn
      <4>4. CASE Persist!JobsOf(k, s) = {} /\ (k \in db) = (lastJob[k] = "put")
        <5>1. \A j \in 1..p : t[j].key # k
          <6>1. ASSUME NEW j \in 1..(n + m) PROVE t[j].key # k
              BY <1>11, <3>3, <4>4 DEF Persist!JobsOf
          <6>2. \A j \in 1..p : j = p \/ j \in 1..(n + m)
              OBVIOUS
          <6> QED BY <3>2, <3>5, <6>1, <6>2
        <5>2. Persist!JobsOf(k, t) = {}
            BY <3>1, <5>1 DEF Persist!JobsOf
        <5> QED BY <1>2, <4>1, <4>4, <5>2 DEF JobWinsIn
      <4> QED BY <4>2, <4>3, <4>4 DEF JobWinsIn
    <3> QED BY <3>4, <3>5
  <2>2. CASE persistQueue' = Tail(longer)
    <3> DEFINE q == n + m
    <3>1. /\ DOMAIN t = 1..q
          /\ \A i \in 1..n : t[i] = batch[i]
          /\ \A i \in 1..m : t[n + i] = longer[i + 1]
      <4>1. PICK kept : kept = Tail(longer)
          OBVIOUS
      <4>2. /\ kept \in Seq(Persist!Job) /\ Len(kept) = m
            /\ \A i \in 1..m : kept[i] = longer[i + 1]
          BY <1>5, <4>1
      <4>3. t = batch \o kept
          BY <1>12, <2>2, <4>1
      <4>4. batch \in Seq(Persist!Job)
          OBVIOUS
      <4>5. /\ DOMAIN t = 1..(n + m)
            /\ \A i \in 1..n : t[i] = batch[i]
            /\ \A i \in 1..m : t[n + i] = kept[i]
        <5>1. n = Len(batch)
            BY <1>4
        <5>2. m = Len(kept)
            BY <4>2
        <5>3. kept \in Seq(Persist!Job)
            BY <4>2
        <5> HIDE DEF PersistInv, PersistTypeOK
        <5> QED BY <4>3, <4>4, <5>1, <5>2, <5>3, Joined
      <4> QED BY <4>2, <4>5
    <3>2. k = gone => \E i \in 1..m : longer[i + 1].key = k
      <4>1. PICK kept : kept = Tail(longer)
          OBVIOUS
      <4>2. DOMAIN kept = 1..m /\ \A i \in 1..m : kept[i] = longer[i + 1]
          BY <1>5, <4>1
      <4>3. k = gone => Persist!JobsOf(gone, kept) # {}
        <5>1. persistQueue' # longer
          <6>1. Len(Tail(longer)) = m
              BY <1>5
          <6> QED BY <1>5, <2>2, <6>1
        <5> QED BY <1>7, <4>1, <5>1
      <4> QED BY <4>2, <4>3 DEF Persist!JobsOf
    <3>3. k # job.key => k \notin dropped
        BY <1>7
    <3>4. m # 0 => t[q] = job
      <4>1. m # 0 => m \in 1..m /\ n + m = q
          OBVIOUS
      <4> QED BY <1>5, <3>1, <4>1
    <3>5. CASE k = job.key
      <4>1. m # 0
        <5>1. m = 0 => gone = k
            BY <1>5, <1>6, <3>5
        <5> QED BY <3>2, <5>1
      <4>2. q \in DOMAIN t /\ \A j \in DOMAIN t : j <= q
          BY <3>1, <4>1
      <4>3. lastJob'[k] = job.op
          BY <1>2, <3>5
      <4>4. LastIn(k, lastJob'[k], t)
          BY <3>4, <3>5, <4>1, <4>2, <4>3 DEF LastIn
      <4> QED BY <4>4 DEF JobWinsIn
    <3>6. CASE k # job.key
      <4>1. k \notin dropped /\ lastJob'[k] = lastJob[k]
          BY <1>2, <3>3, <3>6
      <4>2. JobWinsIn(k, s, db)
          BY <1>10, <4>1
      <4>3. \A j \in 1..q : t[j].key = k =>
                \/ j \in 1..n /\ t[j] = s[j]
                \/ j > n /\ j + 1 \in 1..q /\ t[j] = s[j + 1]
        <5> SUFFICES ASSUME NEW j \in 1..q, t[j].key = k, j > n
                     PROVE  j + 1 \in 1..q /\ t[j] = s[j + 1]
            BY <1>11, <3>1
        <5>1. PICK i \in 1..m : j = n + i
          <6>1. j - n \in 1..m /\ j = n + (j - n)
              OBVIOUS
          <6> QED BY <6>1
        <5>2. i # m
            BY <1>5, <3>1, <3>6, <5>1
        <5>3. i + 1 \in 1..m /\ n + (i + 1) = j + 1
            BY <5>1, <5>2
        <5>4. t[j] = persistQueue[i + 1]
            BY <1>5, <3>1, <5>1, <5>3
        <5> QED BY <1>11, <5>3, <5>4
      <4>4. \A j \in 1..q : j <= n \/ (j > n + 1 => j - 1 \in 1..q /\ t[j - 1] = s[j])
        <5> SUFFICES ASSUME NEW j \in 1..q, j > n + 1
                     PROVE  j - 1 \in 1..q /\ t[j - 1] = s[j]
            OBVIOUS
        <5>1. PICK i \in 1..m : j = n + (i + 1) /\ i + 1 \in 1..m
          <6>1. j - (n + 1) \in 1..m /\ j = n + ((j - (n + 1)) + 1)
                /\ (j - (n + 1)) + 1 \in 1..m
              OBVIOUS
          <6> QED BY <6>1
        <5>2. t[n + i] = longer[i + 1]
            BY <3>1
        <5>3. s[j] = persistQueue[i + 1]
            BY <1>11, <5>1
        <5>4. n + i = j - 1 /\ j - 1 \in 1..q
            BY <5>1
        <5> QED BY <1>5, <5>1, <5>2, <5>3, <5>4
      <4>5. CASE LastIn(k, lastJob[k], s)
        <5>1. PICK last \in 1..q : /\ s[last].key = k /\ s[last].op = lastJob[k]
                                   /\ \A j \in 1..q : s[j].key = k => j <= last
            BY <1>11, <4>5 DEF LastIn
        <5>2. CASE last <= n
          <6>1. t[last] = s[last]
              BY <1>11, <3>1, <5>2
          <6>2. \A j \in 1..q : t[j].key = k => j <= last
              BY <4>3, <5>1, <5>2
          <6> QED BY <3>1, <4>1, <5>1, <6>1, <6>2 DEF LastIn, JobWinsIn
        <5>3. CASE last = n + 1
          <6>1. m # 0
              BY <5>3
          <6>2. k = gone
            <7>1. 1 \in 1..m /\ n + 1 = last
                BY <5>3, <6>1
            <7> QED BY <1>5, <1>6, <1>11, <5>1, <7>1
          <6>3. PICK i \in 1..m : longer[i + 1].key = k
              BY <3>2, <6>2
          <6>4. i # m
              BY <1>5, <3>6, <6>3
          <6>5. i + 1 \in 1..m /\ longer[i + 1] = persistQueue[i + 1]
              BY <1>5, <6>4
          <6>6. n + (i + 1) \in 1..q /\ s[n + (i + 1)].key = k
              BY <1>11, <6>3, <6>5
          <6>7. n + (i + 1) <= last
              BY <5>1, <6>6
          <6> QED BY <5>3, <6>7
        <5>4. CASE last > n + 1
          <6>1. last - 1 \in 1..q /\ t[last - 1] = s[last]
              BY <4>4, <5>4
          <6>2. \A j \in 1..q : t[j].key = k => j <= last - 1
            <7> SUFFICES ASSUME NEW j \in 1..q, t[j].key = k PROVE j <= last - 1
                OBVIOUS
            <7>1. CASE j \in 1..n
                BY <5>4, <7>1
            <7>2. CASE j > n
              <8>1. j + 1 \in 1..q /\ s[j + 1].key = k
                  BY <4>3, <7>2
              <8>2. j + 1 <= last
                  BY <5>1, <8>1
              <8> QED BY <8>2
            <7> QED BY <7>1, <7>2
          <6> QED BY <3>1, <4>1, <5>1, <6>1, <6>2 DEF LastIn, JobWinsIn
        <5> QED BY <5>2, <5>3, <5>4
      <4>6. CASE Persist!JobsOf(k, s) = {} /\ (k \in db) = (lastJob[k] = "put")
        <5>1. \A j \in 1..q : s[j].key # k
            BY <1>11, <4>6 DEF Persist!JobsOf
        <5>2. \A j \in 1..q : t[j].key # k
            BY <4>3, <5>1
        <5>3. Persist!JobsOf(k, t) = {}
            BY <3>1, <5>2 DEF Persist!JobsOf
        <5> QED BY <1>2, <4>1, <4>6, <5>3 DEF JobWinsIn
      <4> QED BY <4>2, <4>5, <4>6 DEF JobWinsIn
    <3> QED BY <3>5, <3>6
  <2> QED BY <1>7, <2>1, <2>2
<1>14. \A k \in PersistKey \ dropped' : JobWinsIn(k, batch \o persistQueue, db)'
    BY <1>2, <1>12, <1>13 DEF JobWinsIn
<1> QED BY <1>9, <1>14

\* Every step of the queue keeps the last job of each hash in force.
LEMMA PersistKept ==
    /\ Persist!Init => PersistInv
    /\ PersistInv /\ [Persist!Next]_(Persist!persistVars) => PersistInv'
<1>1. Persist!Init => PersistInv
  <2> SUFFICES ASSUME Persist!Init PROVE PersistInv
      OBVIOUS
  <2>1. PICK s : s = batch \o persistQueue /\ s = <<>>
      BY DEF Persist!Init
  <2>2. \A k : Persist!JobsOf(k, s) = {}
      BY <2>1 DEF Persist!JobsOf
  <2>3. \A k \in PersistKey : (k \in db) = (lastJob[k] = "put")
      BY DEF Persist!Init
  <2>4. PersistTypeOK
      BY DEF PersistTypeOK, Persist!Init
  <2> QED BY <2>1, <2>2, <2>3, <2>4 DEF PersistInv, JobWinsIn
<1>2. PersistInv /\ [Persist!Next]_(Persist!persistVars) => PersistInv'
  <2> SUFFICES ASSUME PersistInv, [Persist!Next]_(Persist!persistVars) PROVE PersistInv'
      OBVIOUS
  <2>1. ASSUME NEW job \in Persist!Job, Persist!Enqueue(job) PROVE PersistInv'
      BY <2>1, JobPushed
  <2>2. CASE Persist!TakeBatch
    <3>1. /\ UNCHANGED <<db, lastJob, dropped>> /\ persistWorker' = "write" /\ batch = <<>>
          /\ persistQueue \in Seq(Persist!Job)
        BY <2>2 DEF Persist!TakeBatch, PersistInv, PersistTypeOK
    <3>2. PICK n \in 0..Len(persistQueue) :
              /\ batch' = SubSeq(persistQueue, 1, n)
              /\ persistQueue' = SubSeq(persistQueue, n + 1, Len(persistQueue))
      <4>1. PICK n : n = IF Len(persistQueue) < PersistBatch THEN Len(persistQueue)
                         ELSE PersistBatch
          OBVIOUS
      <4>2. n \in 0..Len(persistQueue)
          BY <3>1, <4>1, PersistAssumption
      <4>3. /\ batch' = SubSeq(persistQueue, 1, n)
            /\ persistQueue' = SubSeq(persistQueue, n + 1, Len(persistQueue))
          BY <2>2, <4>1, Zenon DEF Persist!TakeBatch
      <4> QED BY <4>2, <4>3
    <3>3. /\ batch' \in Seq(Persist!Job) /\ persistQueue' \in Seq(Persist!Job)
          /\ batch' \o persistQueue' = persistQueue
      <4>1. PICK s : s = persistQueue
          OBVIOUS
      <4>2. s \in Seq(Persist!Job) /\ n \in 0..Len(s)
          BY <3>1, <4>1
      <4>3. batch' = SubSeq(s, 1, n) /\ persistQueue' = SubSeq(s, n + 1, Len(s))
          BY <3>2, <4>1
      <4>4. batch' \in Seq(Persist!Job) /\ persistQueue' \in Seq(Persist!Job)
            /\ batch' \o persistQueue' = s
          BY <4>2, <4>3, CutAndJoin
      <4> QED BY <4>1, <4>4
    <3>4. batch \o persistQueue = persistQueue
        BY <3>1
    <3> QED BY <3>1, <3>3, <3>4 DEF PersistInv, PersistTypeOK, JobWinsIn
  <2>3. CASE Persist!WriteBatch
    <3>1. /\ UNCHANGED <<persistQueue, lastJob, dropped>> /\ batch' = <<>>
          /\ persistWorker' = "wait" /\ db' = Persist!AllApplied(db, batch)
        BY <2>3 DEF Persist!WriteBatch
    <3>2. db \in SUBSET PersistKey /\ batch \in Seq(Persist!Job)
          /\ persistQueue \in Seq(Persist!Job)
        BY DEF PersistInv, PersistTypeOK
    <3>3. batch' \o persistQueue' = persistQueue
        BY <3>1, <3>2
    <3>4. \A k \in PersistKey \ dropped' : JobWinsIn(k, persistQueue, db')
        BY <3>1, <3>2, BatchWritten DEF PersistInv
    <3>5. db' \in SUBSET PersistKey
        BY <3>1, <3>2, BatchLeaves
    <3>6. batch' \in Seq(Persist!Job)
        BY <3>1
    <3>7. PersistTypeOK'
        BY <3>1, <3>2, <3>5, <3>6 DEF PersistInv, PersistTypeOK
    <3> QED BY <3>1, <3>3, <3>4, <3>7 DEF PersistInv, JobWinsIn
  <2>4. CASE Persist!WriteFails
    <3>1. /\ UNCHANGED <<db, lastJob, dropped>> /\ batch' = <<>>
          /\ persistQueue' = batch \o persistQueue
        BY <2>4 DEF Persist!WriteFails, Persist!Back
    <3>2. batch \in Seq(Persist!Job) /\ persistQueue \in Seq(Persist!Job)
        BY DEF PersistInv, PersistTypeOK
    <3>3. persistQueue' \in Seq(Persist!Job) /\ batch' \o persistQueue' = persistQueue'
        BY <3>1, <3>2
    <3> QED BY <3>1, <3>3 DEF PersistInv, PersistTypeOK, JobWinsIn
  <2>5. CASE Persist!StopPersist
      BY <2>5 DEF Persist!StopPersist, PersistInv, PersistTypeOK, JobWinsIn
  <2>6. CASE Persist!WorkerLeaves
      BY <2>6 DEF Persist!WorkerLeaves, PersistInv, PersistTypeOK, JobWinsIn
  <2>7. CASE UNCHANGED Persist!persistVars
      BY <2>7 DEF Persist!persistVars, PersistInv, PersistTypeOK, JobWinsIn
  <2> QED BY <2>1, <2>2, <2>3, <2>4, <2>5, <2>6, <2>7 DEF Persist!Next
<1> QED BY <1>1, <1>2

\* The inductive invariant of what runPersistWorker stores: the last job of a
\* hash waits behind all its others, or the database is as that job left it.
THEOREM PersistInvariant == StateSpec => [](unit = "persist" => PersistInv)
<1> DEFINE Inv == unit = "persist" => PersistInv
<1>1. StateInit => Inv
    BY PersistKept DEF StateInit, ChainInit, MempoolInit, PersistInit, DatabaseInit
<1>2. Inv /\ [StateNext]_<<unit, otherVars, stateVars>> => Inv'
  <2> SUFFICES ASSUME Inv, [StateNext]_<<unit, otherVars, stateVars>>, unit' = "persist"
               PROVE  PersistInv'
      OBVIOUS
  <2>1. unit = "persist" /\ [Persist!Next]_(Persist!persistVars)
      BY DEF StateNext, ChainNext, MempoolNext, PersistNext, DatabaseNext, stateVars, jobVars,
             Persist!persistVars
  <2> QED BY <2>1, PersistKept
<1> QED
    BY <1>1, <1>2, PTL DEF StateSpec

\* However the caller and the worker interleave, for any hashes, limits and
\* batches, whichever writes fail, a hash with no job waiting is stored as
\* its last job left it.
THEOREM LastJobAlwaysWins == StateSpec => []LastJobWins
<1>1. (unit = "persist" => PersistInv) => LastJobWins
  <2> SUFFICES ASSUME PersistInv, NEW k \in PersistKey,
                      Persist!JobsOf(k, batch \o persistQueue) = {}, k \notin dropped
               PROVE  (k \in db) = (lastJob[k] = "put")
      BY DEF LastJobWins, Persist!LastJobWins
  <2>1. JobWinsIn(k, batch \o persistQueue, db)
      BY DEF PersistInv
  <2>2. ~LastIn(k, lastJob[k], batch \o persistQueue)
      BY DEF LastIn, Persist!JobsOf
  <2> QED BY <2>1, <2>2 DEF JobWinsIn
<1> QED
    BY <1>1, PersistInvariant, PTL

-----------------------------------------------------------------------------
(* The databases: MedorDatabase                                            *)

StoredValue == DatabaseValue \cup {Absent, Ok}
StoredMap == [DatabaseKey -> StoredValue]
WrittenKey == DatabaseKey \cup {HealthKey, BanKey, MetricsKey}
WrittenMap == UNION {[keys -> StoredValue] : keys \in SUBSET WrittenKey}

\* What a batch makes of the contents.
Over(c, b) == [k \in DatabaseKey |-> IF k \in DOMAIN b THEN b[k] ELSE c[k]]

\* Whatever part of the log a power failure leaves, the contents are
\* possible ones.
DatabaseInv ==
    /\ synced \in StoredMap /\ log \in Seq(WrittenMap)
    /\ \A n \in 0..Len(log) : Database!Apply(synced, SubSeq(log, 1, n)) \in possible

LEMMA OverKept ==
    ASSUME NEW c \in StoredMap, NEW b \in WrittenMap
    PROVE  Over(c, b) \in StoredMap
<1>1. PICK keys \in SUBSET WrittenKey : b \in [keys -> StoredValue]
    BY DEF WrittenMap
<1> QED BY <1>1 DEF Over, StoredMap

\* acc are the contents the batches of s go through.
AppliedBy(acc, base, s) ==
    /\ acc \in [0..Len(s) -> StoredMap] /\ acc[0] = base
    /\ \A i \in 1..Len(s) : acc[i] = Over(acc[i - 1], s[i])

\* The contents a list of batches goes through.
LEMMA BatchesApplied ==
    ASSUME NEW base \in StoredMap, NEW s \in Seq(WrittenMap)
    PROVE  \E acc : AppliedBy(acc, base, s) /\ acc[Len(s)] = Database!Apply(base, s)
<1>1. PICK n : n = Len(s) /\ n \in Nat /\ DOMAIN s = 1..n
    OBVIOUS
<1>0. PICK Good : Good = StoredMap
    OBVIOUS
<1> DEFINE Folds(it) == it = [p \in SUBSET (1..n) |-> IF p = {} THEN base
                               ELSE Over(it[p \ {Max(p)}], s[Max(p)])]
<1>2. \A acc \in Good, i \in 1..n : Over(acc, s[i]) \in Good
  <2>0. \A i \in 1..n : s[i] \in WrittenMap
      BY <1>1
  <2> QED BY <1>0, <2>0, OverKept
<1>3. PICK turn : turn = [i \in 1..n |-> [acc \in Good |-> Over(acc, s[i])]]
    OBVIOUS
<1>4. \A acc \in Good, i \in 1..n : turn[i][acc] = Over(acc, s[i]) /\ turn[i][acc] \in Good
  <2> HIDE DEF Over
  <2> QED BY <1>2, <1>3
<1>5. n \in Nat /\ base \in Good /\ \A acc \in Good, i \in 1..n : turn[i][acc] \in Good
    BY <1>1, <1>4, <1>0
<1>6. PICK it : FoldsAll(it, turn, base, n) /\ StaysGood(it, n, Good)
    BY <1>5, FoldExists
<1>7. \A p \in SUBSET (1..n) : p # {} =>
          turn[Max(p)][it[p \ {Max(p)}]] = Over(it[p \ {Max(p)}], s[Max(p)])
    BY <1>1, <1>4, <1>6, LastOfPlaces DEF StaysGood
<1>8. \E g : Folds(g)
  <2>1. it = [p \in SUBSET (1..n) |-> IF p = {} THEN base
                ELSE Over(it[p \ {Max(p)}], s[Max(p)])]
      BY <1>6, <1>7 DEF FoldsAll
  <2> QED BY <2>1
<1>9. PICK the : the = CHOOSE g : Folds(g)
    OBVIOUS
<1>10. Folds(the)
  <2> HIDE DEF Folds
  <2> QED BY <1>8, <1>9
<1>11. FoldsIn(the, turn, base, n, Good)
  <2>1. \A p \in SUBSET (1..n) : p # {} /\ the[p \ {Max(p)}] \in Good =>
            the[p] = turn[Max(p)][the[p \ {Max(p)}]]
      BY <1>1, <1>4, <1>10, LastOfPlaces
  <2>2. the[{}] = base
      BY <1>10
  <2> HIDE DEF Folds
  <2> QED BY <2>1, <2>2 DEF FoldsIn
<1>12. GoesThrough([k \in 0..n |-> the[1..k]], turn, base, n, Good)
  <2> HIDE DEF Folds
  <2> QED BY <1>5, <1>11, FoldSteps
<1>13. Database!Apply(base, s) = the[1..n]
    BY <1>1, <1>9 DEF Database!Apply, Database!FoldLeft, Database!MapThenFoldSet, Database!Max, Max,
                      Over
<1>14. PICK acc : GoesThrough(acc, turn, base, n, Good) /\ acc[n] = the[1..n]
  <2>1. PICK acc : acc = [k \in 0..n |-> the[1..k]]
      OBVIOUS
  <2>2. acc[n] = the[1..n]
      BY <1>1, <2>1
  <2> HIDE DEF Folds
  <2> QED BY <1>12, <2>1, <2>2
<1>15. \A i \in 1..n : acc[i] = Over(acc[i - 1], s[i])
  <2>1. \A i \in 1..n : i - 1 \in 0..n
      BY <1>1
  <2> QED BY <1>4, <1>14, <2>1 DEF GoesThrough
<1>16. AppliedBy(acc, base, s)
    BY <1>0, <1>1, <1>14, <1>15 DEF GoesThrough, AppliedBy
<1> QED BY <1>1, <1>13, <1>14, <1>16

\* A list that begins as another goes through the same contents as far.
LEMMA SameBeginning ==
    ASSUME NEW base, NEW s, NEW n \in Nat, n = Len(s), NEW m \in 0..n, NEW t, m = Len(t),
           \A i \in 1..m : t[i] = s[i],
           NEW a, AppliedBy(a, base, s), NEW b, AppliedBy(b, base, t)
    PROVE  \A i \in 0..m : a[i] = b[i]
<1> DEFINE Same == {i \in 0..m : a[i] = b[i]}
<1>1. 0 \in Same
    BY DEF AppliedBy
<1>2. ASSUME NEW i \in 1..m, i - 1 \in Same PROVE i \in Same
  <2>1. i \in 1..n /\ i \in 1..m /\ s[i] = t[i]
      OBVIOUS
  <2>2. a[i] = Over(a[i - 1], s[i])
      BY <2>1 DEF AppliedBy
  <2>3. b[i] = Over(b[i - 1], t[i])
      BY <2>1 DEF AppliedBy
  <2> QED BY <1>2, <2>1, <2>2, <2>3
<1> HIDE DEF Same
<1>0. m \in Nat
    OBVIOUS
<1>3. 0..m \subseteq Same
    BY <1>0, <1>1, <1>2, PlaceInduction
<1> QED BY <1>3 DEF Same

\* Nothing applied, and one batch more.
LEMMA ApplyNone ==
    ASSUME NEW base \in StoredMap PROVE Database!Apply(base, <<>>) = base
<1>1. PICK s : s = <<>>
    OBVIOUS
<1>3. s \in Seq(WrittenMap) /\ Len(s) = 0
    BY <1>1
<1>2. PICK acc : AppliedBy(acc, base, s) /\ acc[Len(s)] = Database!Apply(base, s)
    BY <1>3, BatchesApplied
<1> QED BY <1>1, <1>2, <1>3 DEF AppliedBy

LEMMA ApplyMore ==
    ASSUME NEW base \in StoredMap, NEW s \in Seq(WrittenMap), NEW b \in WrittenMap
    PROVE  /\ Database!Apply(base, s) \in StoredMap
           /\ Database!Apply(base, Append(s, b)) = Over(Database!Apply(base, s), b)
<1>1. PICK n \in Nat : n = Len(s)
    OBVIOUS
<1>2. PICK t : t = Append(s, b)
    OBVIOUS
<1>3. /\ t \in Seq(WrittenMap) /\ Len(t) = n + 1 /\ t[n + 1] = b
      /\ \A i \in 1..n : t[i] = s[i]
    BY <1>1, <1>2
<1>4. PICK one : AppliedBy(one, base, s) /\ one[Len(s)] = Database!Apply(base, s)
    BY BatchesApplied
<1>5. PICK two : AppliedBy(two, base, t) /\ two[Len(t)] = Database!Apply(base, t)
    BY <1>3, BatchesApplied
<1>6. PICK m \in Nat : m = n + 1 /\ n \in 0..m /\ m \in 1..m /\ m - 1 = n
  <2>1. n + 1 \in Nat /\ n \in 0..(n + 1) /\ n + 1 \in 1..(n + 1) /\ (n + 1) - 1 = n
      OBVIOUS
  <2> QED BY <2>1
<1>7. m = Len(t)
    BY <1>3, <1>6
<1>8. \A i \in 1..n : s[i] = t[i]
    BY <1>3
<1>9. \A i \in 0..n : two[i] = one[i]
    BY <1>1, <1>4, <1>5, <1>6, <1>7, <1>8, SameBeginning
<1>10. two[m] = Over(two[n], b)
    BY <1>3, <1>5, <1>6, <1>7 DEF AppliedBy
<1>11. n \in 0..n
    OBVIOUS
<1>12. one[n] \in StoredMap
    BY <1>1, <1>4, <1>11 DEF AppliedBy
<1> QED BY <1>1, <1>2, <1>4, <1>5, <1>7, <1>9, <1>10, <1>11, <1>12

LEMMA ApplyOne ==
    ASSUME NEW base \in StoredMap, NEW b \in WrittenMap
    PROVE  Database!Apply(base, <<b>>) = Over(base, b)
<1>1. Append(<<>>, b) = <<b>> /\ <<>> \in Seq(WrittenMap)
    OBVIOUS
<1>2. PICK none : none = <<>>
    OBVIOUS
<1>3. Database!Apply(base, Append(none, b)) = Over(Database!Apply(base, none), b)
    BY <1>1, <1>2, ApplyMore
<1> QED BY <1>1, <1>2, <1>3, ApplyNone

\* The parts of a log, and of one with another batch.
LEMMA LogParts ==
    ASSUME NEW S, NEW s \in Seq(S), NEW b \in S
    PROVE  /\ SubSeq(s, 1, Len(s)) = s
           /\ \A n \in 0..Len(Append(s, b)) :
                  \/ n \in 0..Len(s) /\ SubSeq(Append(s, b), 1, n) = SubSeq(s, 1, n)
                  \/ SubSeq(Append(s, b), 1, n) = Append(s, b)
<1>1. PICK m \in Nat : m = Len(s)
    OBVIOUS
<1>2. SubSeq(s, 1, m) = s
    BY <1>1
<1>3. PICK t : t = Append(s, b)
    OBVIOUS
<1>4. t \in Seq(S) /\ Len(t) = m + 1 /\ \A i \in 1..m : t[i] = s[i]
    BY <1>1, <1>3
<1>5. ASSUME NEW n \in 0..m PROVE SubSeq(t, 1, n) = SubSeq(s, 1, n)
  <2>1. PICK x, y : x = SubSeq(t, 1, n) /\ y = SubSeq(s, 1, n)
      OBVIOUS
  <2>2. \A i \in 1..n : i \in 1..m /\ s[i] \in S /\ t[i] = s[i]
      BY <1>1, <1>4
  <2>5. \A i \in 1..n : t[i] \in S
      BY <2>2
  <2>3. x \in Seq(S) /\ Len(x) = n /\ \A i \in 1..n : x[i] = t[i]
      BY <2>1, <2>5, SubSeqProperties
  <2>4. y \in Seq(S) /\ Len(y) = n /\ \A i \in 1..n : y[i] = s[i]
      BY <2>1, <2>2, SubSeqProperties
  <2> QED BY <2>1, <2>2, <2>3, <2>4, SeqEqual
<1>6. SubSeq(t, 1, m + 1) = t
    BY <1>4
<1>7. \A n \in 0..(m + 1) : n \in 0..m \/ n = m + 1
    OBVIOUS
<1> QED BY <1>1, <1>2, <1>3, <1>4, <1>5, <1>6, <1>7

\* What the database holds is a possible content, and another batch makes of
\* it what a caller of Apply computes.
LEMMA ContentsPossible ==
    ASSUME DatabaseInv
    PROVE  /\ Database!Contents \in StoredMap /\ Database!Contents \in possible
           /\ \A b \in WrittenMap :
                  /\ Database!Apply(Database!Contents, <<b>>) = Over(Database!Contents, b)
                  /\ Over(Database!Contents, b) \in StoredMap
                  /\ Database!Apply(synced, Append(log, b)) = Over(Database!Contents, b)
<1>1. synced \in StoredMap /\ log \in Seq(WrittenMap)
    BY DEF DatabaseInv
<1>2. PICK b \in WrittenMap : TRUE
  <2>1. PICK b : b = [k \in {} |-> Absent]
      OBVIOUS
  <2>2. b \in [{} -> StoredValue]
      BY <2>1
  <2> QED BY <2>2 DEF WrittenMap
<1>3. SubSeq(log, 1, Len(log)) = log /\ Len(log) \in 0..Len(log)
    BY <1>1, <1>2, LogParts
<1>4. Database!Contents \in StoredMap
    BY <1>1, <1>2, ApplyMore DEF Database!Contents
<1>5. Database!Contents \in possible
    BY <1>3 DEF DatabaseInv, Database!Contents
<1>6. ASSUME NEW c \in WrittenMap
      PROVE  /\ Database!Apply(Database!Contents, <<c>>) = Over(Database!Contents, c)
             /\ Over(Database!Contents, c) \in StoredMap
             /\ Database!Apply(synced, Append(log, c)) = Over(Database!Contents, c)
  <2>1. PICK now \in StoredMap : now = Database!Contents
      BY <1>4
  <2>2. Database!Apply(now, <<c>>) = Over(now, c)
      BY ApplyOne
  <2>3. Database!Apply(synced, Append(log, c)) = Over(now, c)
      BY <1>1, <2>1, ApplyMore DEF Database!Contents
  <2> QED BY <2>1, <2>2, <2>3, OverKept
<1> QED BY <1>4, <1>5, <1>6

\* With nothing in the log there is but one content.
LEMMA NothingLogged ==
    ASSUME synced' \in StoredMap, log' = <<>>, synced' \in possible'
    PROVE  DatabaseInv'
<1>1. log' \in Seq(WrittenMap) /\ Len(log') = 0
    OBVIOUS
<1>2. SubSeq(log', 1, 0) = <<>>
    BY <1>1
<1>3. Database!Apply(synced', <<>>) = synced'
    BY ApplyNone
<1>4. \A n \in 0..Len(log') : n = 0
    BY <1>1
<1> QED BY <1>1, <1>2, <1>3, <1>4 DEF DatabaseInv

\* Another batch in the log.
LEMMA OneLogged ==
    ASSUME DatabaseInv, NEW b \in WrittenMap, synced' = synced, log' = Append(log, b),
           possible \subseteq possible', Over(Database!Contents, b) \in possible'
    PROVE  DatabaseInv'
<1>1. synced \in StoredMap /\ log \in Seq(WrittenMap)
    BY DEF DatabaseInv
<1>2. log' \in Seq(WrittenMap)
    BY <1>1
<1>3. Database!Apply(synced, log') \in possible'
    BY ContentsPossible
<1>4. ASSUME NEW n \in 0..Len(log')
      PROVE  Database!Apply(synced', SubSeq(log', 1, n)) \in possible'
  <2>1. \/ n \in 0..Len(log) /\ SubSeq(log', 1, n) = SubSeq(log, 1, n)
        \/ SubSeq(log', 1, n) = log'
      BY <1>1, LogParts
  <2>2. n \in 0..Len(log) => Database!Apply(synced, SubSeq(log, 1, n)) \in possible
      BY DEF DatabaseInv
  <2> QED BY <1>3, <2>1, <2>2
<1> QED BY <1>1, <1>2, <1>4 DEF DatabaseInv

\* A write that succeeds: what a caller may rely on is synced.
LEMMA CommitKeeps ==
    ASSUME DatabaseInv, NEW b \in WrittenMap, NEW sync \in BOOLEAN,
           sync \/ ~Database!Relied(b), Database!Commit(b, sync)
    PROVE  DatabaseInv'
<1>1. PICK result : result = Over(Database!Contents, b)
    OBVIOUS
<1>2. Database!Apply(Database!Contents, <<b>>) = result /\ result \in StoredMap
    BY <1>1, ContentsPossible
<1>3. /\ \/ sync /\ synced' = result /\ log' = <<>>
         \/ ~sync /\ log' = Append(log, b) /\ synced' = synced
      /\ possible' = (IF Database!Relied(b) THEN {} ELSE possible) \cup {result}
    BY <1>2 DEF Database!Commit
<1>4. CASE sync
    BY <1>2, <1>3, <1>4, NothingLogged
<1>5. CASE ~sync
  <2>1. /\ log' = Append(log, b) /\ synced' = synced /\ possible \subseteq possible'
        /\ Over(Database!Contents, b) \in possible'
      BY <1>1, <1>3, <1>5
  <2> QED BY <2>1, OneLogged
<1> QED BY <1>4, <1>5

\* A write that fails.
LEMMA FailureKeeps ==
    ASSUME DatabaseInv, NEW b \in WrittenMap, Database!CommitFails(b)
    PROVE  DatabaseInv'
<1>1. /\ possible' = possible \cup {Over(Database!Contents, b)}
      /\ log' = log \/ log' = Append(log, b)
      /\ synced' = synced
  <2>1. Database!Apply(Database!Contents, <<b>>) = Over(Database!Contents, b)
      BY ContentsPossible
  <2> QED BY <2>1 DEF Database!CommitFails
<1>2. CASE log' = log
    BY <1>1, <1>2 DEF DatabaseInv
<1>3. CASE log' = Append(log, b)
  <2>1. possible \subseteq possible' /\ Over(Database!Contents, b) \in possible'
      BY <1>1
  <2> QED BY <1>1, <1>3, <2>1, OneLogged
<1> QED BY <1>1, <1>2, <1>3

\* The batches the four classes write.
LEMMA Batches ==
    /\ \A k \in WrittenKey, v \in StoredValue : Database!Put(k, v) \in WrittenMap
    /\ \A keys \in SUBSET WrittenKey : Database!Deletes(keys) \in WrittenMap
    /\ \A keys \in SUBSET WrittenKey : Database!Puts(keys) \subseteq WrittenMap
<1>1. ASSUME NEW keys \in SUBSET WrittenKey, NEW b \in [keys -> StoredValue]
      PROVE  b \in WrittenMap
    BY DEF WrittenMap
<1>2. ASSUME NEW k \in WrittenKey, NEW v \in StoredValue PROVE Database!Put(k, v) \in WrittenMap
  <2>1. {k} \in SUBSET WrittenKey /\ Database!Put(k, v) \in [{k} -> StoredValue]
      BY DEF Database!Put
  <2> QED BY <2>1, <1>1
<1>3. ASSUME NEW keys \in SUBSET WrittenKey PROVE Database!Deletes(keys) \in WrittenMap
  <2>1. Database!Deletes(keys) \in [keys -> StoredValue]
      BY DEF Database!Deletes, StoredValue
  <2> QED BY <2>1, <1>1
<1>4. ASSUME NEW keys \in SUBSET WrittenKey, NEW b \in Database!Puts(keys) PROVE b \in WrittenMap
  <2>1. b \in [keys -> StoredValue]
      BY <1>4 DEF Database!Puts, StoredValue
  <2> QED BY <2>1, <1>1
<1> QED BY <1>2, <1>3, <1>4

\* A call of one of the classes.
LEMMA CallKeeps ==
    ASSUME DatabaseInv, NEW class, NEW b \in WrittenMap, NEW sync \in BOOLEAN,
           sync \/ class = "BlockDB" \/ MetricsKey \in DOMAIN b, Database!Call(class, b, sync)
    PROVE  DatabaseInv'
<1>1. sync \/ ~Database!Relied(b)
    BY DEF Database!Relied, Database!Call
<1>2. Database!Commit(b, sync) \/ Database!CommitFails(b)
    BY DEF Database!Call
<1> QED BY <1>1, <1>2, CommitKeeps, FailureKeeps

\* Every step of a database keeps what was acknowledged.
LEMMA DatabaseKept ==
    /\ Database!Init => DatabaseInv
    /\ DatabaseInv /\ [Database!Next]_(Database!databaseVars) => DatabaseInv'
<1>1. Database!Init => DatabaseInv
  <2> SUFFICES ASSUME Database!Init PROVE DatabaseInv
      OBVIOUS
  <2>1. synced \in StoredMap /\ log = <<>> /\ synced \in possible
      BY DEF Database!Init, Database!Empty, StoredMap, StoredValue
  <2>2. log \in Seq(WrittenMap) /\ Len(log) = 0 /\ SubSeq(log, 1, 0) = <<>>
      BY <2>1
  <2>3. Database!Apply(synced, <<>>) = synced
      BY <2>1, ApplyNone
  <2>4. \A n \in 0..Len(log) : n = 0
      BY <2>2
  <2> QED BY <2>1, <2>2, <2>3, <2>4 DEF DatabaseInv
<1>2. DatabaseInv /\ [Database!Next]_(Database!databaseVars) => DatabaseInv'
  <2> SUFFICES ASSUME DatabaseInv, [Database!Next]_(Database!databaseVars) PROVE DatabaseInv'
      OBVIOUS
  <2>1. /\ {HealthKey, BanKey, MetricsKey} \subseteq WrittenKey /\ Ok \in StoredValue
        /\ Database!Record \subseteq WrittenKey /\ DatabaseValue \subseteq StoredValue
        /\ Database!PeerKey \subseteq Database!Record
        /\ SUBSET Database!Record \subseteq SUBSET WrittenKey
      BY DEF WrittenKey, StoredValue, Database!Record, Database!PeerKey
  <2>2. \A k \in Database!Record, v \in DatabaseValue : Database!Put(k, v) \in WrittenMap
      BY <2>1, Batches
  <2>3. \A k \in Database!Record : Database!Deletes({k}) \in WrittenMap
    <3>1. \A k \in Database!Record : {k} \in SUBSET WrittenKey
        BY <2>1
    <3> QED BY <3>1, Batches
  <2>4. \A keys \in SUBSET Database!Record : /\ Database!Deletes(keys) \in WrittenMap
                                             /\ Database!Puts(keys) \subseteq WrittenMap
      BY <2>1, Batches
  <2>5. Database!Put(HealthKey, Ok) \in WrittenMap
      BY <2>1, Batches
  <2>6. \A v \in DatabaseValue : /\ Database!Put(BanKey, v) \in WrittenMap
                                 /\ Database!Put(MetricsKey, v) \in WrittenMap
                                 /\ MetricsKey \in DOMAIN Database!Put(MetricsKey, v)
      BY <2>1, Batches DEF Database!Put
  <2>7. Database!Deletes({BanKey}) \in WrittenMap
    <3>1. {BanKey} \in SUBSET WrittenKey
        BY <2>1
    <3> QED BY <3>1, Batches
  <2>8. ASSUME Database!AccountOpen \/ Database!AccountPut \/ Database!AccountDel
               \/ Database!AccountWriteBatch \/ Database!AccountDeleteBatch
        PROVE  DatabaseInv'
    <3>1. CASE Database!AccountOpen
      <4>1. \/ Database!Commit(Database!Put(HealthKey, Ok), TRUE)
            \/ Database!CommitFails(Database!Put(HealthKey, Ok))
          BY <3>1 DEF Database!AccountOpen
      <4> QED BY <2>5, <4>1, CommitKeeps, FailureKeeps
    <3>2. CASE Database!AccountPut
        BY <2>2, <3>2, CallKeeps DEF Database!AccountPut
    <3>3. CASE Database!AccountDel
        BY <2>3, <3>3, CallKeeps DEF Database!AccountDel
    <3>4. CASE Database!AccountWriteBatch
        BY <2>4, <3>4, CallKeeps DEF Database!AccountWriteBatch
    <3>5. CASE Database!AccountDeleteBatch
        BY <2>4, <3>5, CallKeeps DEF Database!AccountDeleteBatch
    <3> QED BY <2>8, <3>1, <3>2, <3>3, <3>4, <3>5
  <2>9. ASSUME Database!IsHealthy \/ Database!WrapperPut \/ Database!WrapperDel
               \/ Database!BatchPut \/ Database!BatchDelete
        PROVE  DatabaseInv'
    <3>1. CASE Database!IsHealthy
        BY <2>5, <3>1, CallKeeps DEF Database!IsHealthy
    <3>2. CASE Database!WrapperPut
        BY <2>2, <3>2, CallKeeps DEF Database!WrapperPut
    <3>3. CASE Database!WrapperDel
        BY <2>3, <3>3, CallKeeps DEF Database!WrapperDel
    <3>4. CASE Database!BatchPut
        BY <2>4, <3>4, CallKeeps DEF Database!BatchPut
    <3>5. CASE Database!BatchDelete
        BY <2>4, <3>5, CallKeeps DEF Database!BatchDelete
    <3> QED BY <2>9, <3>1, <3>2, <3>3, <3>4, <3>5
  <2>10. ASSUME Database!SavePeer \/ Database!DeletePeer \/ Database!SaveBan
                \/ Database!ClearBan \/ Database!SaveMetrics
         PROVE  DatabaseInv'
    <3>1. CASE Database!SavePeer
        BY <2>1, <2>2, <3>1, CallKeeps DEF Database!SavePeer
    <3>2. CASE Database!DeletePeer
        BY <2>1, <2>3, <3>2, CallKeeps DEF Database!DeletePeer
    <3>3. CASE Database!SaveBan
        BY <2>6, <3>3, CallKeeps DEF Database!SaveBan
    <3>4. CASE Database!ClearBan
        BY <2>7, <3>4, CallKeeps DEF Database!ClearBan
    <3>5. CASE Database!SaveMetrics
        BY <2>6, <3>5, CallKeeps DEF Database!SaveMetrics
    <3> QED BY <2>10, <3>1, <3>2, <3>3, <3>4, <3>5
  <2>11. ASSUME Database!WriteBlock \/ Database!WriteBatch PROVE DatabaseInv'
    <3>1. CASE Database!WriteBlock
        BY <2>2, <3>1, CallKeeps DEF Database!WriteBlock
    <3>2. CASE Database!WriteBatch
        BY <2>4, <3>2, CallKeeps DEF Database!WriteBatch
    <3> QED BY <2>11, <3>1, <3>2
  <2>12. ASSUME Database!WrapperClose \/ Database!PeerStoreClose PROVE DatabaseInv'
    <3>1. Database!Flushed
        BY <2>12 DEF Database!WrapperClose, Database!PeerStoreClose
    <3>2. CASE synced' = Database!Contents /\ log' = <<>> /\ possible' = {Database!Contents}
        BY <3>2, ContentsPossible, NothingLogged
    <3>3. CASE UNCHANGED <<synced, log, possible>>
        BY <3>3 DEF DatabaseInv
    <3> QED BY <3>1, <3>2, <3>3 DEF Database!Flushed
  <2>13. CASE Database!PowerFails
    <3>1. PICK n \in 0..Len(log) : synced' = Database!Apply(synced, SubSeq(log, 1, n))
        BY <2>13 DEF Database!PowerFails
    <3>2. log' = <<>> /\ possible' = possible
        BY <2>13 DEF Database!PowerFails
    <3>3. synced' \in possible
        BY <3>1 DEF DatabaseInv
    <3>4. synced \in StoredMap /\ log \in Seq(WrittenMap)
        BY DEF DatabaseInv
    <3>5. SubSeq(log, 1, n) \in Seq(WrittenMap)
        BY <3>4, CutAndJoin
    <3>6. PICK b \in WrittenMap : TRUE
        BY <2>5
    <3>7. synced' \in StoredMap
        BY <3>1, <3>4, <3>5, <3>6, ApplyMore
    <3> QED BY <3>2, <3>3, <3>7, NothingLogged
  <2>14. ASSUME UNCHANGED <<synced, log, possible>> PROVE DatabaseInv'
      BY <2>14 DEF DatabaseInv
  <2>15. CASE \/ Database!AccountClose \/ Database!WrapperOpen \/ Database!PeerStoreOpen
              \/ Database!BlockOpen \/ Database!BlockClose \/ Database!ProcessDies
              \/ UNCHANGED Database!databaseVars
      BY <2>14, <2>15 DEF Database!AccountClose, Database!WrapperOpen, Database!PeerStoreOpen,
             Database!BlockOpen, Database!BlockClose, Database!ProcessDies, Database!databaseVars
  <2> QED BY <2>8, <2>9, <2>10, <2>11, <2>12, <2>13, <2>15 DEF Database!Next
<1> QED BY <1>1, <1>2

\* The inductive invariant of the four database classes: whatever part of the
\* log a power failure leaves over the synced records, callers may read it.
THEOREM DatabaseInvariant == StateSpec => [](unit = "database" => DatabaseInv)
<1> DEFINE Inv == unit = "database" => DatabaseInv
<1>1. StateInit => Inv
    BY DatabaseKept DEF StateInit, ChainInit, MempoolInit, PersistInit, DatabaseInit
<1>2. Inv /\ [StateNext]_<<unit, otherVars, stateVars>> => Inv'
  <2> SUFFICES ASSUME Inv, [StateNext]_<<unit, otherVars, stateVars>>, unit' = "database"
               PROVE  DatabaseInv'
      OBVIOUS
  <2>1. unit = "database" /\ [Database!Next]_(Database!databaseVars)
      BY DEF StateNext, ChainNext, MempoolNext, PersistNext, DatabaseNext, stateVars, logVars,
             Database!databaseVars
  <2> QED BY <2>1, DatabaseKept
<1> QED
    BY <1>1, <1>2, PTL DEF StateSpec

\* For any keys, values and sequence of writes, closings, crashes and failures,
\* what a database acknowledged and callers may rely on is read again.
THEOREM AcknowledgedAlwaysKept == StateSpec => []AcknowledgedKept
<1>1. (unit = "database" => DatabaseInv) => AcknowledgedKept
    BY ContentsPossible DEF AcknowledgedKept, Database!AcknowledgedKept
<1> QED
    BY <1>1, DatabaseInvariant, PTL

-----------------------------------------------------------------------------
(* The pool of transactions: MedorMempool                                  *)

PoolStep == {"lock", "check", "recheck", "promote", "return", "erase", "subtract"}
Frame == [at : PoolStep, tx : Tx]

\* Of a thread's calls only the innermost may have an entry's bytes left to
\* subtract.
StackOK(s) == s \in Seq(Frame) /\ \A i \in DOMAIN s : i # 1 => s[i].at # "subtract"
TopAt(s, at) == s # <<>> /\ Head(s).at = at

Subtracting == {t \in NodeThread : TopAt(stack[t], "subtract")}

PoolTypeOK ==
    /\ entries \in SUBSET Tx /\ IsFiniteSet(entries)
    /\ orphans \in SUBSET Tx /\ IsFiniteSet(orphans)
    /\ DOMAIN stack = NodeThread /\ \A t \in NodeThread : StackOK(stack[t])
    /\ IsFiniteSet(Subtracting)

\* The outputs held to be spent are those of the entries, no two of which
\* spend one.
OutputsHeld ==
    /\ spentOutpoints = Mempool!InputsOfAll(entries)
    /\ \A x, y \in entries : x # y => InputsOf[x] \cap InputsOf[y] = {}

\* The bytes counted are those of the entries and of those just erased.
BytesCounted ==
    /\ totalBytes = Cardinality(entries) + Cardinality(Subtracting)
    /\ totalBytes <= MaxBytes /\ Cardinality(entries) <= MaxTx

PoolInv == PoolTypeOK /\ OutputsHeld /\ BytesCounted

LEMMA PoolCardinality == \A S : Mempool!Cardinality(S) = Cardinality(S)
    BY DEF Mempool!Cardinality, Cardinality

\* What a thread's calls become when the innermost moves on or returns.
LEMMA TopMoves ==
    ASSUME NEW s, StackOK(s), s # <<>>, NEW at \in PoolStep
    PROVE  /\ StackOK(<<[Head(s) EXCEPT !.at = at]>> \o Tail(s))
           /\ TopAt(<<[Head(s) EXCEPT !.at = at]>> \o Tail(s), "subtract") = (at = "subtract")
           /\ StackOK(Tail(s)) /\ ~TopAt(Tail(s), "subtract")
           /\ Head(s).tx \in Tx /\ Tail(s) \in Seq(Frame)
           /\ \A i \in DOMAIN Tail(s) : Tail(s)[i].at # "subtract"
<1>1. PICK n \in Nat : Len(s) = n + 1 /\ s \in Seq(Frame)
  <2>1. s \in Seq(Frame) /\ Len(s) \in Nat /\ Len(s) # 0
      BY DEF StackOK
  <2>2. Len(s) - 1 \in Nat /\ Len(s) = (Len(s) - 1) + 1
      BY <2>1
  <2> QED BY <2>1, <2>2
<1>2. PICK top : top = Head(s)
    OBVIOUS
<1>3. top \in Frame /\ top = s[1]
    BY <1>1, <1>2
<1>4. PICK rest : rest = Tail(s)
    OBVIOUS
<1>5. /\ rest \in Seq(Frame) /\ Len(rest) = n /\ DOMAIN rest = 1..n
      /\ \A i \in 1..n : rest[i] = s[i + 1]
    BY <1>1, <1>4
<1>6. \A i \in 1..n : rest[i].at # "subtract"
  <2>1. \A i \in 1..n : i + 1 \in DOMAIN s /\ i + 1 # 1
      BY <1>1
  <2> QED BY <1>5, <2>1 DEF StackOK
<1>7. StackOK(rest)
    BY <1>5, <1>6 DEF StackOK
<1>8. ~TopAt(rest, "subtract")
  <2>1. rest # <<>> => 1 \in 1..n /\ Head(rest) = rest[1]
      BY <1>5
  <2> QED BY <1>6, <2>1 DEF TopAt
<1>9. PICK moved : moved = [top EXCEPT !.at = at]
    OBVIOUS
<1>10. moved \in Frame /\ moved.at = at /\ top.tx \in Tx
    BY <1>3, <1>9 DEF Frame
<1>11. PICK new : new = <<moved>> \o rest
    OBVIOUS
<1>12. /\ new \in Seq(Frame) /\ DOMAIN new = 1..(n + 1) /\ new[1] = moved
       /\ \A i \in 1..n : new[i + 1] = rest[i]
    BY <1>5, <1>10, <1>11
<1>13. StackOK(new)
  <2> SUFFICES ASSUME NEW i \in 1..(n + 1), i # 1 PROVE new[i].at # "subtract"
      BY <1>12 DEF StackOK
  <2>1. i - 1 \in 1..n /\ (i - 1) + 1 = i
      OBVIOUS
  <2> QED BY <1>6, <1>12, <2>1
<1>14. TopAt(new, "subtract") = (at = "subtract")
  <2>1. new # <<>> /\ Head(new) = new[1]
      BY <1>12
  <2> QED BY <1>10, <1>12, <2>1 DEF TopAt
<1> QED BY <1>2, <1>4, <1>5, <1>6, <1>7, <1>8, <1>9, <1>10, <1>11, <1>13, <1>14

\* Calls of one kind before what is left of the others.
LEMMA CallsPushed ==
    ASSUME NEW n \in Nat, NEW front, DOMAIN front = 1..n,
           \A i \in 1..n : front[i] \in Frame /\ front[i].at # "subtract",
           front = [i \in 1..n |-> front[i]],
           NEW rest \in Seq(Frame), \A i \in DOMAIN rest : rest[i].at # "subtract"
    PROVE  StackOK(front \o rest) /\ ~TopAt(front \o rest, "subtract")
<1>1. front \in Seq(Frame) /\ Len(front) = n
    OBVIOUS
<1>2. PICK m \in Nat : m = Len(rest) /\ DOMAIN rest = 1..m
    OBVIOUS
<1>3. PICK s : s = front \o rest
    OBVIOUS
<1>4. /\ s \in Seq(Frame) /\ DOMAIN s = 1..(n + m)
      /\ \A i \in 1..n : s[i] = front[i]
      /\ \A i \in 1..m : s[n + i] = rest[i]
    BY <1>1, <1>2, <1>3, Joined
<1>5. \A i \in 1..(n + m) : s[i].at # "subtract"
  <2> SUFFICES ASSUME NEW i \in 1..(n + m) PROVE s[i].at # "subtract"
      OBVIOUS
  <2>1. CASE i \in 1..n
      BY <1>4, <2>1
  <2>2. CASE i \notin 1..n
    <3>1. i - n \in 1..m /\ n + (i - n) = i
        BY <1>2, <2>2
    <3> QED BY <1>2, <1>4, <3>1
  <2> QED BY <2>1, <2>2
<1>6. ~TopAt(s, "subtract")
  <2>1. s # <<>> => 1 \in 1..(n + m) /\ Head(s) = s[1]
      BY <1>4
  <2> QED BY <1>5, <2>1 DEF TopAt
<1> QED BY <1>3, <1>4, <1>5, <1>6 DEF StackOK

\* One thread's calls change: who is left to subtract.
LEMMA OneStack ==
    ASSUME PoolTypeOK, NEW t \in NodeThread, NEW new, StackOK(new),
           stack' = [stack EXCEPT ![t] = new]
    PROVE  /\ DOMAIN stack' = NodeThread /\ \A o \in NodeThread : StackOK(stack'[o])
           /\ IsFiniteSet(Subtracting')
           /\ TopAt(new, "subtract") => Subtracting' = Subtracting \cup {t}
           /\ ~TopAt(new, "subtract") => Subtracting' = Subtracting \ {t}
<1>1. /\ DOMAIN stack = NodeThread /\ IsFiniteSet(Subtracting)
      /\ \A o \in NodeThread : StackOK(stack[o])
    BY DEF PoolTypeOK
<1>2. stack'[t] = new /\ \A o \in NodeThread \ {t} : stack'[o] = stack[o]
    BY <1>1
<1>3. DOMAIN stack' = NodeThread
    BY <1>1
<1>4. \A o \in NodeThread : StackOK(stack'[o])
    BY <1>1, <1>2
<1>5. TopAt(new, "subtract") => Subtracting' = Subtracting \cup {t}
    BY <1>2 DEF Subtracting
<1>6. ~TopAt(new, "subtract") => Subtracting' = Subtracting \ {t}
    BY <1>2 DEF Subtracting
<1>7. IsFiniteSet(Subtracting \cup {t}) /\ IsFiniteSet(Subtracting \ {t})
    BY <1>1, FS_AddElement, FS_RemoveElement
<1> QED BY <1>3, <1>4, <1>5, <1>6, <1>7

\* A step that leaves the entries alone, of a thread with nothing to subtract.
LEMMA StackMoves ==
    ASSUME PoolInv, NEW t \in NodeThread, NEW new, StackOK(new), ~TopAt(new, "subtract"),
           ~TopAt(stack[t], "subtract"), stack' = [stack EXCEPT ![t] = new],
           UNCHANGED <<entries, spentOutpoints, totalBytes>>,
           orphans' \in SUBSET Tx, IsFiniteSet(orphans')
    PROVE  PoolInv'
<1>1. Subtracting' = Subtracting
  <2>1. Subtracting' = Subtracting \ {t}
      BY OneStack DEF PoolInv
  <2> QED BY <2>1 DEF Subtracting
<1>2. DOMAIN stack' = NodeThread /\ \A o \in NodeThread : StackOK(stack'[o])
    BY OneStack DEF PoolInv
<1>3. PoolTypeOK'
    BY <1>1, <1>2 DEF PoolInv, PoolTypeOK
<1>4. OutputsHeld'
    BY DEF PoolInv, OutputsHeld, Mempool!InputsOfAll
<1>5. BytesCounted'
    BY <1>1 DEF PoolInv, BytesCounted
<1> QED BY <1>3, <1>4, <1>5 DEF PoolInv

\* An entry is added: none of its inputs is spent, and there is room.
LEMMA EntryAdded ==
    ASSUME PoolInv, NEW t \in NodeThread, NEW new, StackOK(new), ~TopAt(new, "subtract"),
           ~TopAt(stack[t], "subtract"), stack' = [stack EXCEPT ![t] = new],
           NEW tx \in Tx, tx \notin entries, ~Mempool!DoubleSpend(tx), ~Mempool!Full,
           Mempool!Insert(tx), UNCHANGED orphans
    PROVE  PoolInv'
<1>1. Subtracting' = Subtracting
  <2>1. Subtracting' = Subtracting \ {t}
      BY OneStack DEF PoolInv
  <2> QED BY <2>1 DEF Subtracting
<1>2. DOMAIN stack' = NodeThread /\ \A o \in NodeThread : StackOK(stack'[o])
    BY OneStack DEF PoolInv
<1>3. /\ entries' = entries \cup {tx} /\ totalBytes' = totalBytes + 1
      /\ spentOutpoints' = spentOutpoints \cup InputsOf[tx]
    BY DEF Mempool!Insert
<1>4. IsFiniteSet(entries') /\ Cardinality(entries') = Cardinality(entries) + 1
      /\ Cardinality(entries) \in Nat
    BY <1>3, FS_AddElement, FS_CardinalityType DEF PoolInv, PoolTypeOK
<1>5. PoolTypeOK'
    BY <1>1, <1>2, <1>3, <1>4 DEF PoolInv, PoolTypeOK
<1>6. OutputsHeld'
  <2>1. Mempool!InputsOfAll(entries') = Mempool!InputsOfAll(entries) \cup InputsOf[tx]
      BY <1>3 DEF Mempool!InputsOfAll
  <2>2. \A x \in entries : InputsOf[x] \cap InputsOf[tx] = {}
      BY DEF PoolInv, OutputsHeld, Mempool!InputsOfAll, Mempool!DoubleSpend
  <2> QED BY <1>3, <2>1, <2>2 DEF PoolInv, OutputsHeld
<1>7. BytesCounted'
  <2>1. Cardinality(Subtracting) \in Nat
      BY FS_CardinalityType DEF PoolInv, PoolTypeOK
  <2>2. ~(Cardinality(entries) >= MaxTx) /\ ~(totalBytes + 1 > MaxBytes)
      BY PoolCardinality DEF Mempool!Full
  <2>3. totalBytes = Cardinality(entries) + Cardinality(Subtracting)
      BY DEF PoolInv, BytesCounted
  <2>4. totalBytes' = Cardinality(entries') + Cardinality(Subtracting')
      BY <1>1, <1>3, <1>4, <2>1, <2>3
  <2>5. totalBytes' <= MaxBytes /\ Cardinality(entries') <= MaxTx
      BY <1>3, <1>4, <2>1, <2>2, <2>3, MempoolAssumption
  <2> QED BY <2>4, <2>5 DEF BytesCounted
<1> QED BY <1>5, <1>6, <1>7 DEF PoolInv

\* A thread's innermost call moves on.
LEMMA CallGoes ==
    ASSUME PoolTypeOK, NEW t \in NodeThread, stack[t] # <<>>, NEW at \in PoolStep,
           Mempool!Goto(t, at)
    PROVE  \E new : /\ StackOK(new) /\ TopAt(new, "subtract") = (at = "subtract")
                    /\ stack' = [stack EXCEPT ![t] = new]
<1>1. PICK s : s = stack[t]
    OBVIOUS
<1>2. StackOK(s) /\ s # <<>>
    BY <1>1 DEF PoolTypeOK
<1>3. PICK new : new = <<[Head(s) EXCEPT !.at = at]>> \o Tail(s)
    OBVIOUS
<1>4. StackOK(new) /\ TopAt(new, "subtract") = (at = "subtract")
    BY <1>2, <1>3, TopMoves
<1>5. stack' = [stack EXCEPT ![t] = new]
    BY <1>1, <1>3 DEF Mempool!Goto, Mempool!Top
<1> QED BY <1>4, <1>5

\* It returns.
LEMMA CallReturns ==
    ASSUME PoolTypeOK, NEW t \in NodeThread, stack[t] # <<>>,
           stack' = [stack EXCEPT ![t] = Tail(@)]
    PROVE  \E new : /\ StackOK(new) /\ ~TopAt(new, "subtract")
                    /\ stack' = [stack EXCEPT ![t] = new]
<1>1. PICK s : s = stack[t]
    OBVIOUS
<1>2. StackOK(s) /\ s # <<>>
    BY <1>1 DEF PoolTypeOK
<1>3. "lock" \in PoolStep
    BY DEF PoolStep
<1>4. StackOK(Tail(s)) /\ ~TopAt(Tail(s), "subtract")
    BY <1>2, <1>3, TopMoves
<1>5. stack' = [stack EXCEPT ![t] = Tail(s)]
    BY <1>1
<1> QED BY <1>4, <1>5

\* Where a thread is, it is with a transaction, and only there.
LEMMA WhereAt ==
    ASSUME PoolTypeOK, NEW t \in NodeThread, NEW at, Mempool!At(t, at)
    PROVE  /\ stack[t] # <<>> /\ TopAt(stack[t], at) /\ Mempool!Top(t).tx \in Tx
           /\ at # "subtract" => ~TopAt(stack[t], "subtract")
<1>1. StackOK(stack[t]) /\ stack[t] # <<>> /\ "lock" \in PoolStep
    BY DEF PoolTypeOK, Mempool!At, PoolStep
<1>2. Head(stack[t]).tx \in Tx
    BY <1>1, TopMoves
<1> QED BY <1>1, <1>2 DEF Mempool!At, Mempool!Top, TopAt

\* removeTransaction erases an entry, and counts its bytes off later.
LEMMA EntryErased ==
    ASSUME PoolInv, NEW t \in NodeThread, NEW new, StackOK(new), TopAt(new, "subtract"),
           ~TopAt(stack[t], "subtract"), stack' = [stack EXCEPT ![t] = new],
           NEW tx \in entries, entries' = entries \ {tx},
           spentOutpoints' = spentOutpoints \ InputsOf[tx], UNCHANGED <<orphans, totalBytes>>
    PROVE  PoolInv'
<1>1. Subtracting' = Subtracting \cup {t} /\ t \notin Subtracting
  <2>1. Subtracting' = Subtracting \cup {t}
      BY OneStack DEF PoolInv
  <2> QED BY <2>1 DEF Subtracting
<1>2. /\ DOMAIN stack' = NodeThread /\ \A o \in NodeThread : StackOK(stack'[o])
      /\ IsFiniteSet(Subtracting')
    BY OneStack DEF PoolInv
<1>3. /\ IsFiniteSet(entries') /\ Cardinality(entries') = Cardinality(entries) - 1
      /\ Cardinality(entries) \in Nat
    BY FS_RemoveElement, FS_CardinalityType DEF PoolInv, PoolTypeOK
<1>4. /\ Cardinality(Subtracting') = Cardinality(Subtracting) + 1
      /\ Cardinality(Subtracting) \in Nat
    BY <1>1, FS_AddElement, FS_CardinalityType DEF PoolInv, PoolTypeOK
<1>5. PoolTypeOK'
    BY <1>2, <1>3 DEF PoolInv, PoolTypeOK
<1>6. OutputsHeld'
  <2>1. \A x \in entries : x # tx => InputsOf[x] \cap InputsOf[tx] = {}
      BY DEF PoolInv, OutputsHeld
  <2>2. Mempool!InputsOfAll(entries') = Mempool!InputsOfAll(entries) \ InputsOf[tx]
      BY <2>1 DEF Mempool!InputsOfAll
  <2> QED BY <2>2 DEF PoolInv, OutputsHeld
<1>7. BytesCounted'
    BY <1>3, <1>4, MempoolAssumption DEF PoolInv, BytesCounted
<1> QED BY <1>5, <1>6, <1>7 DEF PoolInv

LEMMA BytesSubtracted ==
    ASSUME PoolInv, NEW t \in NodeThread, NEW new, StackOK(new), ~TopAt(new, "subtract"),
           TopAt(stack[t], "subtract"), stack' = [stack EXCEPT ![t] = new],
           totalBytes' = totalBytes - 1, UNCHANGED <<entries, orphans, spentOutpoints>>
    PROVE  PoolInv'
<1>1. Subtracting' = Subtracting \ {t} /\ t \in Subtracting
  <2>1. Subtracting' = Subtracting \ {t}
      BY OneStack DEF PoolInv
  <2> QED BY <2>1 DEF Subtracting
<1>2. /\ DOMAIN stack' = NodeThread /\ \A o \in NodeThread : StackOK(stack'[o])
      /\ IsFiniteSet(Subtracting')
    BY OneStack DEF PoolInv
<1>3. /\ Cardinality(Subtracting') = Cardinality(Subtracting) - 1
      /\ Cardinality(Subtracting) \in Nat /\ Cardinality(entries) \in Nat
    BY <1>1, FS_RemoveElement, FS_CardinalityType DEF PoolInv, PoolTypeOK
<1>4. PoolTypeOK'
    BY <1>2 DEF PoolInv, PoolTypeOK
<1>5. OutputsHeld'
    BY DEF PoolInv, OutputsHeld, Mempool!InputsOfAll
<1>6. BytesCounted'
    BY <1>3, MempoolAssumption DEF PoolInv, BytesCounted
<1> QED BY <1>4, <1>5, <1>6 DEF PoolInv

\* An order of n transactions, as the calls to be made for them.
LEMMA CallsInOrder ==
    ASSUME NEW n \in Nat, NEW S \in SUBSET Tx, NEW order \in [1..n -> S], NEW at \in PoolStep,
           at # "subtract", NEW front, front = [i \in DOMAIN order |-> [at |-> at, tx |-> order[i]]],
           NEW rest \in Seq(Frame), \A i \in DOMAIN rest : rest[i].at # "subtract"
    PROVE  StackOK(front \o rest) /\ ~TopAt(front \o rest, "subtract")
<1>1. DOMAIN front = 1..n /\ front = [i \in 1..n |-> front[i]]
    OBVIOUS
<1>2. \A i \in 1..n : front[i] \in Frame /\ front[i].at # "subtract"
    BY DEF Frame
<1> QED BY <1>1, <1>2, CallsPushed

\* promoteOrphans, on the lists of calls.
LEMMA OrphansPushed ==
    ASSUME NEW s, StackOK(s), s # <<>>, NEW n \in Nat, NEW S \in SUBSET Tx,
           NEW order \in [1..n -> S], NEW tx \in Tx, NEW new,
           new = [i \in DOMAIN order |-> Mempool!Adding(order[i])]
                     \o <<[at |-> "return", tx |-> tx]>> \o Tail(s)
    PROVE  StackOK(new) /\ ~TopAt(new, "subtract")
<1>1. PICK front : front = [i \in DOMAIN order |-> [at |-> "lock", tx |-> order[i]]]
    OBVIOUS
<1>2. PICK own : own = <<[at |-> "return", tx |-> tx]>>
    OBVIOUS
<1>3. PICK below : below = Tail(s)
    OBVIOUS
<1>4. below \in Seq(Frame) /\ \A i \in DOMAIN below : below[i].at # "subtract"
  <2>1. "lock" \in PoolStep
      BY DEF PoolStep
  <2> QED BY <1>3, <2>1, TopMoves
<1>5. "lock" \in PoolStep /\ "return" \in PoolStep /\ "lock" # "subtract"
    BY DEF PoolStep
<1>6. own \in Seq(Frame) /\ Len(own) = 1 /\ own[1].at # "subtract"
    BY <1>2, <1>5 DEF Frame
<1>7. PICK rest : rest = own \o below
    OBVIOUS
<1>8. rest \in Seq(Frame) /\ \A i \in DOMAIN rest : rest[i].at # "subtract"
  <2>1. PICK m \in Nat : m = Len(below)
      BY <1>4
  <2>2. /\ rest \in Seq(Frame) /\ DOMAIN rest = 1..(m + 1) /\ rest[1] = own[1]
        /\ \A i \in 1..m : rest[i + 1] = below[i]
      BY <1>2, <1>4, <1>6, <1>7, <2>1
  <2>3. ASSUME NEW i \in 1..(m + 1), i # 1 PROVE rest[i].at # "subtract"
    <3>1. i - 1 \in 1..m /\ (i - 1) + 1 = i
        BY <2>3
    <3>2. rest[i] = below[i - 1]
        BY <2>2, <3>1
    <3>3. i - 1 \in DOMAIN below
        BY <1>4, <2>1, <3>1
    <3> QED BY <1>4, <3>2, <3>3
  <2> QED BY <1>6, <2>2, <2>3
<1>9. StackOK(front \o rest) /\ ~TopAt(front \o rest, "subtract")
    BY <1>1, <1>5, <1>8, CallsInOrder
<1>10. new = front \o rest
  <2>1. new = (front \o own) \o below
      BY <1>1, <1>2, <1>3 DEF Mempool!Adding
  <2>2. front \in Seq(Frame)
      BY <1>1, <1>5 DEF Frame
  <2>3. (front \o own) \o below = front \o (own \o below)
    <3>1. front \in Seq(Frame) /\ own \in Seq(Frame) /\ below \in Seq(Frame)
        BY <1>4, <1>6, <2>2
    <3> HIDE DEF Frame
    <3> QED BY <3>1, ConcatAssociative
  <2> QED BY <1>7, <2>1, <2>3
<1> QED BY <1>9, <1>10

LEMMA OneCall ==
    ASSUME NEW f \in Frame, f.at # "subtract"
    PROVE  StackOK(<<f>>) /\ ~TopAt(<<f>>, "subtract")
    BY DEF StackOK, TopAt

\* Every step of the pool keeps its outputs and its bytes.
LEMMA PoolKept ==
    /\ Mempool!Init => PoolInv
    /\ PoolInv /\ [Mempool!Next]_(Mempool!mempoolVars) => PoolInv'
<1>1. Mempool!Init => PoolInv
  <2> SUFFICES ASSUME Mempool!Init PROVE PoolInv
      OBVIOUS
  <2> USE DEF Mempool!Init
  <2>1. \A t \in NodeThread : stack[t] = <<>>
      OBVIOUS
  <2>2. StackOK(<<>>) /\ ~TopAt(<<>>, "subtract")
      BY DEF StackOK, TopAt
  <2>3. Subtracting = {}
      BY <2>1, <2>2 DEF Subtracting
  <2>4. PoolTypeOK
      BY <2>1, <2>2, <2>3, FS_EmptySet DEF PoolTypeOK
  <2>5. OutputsHeld
      BY DEF OutputsHeld, Mempool!InputsOfAll
  <2>6. BytesCounted
    <3>1. Cardinality(entries) = 0 /\ Cardinality(Subtracting) = 0 /\ totalBytes = 0
        BY <2>3, FS_EmptySet
    <3> QED BY <3>1, MempoolAssumption DEF BytesCounted
  <2> QED BY <2>4, <2>5, <2>6 DEF PoolInv
<1>2. PoolInv /\ [Mempool!Next]_(Mempool!mempoolVars) => PoolInv'
  <2> SUFFICES ASSUME PoolInv, [Mempool!Next]_(Mempool!mempoolVars) PROVE PoolInv'
      OBVIOUS
  <2>0. /\ PoolTypeOK /\ entries \in SUBSET Tx /\ IsFiniteSet(entries)
        /\ orphans \in SUBSET Tx /\ IsFiniteSet(orphans)
        /\ {"lock", "check", "recheck", "promote", "return", "erase", "subtract"} \subseteq PoolStep
      BY DEF PoolInv, PoolTypeOK, PoolStep
  <2>1. ASSUME NEW t \in NodeThread, NEW tx \in Tx, Mempool!AddTransaction(t, tx) PROVE PoolInv'
    <3>1. PICK f : f = Mempool!Adding(tx)
        OBVIOUS
    <3>2. f \in Frame /\ f.at # "subtract"
        BY <2>0, <3>1 DEF Mempool!Adding, Frame
    <3>3. stack[t] = <<>> /\ stack' = [stack EXCEPT ![t] = <<f>>]
          /\ UNCHANGED <<entries, orphans, spentOutpoints, totalBytes>>
        BY <2>1, <3>1 DEF Mempool!AddTransaction
    <3>4. ~TopAt(stack[t], "subtract")
        BY <3>3 DEF TopAt
    <3> QED BY <2>0, <3>2, <3>3, <3>4, OneCall, StackMoves
  <2>2. ASSUME NEW t \in NodeThread, NEW txs \in SUBSET entries, Mempool!RemoveAll(t, txs)
        PROVE  PoolInv'
    <3>1. PICK n \in Nat : n = Cardinality(txs)
        BY <2>0, FS_Subset, FS_CardinalityType
    <3>2. PICK order \in [1..n -> txs] :
              stack' = [stack EXCEPT ![t] = [i \in DOMAIN order |-> Mempool!Removing(order[i])]]
        BY <2>2, <3>1, PoolCardinality DEF Mempool!RemoveAll
    <3>3. PICK front : front = [i \in DOMAIN order |-> [at |-> "erase", tx |-> order[i]]]
        OBVIOUS
    <3>4. PICK rest : rest = <<>>
        OBVIOUS
    <3>5. rest \in Seq(Frame) /\ \A i \in DOMAIN rest : rest[i].at # "subtract"
        BY <3>4
    <3>6. txs \in SUBSET Tx /\ "erase" \in PoolStep /\ "erase" # "subtract"
        BY <2>0
    <3>7. StackOK(front \o rest) /\ ~TopAt(front \o rest, "subtract")
        BY <3>3, <3>5, <3>6, CallsInOrder
    <3>8. front \o rest = front
      <4>1. front \in Seq(Frame)
          BY <3>3, <3>6 DEF Frame
      <4> QED BY <3>4, <4>1
    <3>9. stack' = [stack EXCEPT ![t] = front]
        BY <3>2, <3>3 DEF Mempool!Removing
    <3>10. ~TopAt(stack[t], "subtract") /\ UNCHANGED <<entries, orphans, spentOutpoints, totalBytes>>
        BY <2>2 DEF TopAt, Mempool!RemoveAll
    <3> QED BY <2>0, <3>7, <3>8, <3>9, <3>10, StackMoves
  <2>3. ASSUME NEW t \in NodeThread, Mempool!LockStripe(t) PROVE PoolInv'
    <3>1. Mempool!At(t, "lock") /\ Mempool!Goto(t, "check")
          /\ UNCHANGED <<entries, orphans, spentOutpoints, totalBytes>>
        BY <2>3 DEF Mempool!LockStripe
    <3>2. stack[t] # <<>> /\ ~TopAt(stack[t], "subtract")
        BY <2>0, <3>1, WhereAt
    <3>3. PICK new : /\ StackOK(new) /\ TopAt(new, "subtract") = ("check" = "subtract")
                     /\ stack' = [stack EXCEPT ![t] = new]
        BY <2>0, <3>1, <3>2, CallGoes
    <3> QED BY <2>0, <3>1, <3>2, <3>3, StackMoves
  <2>4. ASSUME NEW t \in NodeThread, Mempool!At(t, "check") \/ Mempool!At(t, "return")
                   \/ Mempool!At(t, "recheck") \/ Mempool!At(t, "erase"),
               stack' = [stack EXCEPT ![t] = Tail(@)],
               UNCHANGED <<entries, spentOutpoints, totalBytes>>,
               orphans' \in SUBSET Tx, IsFiniteSet(orphans')
        PROVE  PoolInv'
    <3>1. stack[t] # <<>> /\ ~TopAt(stack[t], "subtract")
        BY <2>0, <2>4, WhereAt
    <3>2. PICK new : /\ StackOK(new) /\ ~TopAt(new, "subtract")
                     /\ stack' = [stack EXCEPT ![t] = new]
        BY <2>0, <2>4, <3>1, CallReturns
    <3> QED BY <2>4, <3>1, <3>2, StackMoves
  <2>5. ASSUME NEW t \in NodeThread, Mempool!Refuse(t) \/ Mempool!ReturnFromAdd(t) PROVE PoolInv'
      BY <2>0, <2>4, <2>5 DEF Mempool!Refuse, Mempool!ReturnFromAdd, Mempool!Return
  <2>6. ASSUME NEW t \in NodeThread, Mempool!Orphan(t) PROVE PoolInv'
    <3>1. PICK tx : tx = Mempool!Top(t).tx
        OBVIOUS
    <3>2. tx \in Tx
        BY <2>0, <2>6, <3>1, WhereAt DEF Mempool!Orphan
    <3>3. \/ \E old \in orphans : orphans' = (orphans \ {old}) \cup {tx}
          \/ orphans' = orphans \cup {tx}
        BY <2>6, <3>1 DEF Mempool!Orphan
    <3>4. orphans' \in SUBSET Tx /\ IsFiniteSet(orphans')
      <4>1. \A old : IsFiniteSet(orphans \ {old})
          BY <2>0, FS_RemoveElement
      <4>2. IsFiniteSet(orphans \cup {tx}) /\ \A old : IsFiniteSet((orphans \ {old}) \cup {tx})
          BY <2>0, <4>1, FS_AddElement
      <4>3. IsFiniteSet(orphans')
          BY <3>3, <4>2
      <4> QED BY <2>0, <3>2, <3>3, <4>3
    <3> QED BY <2>4, <2>6, <3>4 DEF Mempool!Orphan, Mempool!Return
  <2>7. ASSUME NEW t \in NodeThread, Mempool!Accept(t) PROVE PoolInv'
    <3>1. PICK tx : tx = Mempool!Top(t).tx
        OBVIOUS
    <3>2. Mempool!At(t, "check") /\ UNCHANGED orphans
        BY <2>7 DEF Mempool!Accept
    <3>3. tx \in Tx /\ stack[t] # <<>> /\ ~TopAt(stack[t], "subtract")
        BY <2>0, <3>1, <3>2, WhereAt
    <3>4. ASSUME Mempool!Goto(t, "recheck"), UNCHANGED <<entries, spentOutpoints, totalBytes>>
          PROVE  PoolInv'
      <4>1. PICK new : /\ StackOK(new) /\ TopAt(new, "subtract") = ("recheck" = "subtract")
                       /\ stack' = [stack EXCEPT ![t] = new]
          BY <2>0, <3>3, <3>4, CallGoes
      <4> QED BY <2>0, <3>2, <3>3, <3>4, <4>1, StackMoves
    <3>5. ASSUME Mempool!Insert(tx), Mempool!Goto(t, "promote"), ~Mempool!Full,
                 tx \notin entries, ~Mempool!DoubleSpend(tx)
          PROVE  PoolInv'
      <4>1. PICK new : /\ StackOK(new) /\ TopAt(new, "subtract") = ("promote" = "subtract")
                       /\ stack' = [stack EXCEPT ![t] = new]
          BY <2>0, <3>3, <3>5, CallGoes
      <4> QED BY <3>2, <3>3, <3>5, <4>1, EntryAdded
    <3> QED BY <2>7, <3>1, <3>4, <3>5 DEF Mempool!Accept
  <2>8. ASSUME NEW t \in NodeThread, Mempool!Recheck(t) PROVE PoolInv'
    <3>1. PICK tx : tx = Mempool!Top(t).tx
        OBVIOUS
    <3>2. Mempool!At(t, "recheck") /\ UNCHANGED orphans
        BY <2>8 DEF Mempool!Recheck
    <3>3. tx \in Tx /\ stack[t] # <<>> /\ ~TopAt(stack[t], "subtract")
        BY <2>0, <3>1, <3>2, WhereAt
    <3>4. ASSUME Mempool!Insert(tx), Mempool!Goto(t, "promote"), Mempool!StillFits(tx)
          PROVE  PoolInv'
      <4>1. PICK new : /\ StackOK(new) /\ TopAt(new, "subtract") = ("promote" = "subtract")
                       /\ stack' = [stack EXCEPT ![t] = new]
          BY <2>0, <3>3, <3>4, CallGoes
      <4> QED BY <3>2, <3>3, <3>4, <4>1, EntryAdded DEF Mempool!StillFits
    <3> QED BY <2>0, <2>4, <2>8, <3>1, <3>2, <3>4 DEF Mempool!Recheck, Mempool!Return
  <2>9. ASSUME NEW t \in NodeThread, Mempool!PromoteOrphans(t) PROVE PoolInv'
    <3>1. PICK tx : tx = Mempool!Top(t).tx
        OBVIOUS
    <3>2. PICK S : S = {o \in orphans : \E out \in InputsOf[o] : out[1] = tx}
        OBVIOUS
    <3>3. Mempool!At(t, "promote") /\ UNCHANGED <<entries, spentOutpoints, totalBytes>>
          /\ orphans' = orphans \ S
        BY <2>9, <3>1, <3>2 DEF Mempool!PromoteOrphans
    <3>4. tx \in Tx /\ stack[t] # <<>> /\ ~TopAt(stack[t], "subtract")
        BY <2>0, <3>1, <3>3, WhereAt
    <3>5. S \in SUBSET Tx /\ IsFiniteSet(S)
        BY <2>0, <3>2, FS_Subset
    <3>6. PICK n \in Nat : n = Mempool!Cardinality(S)
        BY <3>5, FS_CardinalityType, PoolCardinality
    <3>7. PICK s : s = stack[t]
        OBVIOUS
    <3>8. PICK order \in [1..n -> S] :
              stack' = [stack EXCEPT ![t] = [i \in DOMAIN order |-> Mempool!Adding(order[i])]
                                                \o <<[at |-> "return", tx |-> tx]>> \o Tail(@)]
      <4> DEFINE own == Mempool!Top(t).tx
                 depending == {o \in orphans : \E out \in InputsOf[o] : out[1] = own}
                 Pushed(order, of) == [stack EXCEPT ![t] =
                     [i \in DOMAIN order |-> Mempool!Adding(order[i])]
                         \o <<[at |-> "return", tx |-> of]>> \o Tail(@)]
      <4>1. \E order \in [1..Mempool!Cardinality(depending) -> depending] :
                /\ {order[i] : i \in DOMAIN order} = depending
                /\ stack' = Pushed(order, own)
          BY <2>9, Zenon DEF Mempool!PromoteOrphans
      <4>2. depending = S /\ own = tx
          BY <3>1, <3>2
      <4> HIDE DEF own, depending, Pushed
      <4>3. \E order \in [1..n -> S] : stack' = Pushed(order, tx)
          BY <3>6, <4>1, <4>2
      <4> QED BY <4>3 DEF Pushed
    <3>9. PICK new : new = [i \in DOMAIN order |-> Mempool!Adding(order[i])]
                               \o <<[at |-> "return", tx |-> tx]>> \o Tail(s)
        OBVIOUS
    <3>10. StackOK(s) /\ s # <<>>
        BY <2>0, <3>4, <3>7 DEF PoolTypeOK
    <3>11. StackOK(new) /\ ~TopAt(new, "subtract")
        BY <3>4, <3>5, <3>9, <3>10, OrphansPushed
    <3>12. stack' = [stack EXCEPT ![t] = new]
        BY <3>7, <3>8, <3>9
    <3>13. orphans' \in SUBSET Tx /\ IsFiniteSet(orphans')
        BY <2>0, <3>3, FS_Subset
    <3> QED BY <3>3, <3>4, <3>11, <3>12, <3>13, StackMoves
  <2>10. ASSUME NEW t \in NodeThread, Mempool!EraseEntry(t) PROVE PoolInv'
    <3>1. PICK tx : tx = Mempool!Top(t).tx
        OBVIOUS
    <3>2. Mempool!At(t, "erase") /\ UNCHANGED <<orphans, totalBytes>>
        BY <2>10 DEF Mempool!EraseEntry
    <3>3. stack[t] # <<>> /\ ~TopAt(stack[t], "subtract")
        BY <2>0, <3>2, WhereAt
    <3>4. CASE tx \in entries
      <4>1. /\ entries' = entries \ {tx} /\ spentOutpoints' = spentOutpoints \ InputsOf[tx]
            /\ Mempool!Goto(t, "subtract")
          BY <2>10, <3>1, <3>4 DEF Mempool!EraseEntry
      <4>2. PICK new : /\ StackOK(new) /\ TopAt(new, "subtract") = ("subtract" = "subtract")
                       /\ stack' = [stack EXCEPT ![t] = new]
          BY <2>0, <3>3, <4>1, CallGoes
      <4> QED BY <3>2, <3>3, <3>4, <4>1, <4>2, EntryErased
    <3>5. CASE tx \notin entries
        BY <2>0, <2>4, <2>10, <3>1, <3>2, <3>5 DEF Mempool!EraseEntry
    <3> QED BY <3>4, <3>5
  <2>11. ASSUME NEW t \in NodeThread, Mempool!SubtractBytes(t) PROVE PoolInv'
    <3>1. /\ Mempool!At(t, "subtract") /\ totalBytes' = totalBytes - 1
          /\ stack' = [stack EXCEPT ![t] = Tail(@)]
          /\ UNCHANGED <<entries, orphans, spentOutpoints>>
        BY <2>11 DEF Mempool!SubtractBytes
    <3>2. stack[t] # <<>> /\ TopAt(stack[t], "subtract")
        BY <2>0, <3>1, WhereAt
    <3>3. PICK new : /\ StackOK(new) /\ ~TopAt(new, "subtract")
                     /\ stack' = [stack EXCEPT ![t] = new]
        BY <2>0, <3>1, <3>2, CallReturns
    <3> QED BY <3>1, <3>2, <3>3, BytesSubtracted
  <2>12. ASSUME orphans' \in SUBSET Tx, IsFiniteSet(orphans'),
                UNCHANGED <<entries, spentOutpoints, totalBytes, stack>>
         PROVE  PoolInv'
      BY <2>12 DEF PoolInv, PoolTypeOK, OutputsHeld, BytesCounted, Subtracting, Mempool!InputsOfAll
  <2>13. CASE Mempool!EvictStaleOrphans
    <3>1. \E old \in orphans : orphans' = orphans \ {old}
        BY <2>13 DEF Mempool!EvictStaleOrphans
    <3>2. orphans' \in SUBSET Tx /\ IsFiniteSet(orphans')
        BY <2>0, <3>1, FS_RemoveElement
    <3> QED BY <2>12, <2>13, <3>2 DEF Mempool!EvictStaleOrphans
  <2>14. CASE UNCHANGED Mempool!mempoolVars
      BY <2>0, <2>12, <2>14 DEF Mempool!mempoolVars
  <2> QED
      BY <2>1, <2>2, <2>3, <2>5, <2>6, <2>7, <2>8, <2>9, <2>10, <2>11, <2>13, <2>14
      DEF Mempool!Next, Mempool!ReorgRestore
<1> QED BY <1>1, <1>2

\* The inductive invariant of the pool: which outputs are held to be spent
\* and what is counted at each call of each thread of addTransaction,
\* removeTransaction and promoteOrphans.
THEOREM PoolInvariant == StateSpec => [](unit = "mempool" => PoolInv)
<1> DEFINE Inv == unit = "mempool" => PoolInv
<1>1. StateInit => Inv
    BY PoolKept DEF StateInit, ChainInit, MempoolInit, PersistInit, DatabaseInit
<1>2. Inv /\ [StateNext]_<<unit, otherVars, stateVars>> => Inv'
  <2> SUFFICES ASSUME Inv, [StateNext]_<<unit, otherVars, stateVars>>, unit' = "mempool"
               PROVE  PoolInv'
      OBVIOUS
  <2>1. unit = "mempool" /\ [Mempool!Next]_(Mempool!mempoolVars)
      BY DEF StateNext, ChainNext, MempoolNext, PersistNext, DatabaseNext, stateVars, poolVars,
             Mempool!mempoolVars
  <2> QED BY <2>1, PoolKept
<1> QED
    BY <1>1, <1>2, PTL DEF StateSpec

\* However many threads add, restore, remove and evict, for any transactions
\* and limits, no output is spent by two entries and the limits hold.
THEOREM AlwaysSpentOnce == StateSpec => []SpentOnce
<1>1. (unit = "mempool" => PoolInv) => SpentOnce
  <2> SUFFICES ASSUME PoolInv PROVE Mempool!SpentOnce
      BY DEF SpentOnce
  <2>1. Cardinality(entries) \in Nat /\ Cardinality(Subtracting) \in Nat
      BY FS_CardinalityType DEF PoolInv, PoolTypeOK
  <2>2. Cardinality(entries) <= totalBytes
      BY <2>1 DEF PoolInv, BytesCounted
  <2>3. Mempool!Cardinality(entries) = Cardinality(entries)
      BY PoolCardinality
  <2> QED BY <2>2, <2>3 DEF PoolInv, OutputsHeld, BytesCounted, Mempool!SpentOnce
<1> QED
    BY <1>1, PoolInvariant, PTL

-----------------------------------------------------------------------------
(* The chain: MedorChain                                                   *)

\* A list, of however many places.
Listed(s) == Len(s) \in Nat /\ DOMAIN s = 1..Len(s)

\* The chain's sums of amounts: the exact one is the total, the 64-bit one
\* that or less, and what fits.
LEMMA Sums ==
    ASSUME NEW s, Listed(s), \A i \in DOMAIN s : s[i] \in Nat
    PROVE  /\ Chain!ExactSum(s) = TotalOf(s, DOMAIN s) /\ Chain!ExactSum(s) \in Nat
           /\ Chain!SumOf(s) \in 0..MaxAmount /\ Chain!SumOf(s) <= Chain!ExactSum(s)
<1>1. PICK n \in Nat : n = Len(s) /\ DOMAIN s = 1..n
    BY DEF Listed
<1>2. PICK m \in Nat : m = MaxAmount + 1 /\ m > 0
    BY ChainConfigured DEF Chain!ChainAssumption
<1>3. PICK exact : exact = CHOOSE it : it = [p \in SUBSET (DOMAIN s) |->
              IF p = {} THEN 0 ELSE it[p \ {Max(p)}] + s[Max(p)]]
    OBVIOUS
<1>4. PICK wraps : wraps = CHOOSE it : it = [p \in SUBSET (DOMAIN s) |->
              IF p = {} THEN 0 ELSE (it[p \ {Max(p)}] + s[Max(p)]) % (MaxAmount + 1)]
    OBVIOUS
<1>5. Chain!ExactSum(s) = exact[DOMAIN s]
    BY <1>3 DEF Chain!ExactSum, Chain!FoldLeft, Chain!MapThenFoldSet, Chain!Max, Max
<1>6. Chain!SumOf(s) = wraps[DOMAIN s]
    BY <1>4 DEF Chain!SumOf, Chain!FoldLeft, Chain!MapThenFoldSet, Chain!Max, Max
<1>7. SumsUp(exact, s, n)
    BY <1>1, <1>3 DEF SumsUp
<1>8. SumsUpTo(wraps, s, n, m)
    BY <1>1, <1>2, <1>4 DEF SumsUpTo
<1>9. \A i \in 1..n : s[i] \in Nat
    BY <1>1
<1>10. PICK e, w, total : e = Chain!ExactSum(s) /\ w = Chain!SumOf(s) /\ total = TotalOf(s, 1..n)
    OBVIOUS
<1>11. e = total
    BY <1>1, <1>5, <1>7, <1>9, <1>10, SumIsTotal
<1>12. w \in Nat /\ w < m /\ w <= total
    BY <1>1, <1>2, <1>6, <1>8, <1>9, <1>10, WrappedSum
<1>13. total \in Nat
  <2>1. n \in 0..n
      OBVIOUS
  <2> QED BY <1>9, <1>10, <2>1, TotalUpTo
<1>14. w \in 0..MaxAmount
  <2>1. MaxAmount \in Nat
      BY ChainConfigured DEF Chain!ChainAssumption
  <2> QED BY <1>2, <1>12, <2>1
<1> QED BY <1>1, <1>10, <1>11, <1>12, <1>13, <1>14

\* Spending one outpoint.
SpendOne(acc, o, height) ==
    IF acc.ok /\ Chain!SpendableAt(acc.utxo, o, height)
    THEN [acc EXCEPT !.utxo = Chain!Without(@, {o})]
    ELSE [acc EXCEPT !.ok = FALSE]

Unspent == [ok |-> TRUE, utxo |-> utxo, accounts |-> accounts]

\* What spending leaves: some of what there was.
Remains ==
    [ok : BOOLEAN, accounts : {accounts},
     utxo : {utxo} \cup {[o \in S |-> utxo[o]] : S \in SUBSET DOMAIN utxo}]

LEMMA SpendRemains ==
    ASSUME NEW acc \in Remains, NEW o, NEW height PROVE SpendOne(acc, o, height) \in Remains
<1>0. acc = [ok |-> acc.ok, utxo |-> acc.utxo, accounts |-> acc.accounts]
    BY DEF Remains
<1>1. /\ acc.ok \in BOOLEAN /\ acc.accounts = accounts
      /\ acc.utxo \in {utxo} \cup {[p \in S |-> utxo[p]] : S \in SUBSET DOMAIN utxo}
    BY DEF Remains
<1>2. PICK S \in SUBSET DOMAIN utxo : S = DOMAIN acc.utxo /\ \A p \in S : acc.utxo[p] = utxo[p]
    BY <1>1
<1>3. PICK u : u = Chain!Without(acc.utxo, {o})
    OBVIOUS
<1>4. u = [p \in S \ {o} |-> utxo[p]]
  <2>1. u = [p \in S \ {o} |-> acc.utxo[p]]
      BY <1>2, <1>3 DEF Chain!Without
  <2> QED BY <1>2, <2>1
<1>5. u \in {[p \in T |-> utxo[p]] : T \in SUBSET DOMAIN utxo}
  <2>1. S \ {o} \in SUBSET DOMAIN utxo
      OBVIOUS
  <2> QED BY <1>4, <2>1
<1>6. CASE acc.ok /\ Chain!SpendableAt(acc.utxo, o, height)
  <2>1. SpendOne(acc, o, height) = [ok |-> acc.ok, utxo |-> u, accounts |-> acc.accounts]
      BY <1>0, <1>3, <1>6 DEF SpendOne
  <2> QED BY <1>1, <1>5, <2>1 DEF Remains
<1>7. CASE ~(acc.ok /\ Chain!SpendableAt(acc.utxo, o, height))
  <2>1. SpendOne(acc, o, height) = [ok |-> FALSE, utxo |-> acc.utxo, accounts |-> acc.accounts]
      BY <1>0, <1>7 DEF SpendOne
  <2> QED BY <1>1, <2>1 DEF Remains
<1> QED BY <1>6, <1>7

\* acc is what spending the inputs of tx one after the other leaves.
SpendsAlong(acc, tx, n, height) ==
    /\ acc[0] = Unspent
    /\ \A i \in 1..n : acc[i] = SpendOne(acc[i - 1], tx.inputs[i], height)

LEMMA Spending ==
    ASSUME NEW tx, NEW height, NEW n \in Nat, DOMAIN tx.inputs = 1..n
    PROVE  \E acc : SpendsAlong(acc, tx, n, height) /\ acc[n] = Chain!SpendInputs(tx, height)
<1>1. PICK Good, base, s : Good = Remains /\ base = Unspent /\ s = tx.inputs
    OBVIOUS
<1> DEFINE Folds(it) == it = [p \in SUBSET (DOMAIN tx.inputs) |-> IF p = {} THEN Unspent
                  ELSE SpendOne(it[p \ {Max(p)}], tx.inputs[Max(p)], height)]
<1>2. base \in Good
    BY <1>1 DEF Remains, Unspent
<1>3. PICK turn : turn = [i \in 1..n |-> [acc \in Good |-> SpendOne(acc, s[i], height)]]
    OBVIOUS
<1>4. \A acc \in Good, i \in 1..n : turn[i][acc] = SpendOne(acc, s[i], height)
                                    /\ turn[i][acc] \in Good
  <2> HIDE DEF SpendOne
  <2>1. \A acc \in Good, i \in 1..n : SpendOne(acc, s[i], height) \in Good
      BY <1>1, SpendRemains
  <2> QED BY <1>3, <2>1
<1>5. n \in Nat /\ base \in Good /\ \A acc \in Good, i \in 1..n : turn[i][acc] \in Good
    BY <1>2, <1>4
<1>6. PICK it : FoldsAll(it, turn, base, n) /\ StaysGood(it, n, Good)
    BY <1>5, FoldExists
<1>7. \A p \in SUBSET (1..n) : p # {} =>
          turn[Max(p)][it[p \ {Max(p)}]] = SpendOne(it[p \ {Max(p)}], s[Max(p)], height)
  <2> HIDE DEF SpendOne
  <2> QED BY <1>4, <1>6, LastOfPlaces DEF StaysGood
<1>8. \E g : Folds(g)
  <2>1. Folds(it)
    <3> HIDE DEF SpendOne
    <3> QED BY <1>1, <1>6, <1>7 DEF FoldsAll
  <2> HIDE DEF Folds
  <2> QED BY <2>1
<1>9. PICK the : the = CHOOSE g : Folds(g)
    OBVIOUS
<1>10. Folds(the)
  <2> HIDE DEF Folds
  <2> QED BY <1>8, <1>9
<1>11. FoldsIn(the, turn, base, n, Good)
  <2>1. \A p \in SUBSET (1..n) : p # {} /\ the[p \ {Max(p)}] \in Good =>
            the[p] = turn[Max(p)][the[p \ {Max(p)}]]
    <3> HIDE DEF SpendOne
    <3> QED BY <1>1, <1>4, <1>10, LastOfPlaces
  <2>2. the[{}] = base
      BY <1>1, <1>10
  <2> HIDE DEF Folds
  <2> QED BY <2>1, <2>2 DEF FoldsIn
<1>12. GoesThrough([k \in 0..n |-> the[1..k]], turn, base, n, Good)
  <2> HIDE DEF Folds
  <2> QED BY <1>5, <1>11, FoldSteps
<1>13. Chain!SpendInputs(tx, height) = the[1..n]
    BY <1>9 DEF Chain!SpendInputs, Chain!FoldLeft, Chain!MapThenFoldSet, Chain!Max, Max,
                      SpendOne, Unspent
<1>14. PICK acc : GoesThrough(acc, turn, base, n, Good) /\ acc[n] = the[1..n]
  <2>1. PICK acc : acc = [k \in 0..n |-> the[1..k]]
      OBVIOUS
  <2>2. acc[n] = the[1..n]
      BY <2>1
  <2> HIDE DEF Folds
  <2> QED BY <1>12, <2>1, <2>2
<1>15. \A i \in 1..n : acc[i] = SpendOne(acc[i - 1], s[i], height)
  <2>1. \A i \in 1..n : i - 1 \in 0..n /\ acc[i - 1] \in Good /\ acc[i] = turn[i][acc[i - 1]]
      BY <1>14 DEF GoesThrough
  <2> HIDE DEF SpendOne
  <2> QED BY <1>4, <2>1
<1>16. SpendsAlong(acc, tx, n, height)
    BY <1>1, <1>14, <1>15 DEF GoesThrough, SpendsAlong
<1> QED BY <1>13, <1>14, <1>16

\* Adding one output.
Credited(accs, out, coinbase) ==
    LET paid == Chain!AddBalance(accs, out.address, out.value)
    IN  IF coinbase THEN paid ELSE Chain!TakeNetworkFee(paid, out.address, out.value)
CoinOf(out, height, coinbase) ==
    [value |-> out.value, address |-> out.address, height |-> height, coinbase |-> coinbase]
AddOne(acc, tx, i, height, coinbase) ==
    IF acc.ok /\ <<Chain!TxHash(tx), i>> \notin DOMAIN acc.utxo
    THEN [ok |-> TRUE,
          utxo |-> Chain!With(acc.utxo, <<Chain!TxHash(tx), i>>,
                              CoinOf(tx.outputs[i], height, coinbase)),
          accounts |-> Credited(acc.accounts, tx.outputs[i], coinbase)]
    ELSE [acc EXCEPT !.ok = FALSE]

-----------------------------------------------------------------------------
(* Any transactions, not only those of MedorChain's Offered *)

Output == [value : 0..MaxAmount, address : ChainAddress]

\* What a transaction may be: whatever it spends, it pays amounts to addresses.
PaysOn(tx) ==
    /\ Listed(tx.inputs) /\ Listed(tx.outputs)
    /\ \A i \in DOMAIN tx.outputs : tx.outputs[i] \in Output
OffersOK(offered) == Listed(offered) /\ \A i \in DOMAIN offered : PaysOn(offered[i])

\* The chain whose addBlock is given any list of transactions, with any
\* number of inputs and outputs, forged ones and such that do not exist.
AnyNext ==
    \/ Chain!Next
    \/ \E payee \in Miner : \E offered : OffersOK(offered) /\ Chain!AddBlock(payee, offered)
AnySpec == Chain!Init /\ [][AnyNext]_(Chain!vars)

-----------------------------------------------------------------------------
(* What is stored *)

\* What addBlock has returned true for is stored, and in the chain while a
\* process has one, unless that process could not read it; so is the block
\* under way, once it is applied.
StoredInv ==
    /\ IsFiniteSet(DOMAIN blockDB) /\ committed \subseteq DOMAIN blockDB
    /\ chain \in Seq(DOMAIN blockDB)
    /\ pc = "genesis" => committed \subseteq skipped
    /\ pc \in {"idle", "apply", "rollback", "persist"} =>
           \A h \in committed : h \in skipped \/ \E i \in DOMAIN chain : chain[i] = h
    /\ pc \in {"apply", "rollback", "persist"} => block.header \in DOMAIN blockDB
    /\ pc = "persist" => \E i \in DOMAIN chain : chain[i] = block.header

\* What the constructor loads is everything it can read.
LEMMA AllLoaded ==
    ASSUME NEW S, IsFiniteSet(S), NEW s \in Chain!ByTime(S)
    PROVE  s \in Seq(S) /\ \A h \in S : \E i \in DOMAIN s : s[i] = h
<1>1. PICK n \in Nat : n = Cardinality(S)
    BY FS_CardinalityType
<1>2. Chain!Cardinality(S) = n
    BY <1>1 DEF Chain!Cardinality, Cardinality
<1>3. s \in Chain!SetToSeqs(S)
    BY DEF Chain!ByTime
<1>4. s \in [1..n -> S] /\ \A i, j \in 1..n : i # j => s[i] # s[j]
    BY <1>2, <1>3 DEF Chain!SetToSeqs
<1>5. PICK D : D = 1..n
    OBVIOUS
<1>6. IsFiniteSet(D) /\ Cardinality(D) = n
  <2>1. Cardinality(1..n) = n /\ IsFiniteSet(1..n)
      BY FS_Interval
  <2> QED BY <1>5, <2>1
<1>7. s \in Injection(D, S)
    BY <1>4, <1>5 DEF Injection, IsInjective
<1>8. s \in Surjection(D, S)
    BY <1>1, <1>6, <1>7, FS_Injection
<1>9. \A h \in S : \E i \in D : s[i] = h
    BY <1>8 DEF Surjection
<1>10. s \in Seq(S)
    BY <1>4
<1> QED BY <1>4, <1>5, <1>9, <1>10

\* The chain of more blocks, or with one more block.
LEMMA MoreBlocks ==
    ASSUME NEW S, NEW T, S \subseteq T, NEW s \in Seq(S) PROVE s \in Seq(T)
    OBVIOUS

LEMMA BlockStored ==
    ASSUME StoredInv, NEW onto, NEW payee, NEW offered, NEW before, NEW now,
           Chain!StoreBlock(onto, payee, offered, before, now), pc \in {"genesis", "idle"},
           UNCHANGED <<chain, committed, skipped>>
    PROVE  StoredInv'
<1>1. PICK h : /\ DOMAIN blockDB' = DOMAIN blockDB \cup {h}
               /\ block'.header = h
               /\ pc' = "apply"
    BY DEF Chain!StoreBlock, Chain!WriteBlock
<1>2. IsFiniteSet(DOMAIN blockDB')
    BY <1>1, FS_AddElement DEF StoredInv
<1>3. chain' \in Seq(DOMAIN blockDB')
    BY <1>1, MoreBlocks DEF StoredInv
<1> QED BY <1>1, <1>2, <1>3 DEF StoredInv

LEMMA StoredKept ==
    /\ Chain!Init => StoredInv
    /\ StoredInv /\ [AnyNext]_(Chain!vars) => StoredInv'
<1>1. Chain!Init => StoredInv
  <2>1. DOMAIN <<>> = {}
      OBVIOUS
  <2> QED BY <2>1, FS_EmptySet DEF Chain!Init, StoredInv
<1>2. StoredInv /\ [AnyNext]_(Chain!vars) => StoredInv'
  <2> SUFFICES ASSUME StoredInv, [AnyNext]_(Chain!vars) PROVE StoredInv'
      OBVIOUS
  <2>1. CASE Chain!Start
    <3>1. PICK S : S = Chain!ReadableIn(blockDB)
        OBVIOUS
    <3>2. S \subseteq DOMAIN blockDB /\ IsFiniteSet(S)
        BY <3>1, FS_Subset DEF StoredInv, Chain!ReadableIn
    <3>3. chain' \in Seq(S) /\ \A h \in S : \E i \in DOMAIN chain' : chain'[i] = h
      <4>1. chain' \in Chain!ByTime(S)
          BY <2>1, <3>1 DEF Chain!Start, Chain!LoadedChains
      <4> QED BY <3>2, <4>1, AllLoaded
    <3>4. /\ pc' = (IF chain' = <<>> THEN "genesis" ELSE "idle")
          /\ skipped' = DOMAIN blockDB \ S
          /\ UNCHANGED <<blockDB, committed, block>>
        BY <2>1, <3>1 DEF Chain!Start, Chain!disk
    <3>5. chain' \in Seq(DOMAIN blockDB')
        BY <3>2, <3>3, <3>4, MoreBlocks
    <3>6. \A h \in committed' : h \in skipped' \/ h \in S
        BY <3>4 DEF StoredInv
    <3>7. chain' = <<>> => S = {}
      <4>1. chain' = <<>> => DOMAIN chain' = {}
          OBVIOUS
      <4> QED BY <3>3, <4>1
    <3> QED BY <3>3, <3>4, <3>5, <3>6, <3>7 DEF StoredInv
  <2>2. CASE Chain!MineGenesis
      BY <2>2, BlockStored DEF Chain!MineGenesis, Chain!memory, Chain!history
  <2>3. ASSUME Chain!Stop \/ Chain!Crash PROVE StoredInv'
    <3>1. pc' = "closed" /\ chain' = <<>> /\ UNCHANGED <<blockDB, committed>>
        BY <2>3 DEF Chain!Stop, Chain!Crash, Chain!Lose, Chain!disk
    <3>2. chain' \in Seq(DOMAIN blockDB')
        BY <3>1
    <3> QED BY <3>1, <3>2 DEF StoredInv
  <2>4. ASSUME NEW payee, NEW offered, Chain!AddBlock(payee, offered) PROVE StoredInv'
      BY <2>4, BlockStored DEF Chain!AddBlock, Chain!memory, Chain!history
  <2>5. CASE Chain!ApplyTransaction
    <3>1. /\ pc = "apply" /\ pc' \in {"apply", "rollback"} /\ block'.header = block.header
          /\ UNCHANGED <<chain, blockDB, committed, skipped>>
        BY <2>5 DEF Chain!ApplyTransaction, Chain!history
    <3> QED BY <3>1 DEF StoredInv
  <2>6. CASE Chain!RollBack
      BY <2>6 DEF Chain!RollBack, Chain!disk, Chain!history, StoredInv
  <2>7. CASE Chain!Commit
    <3>1. /\ pc = "apply" /\ pc' = "persist" /\ chain' = Append(chain, block.header)
          /\ UNCHANGED <<block, blockDB, committed, skipped>>
        BY <2>7 DEF Chain!Commit
    <3>2. block.header \in DOMAIN blockDB /\ chain \in Seq(DOMAIN blockDB)
        BY <3>1 DEF StoredInv
    <3>3. /\ chain' \in Seq(DOMAIN blockDB) /\ Len(chain) + 1 \in DOMAIN chain'
          /\ chain'[Len(chain) + 1] = block.header
          /\ \A i \in DOMAIN chain : i \in DOMAIN chain' /\ chain'[i] = chain[i]
        BY <3>1, <3>2
    <3> QED BY <3>1, <3>2, <3>3 DEF StoredInv
  <2>8. CASE Chain!Persist
      BY <2>8 DEF Chain!Persist, Chain!memory, StoredInv
  <2>9. CASE UNCHANGED Chain!vars
      BY <2>9 DEF Chain!vars, Chain!memory, Chain!disk, Chain!history, StoredInv
  <2> QED BY <2>1, <2>2, <2>3, <2>4, <2>5, <2>6, <2>7, <2>8, <2>9 DEF AnyNext, Chain!Next
<1> QED BY <1>1, <1>2

\* The inductive invariant of what addBlock and loadChainFromDB store and
\* load: a block returned as added is there, and the one under way too.
THEOREM StoredInvariant ==
    /\ StateSpec => [](unit = "chain" => StoredInv)
    /\ AnySpec => []StoredInv
<1> DEFINE Inv == unit = "chain" => StoredInv
<1>1. StateInit => Inv
    BY StoredKept DEF StateInit, ChainInit, MempoolInit, PersistInit, DatabaseInit
<1>2. Inv /\ [StateNext]_<<unit, otherVars, stateVars>> => Inv'
  <2> SUFFICES ASSUME Inv, [StateNext]_<<unit, otherVars, stateVars>>, unit' = "chain"
               PROVE  StoredInv'
      OBVIOUS
  <2>1. unit = "chain" /\ [Chain!Next]_(Chain!vars)
      BY DEF StateNext, ChainNext, MempoolNext, PersistNext, DatabaseNext, stateVars, chainVars,
             Chain!vars, Chain!memory, Chain!disk, Chain!history
  <2>2. [AnyNext]_(Chain!vars)
      BY <2>1 DEF AnyNext
  <2> QED BY <2>1, <2>2, StoredKept
<1>3. StateSpec => []Inv
    BY <1>1, <1>2, PTL DEF StateSpec
<1>4. AnySpec => []StoredInv
    BY StoredKept, PTL DEF AnySpec
<1> QED
    BY <1>3, <1>4

\* For any configuration and transactions, wherever the process crashes, a
\* block addBlock returned true for is stored, and in every later chain but
\* those of a process that could not read it back.
THEOREM CommittedAlwaysSurvive ==
    /\ StateSpec => []CommittedSurvive
    /\ AnySpec => []Chain!CommittedSurvive
<1>1. (unit = "chain" => StoredInv) => CommittedSurvive
    BY DEF CommittedSurvive, Chain!CommittedSurvive, StoredInv, Chain!Range
<1>2. StoredInv => Chain!CommittedSurvive
    BY DEF Chain!CommittedSurvive, StoredInv, Chain!Range
<1>3. StateSpec => []CommittedSurvive
    BY <1>1, StoredInvariant, PTL
<1>4. AnySpec => []Chain!CommittedSurvive
    BY <1>2, StoredInvariant, PTL
<1> QED
    BY <1>3, <1>4

-----------------------------------------------------------------------------
(* What there is to spend, and what was issued *)

\* The value of an outpoint is in the hash it names.
Val(o) == o[1][2][o[2]].value
Worth(S) == TotalOf([o \in S |-> Val(o)], S)

Spends(tx) == [i \in DOMAIN tx.inputs |-> Val(tx.inputs[i])]
Claims(tx) == Chain!SumOf(Chain!Values(tx.outputs))

InBlock == pc \in {"apply", "rollback"}
BlockOutpoints == UNION {Chain!Outpoints(tx) : tx \in Chain!Range(block.txs)}

\* What the first n transactions of the block under way may bring: the first
\* the reward, and each what its sum loses.
Losses == [i \in DOMAIN block.txs |-> Chain!Hidden(block.txs[i])]
Brought(n) == (IF n = 0 THEN 0 ELSE block.header.reward) + TotalOf(Losses, 1..n)

AccountsOK ==
    /\ accounts \in [Chain!Key -> Nat \cup {Absent}]
    /\ accounts[SupplyKey] # Absent => accounts[SupplyKey] <= MaxSupply
    /\ supply \in 0..MaxSupply /\ baseFee \in Nat /\ hidden \in Nat

\* What is to be spent is worth what its outpoint says; without a process
\* there is nothing.
OutpointsOK ==
    /\ IsFiniteSet(DOMAIN utxo) /\ (pc = "closed" => DOMAIN utxo = {})
    /\ \A o \in DOMAIN utxo : utxo[o].value = Val(o) /\ Val(o) \in 0..MaxAmount

\* The block under way: as its outputs are summed, the first transaction
\* brings at most the reward, each other at most what it spends.
BlockOK ==
    InBlock =>
        /\ block.header.reward \in 0..(MaxSupply - supply)
        /\ Listed(block.txs) /\ block.next \in 1..(Len(block.txs) + 1)
        /\ \A i \in DOMAIN block.txs :
               /\ PaysOn(block.txs[i])
               /\ i = 1 => Claims(block.txs[i]) <= block.header.reward
               /\ i # 1 => /\ \A j \in DOMAIN block.txs[i].inputs : Spends(block.txs[i])[j] \in Nat
                           /\ Claims(block.txs[i])
                                  <= TotalOf(Spends(block.txs[i]), DOMAIN block.txs[i].inputs)

\* What there is to spend is worth no more than was issued and what sums
\* lost; without the outputs of the block under way, no more than before it.
Backed ==
    /\ ~InBlock => Worth(DOMAIN utxo) <= supply + hidden
    /\ InBlock => Worth(DOMAIN utxo \ BlockOutpoints) <= supply + hidden
    /\ pc = "apply" => Worth(DOMAIN utxo) <= supply + hidden + Brought(block.next - 1)
    /\ pc = "rollback" => Worth(DOMAIN utxo) <= supply + hidden + block.header.reward
                                                + Chain!HiddenIn(block.txs)

IssueInv ==
    /\ AccountsOK /\ OutpointsOK /\ BlockOK /\ Backed
    /\ \A h \in DOMAIN blockDB : h.time \in Int

-----------------------------------------------------------------------------
(* Crediting *)

Typed(accs) == accs \in [Chain!Key -> Nat \cup {Absent}]
Balance(accs, a) == Chain!GetBalance(accs, a)

LEMMA Addresses ==
    /\ ChainAddress \subseteq Chain!Key /\ SupplyKey \in Chain!Key /\ FeeKey \in Chain!Key
    /\ SupplyKey \notin ChainAddress /\ FeeKey \notin ChainAddress /\ SupplyKey # FeeKey
    /\ Treasury \in ChainAddress /\ Owner \in ChainAddress /\ Absent \notin Nat
    /\ MaxAmount \in Nat /\ MaxSupply \in Nat /\ MaxSupply <= MaxAmount
  BY ChainConfigured DEF Chain!ChainAssumption, Chain!Key

LEMMA LeastOfTwo ==
    ASSUME NEW m \in Int, NEW n \in Int
    PROVE  /\ Chain!Min({m, n}) \in {m, n} /\ Chain!Min({m, n}) <= m /\ Chain!Min({m, n}) <= n
<1> DEFINE Least(x) == x \in {m, n} /\ \A y \in {m, n} : x <= y
<1>1. \E x : Least(x)
  <2>1. CASE m <= n
      BY <2>1
  <2>2. CASE n <= m
      BY <2>2
  <2> QED BY <2>1, <2>2
<1>2. Chain!Min({m, n}) = CHOOSE x : Least(x)
    BY DEF Chain!Min
<1>3. Least(CHOOSE x : Least(x))
  <2> HIDE DEF Least
  <2> QED BY <1>1
<1> QED BY <1>2, <1>3

\* What is put under one key leaves the others.
LEMMA PutOne ==
    ASSUME NEW accs, Typed(accs), NEW k \in Chain!Key, NEW v \in Nat
    PROVE  /\ Typed(Chain!Put(accs, k, v)) /\ Chain!Put(accs, k, v)[k] = v
           /\ \A j \in Chain!Key : j # k => Chain!Put(accs, k, v)[j] = accs[j]
    BY DEF Typed, Chain!Put

LEMMA BalanceNat ==
    ASSUME NEW accs, Typed(accs), NEW a \in Chain!Key
    PROVE  /\ Balance(accs, a) \in Nat
           /\ accs[a] \in Nat => Balance(accs, a) = accs[a]
    BY Addresses DEF Typed, Balance, Chain!GetBalance, Chain!Get

LEMMA AddRaises ==
    ASSUME NEW accs, Typed(accs), NEW x \in ChainAddress, NEW v \in Nat,
           NEW new, new = Chain!AddBalance(accs, x, v)
    PROVE  /\ Typed(new)
           /\ \A k \in Chain!Key : k # x => new[k] = accs[k] /\ Balance(new, k) = Balance(accs, k)
           /\ Balance(new, x) >= Balance(accs, x) /\ Balance(new, x) <= Balance(accs, x) + v
           /\ Balance(accs, x) + v <= MaxAmount => Balance(new, x) = Balance(accs, x) + v
<1>0. x \in Chain!Key
    BY Addresses
<1>1. PICK b \in Nat : b = Balance(accs, x) /\ b = Chain!GetBalance(accs, x)
    BY <1>0, BalanceNat DEF Balance
<1>2. CASE v > MaxAmount - b
  <2>1. new = accs
      BY <1>1, <1>2 DEF Chain!AddBalance
  <2>2. ~(b + v <= MaxAmount)
      BY <1>2, Addresses
  <2>3. Balance(new, x) = b /\ Balance(accs, x) = b
      BY <1>1, <2>1, Zenon
  <2>4. b >= b /\ b <= b + v
      OBVIOUS
  <2> QED BY <2>1, <2>2, <2>3, <2>4
<1>3. CASE ~(v > MaxAmount - b)
  <2>1. new = Chain!Put(accs, x, b + v) /\ b + v \in Nat
      BY <1>1, <1>3 DEF Chain!AddBalance
  <2>2. Typed(new) /\ new[x] = b + v /\ \A k \in Chain!Key : k # x => new[k] = accs[k]
      BY <1>0, <2>1, PutOne
  <2>3. Balance(new, x) = b + v
      BY <1>0, <2>1, <2>2, BalanceNat
  <2>4. \A k \in Chain!Key : k # x => Balance(new, k) = Balance(accs, k)
      BY <2>2 DEF Balance, Chain!GetBalance, Chain!Get
  <2>5. b + v >= b /\ b + v <= b + v
      OBVIOUS
  <2> QED BY <1>1, <2>2, <2>3, <2>4, <2>5
<1> QED BY <1>2, <1>3

\* No account is the poorer for an output, unless it has no room for it, and
\* none the richer by more than its value.
LEMMA CreditRaises ==
    ASSUME NEW accs, Typed(accs), NEW out \in Output, NEW coinbase \in BOOLEAN,
           NEW new, new = Credited(accs, out, coinbase)
    PROVE  /\ Typed(new) /\ new[SupplyKey] = accs[SupplyKey]
           /\ \A a \in ChainAddress :
                  /\ Balance(new, a) <= Balance(accs, a) + out.value
                  /\ coinbase \/ Balance(accs, a) + out.value <= MaxAmount =>
                         Balance(new, a) >= Balance(accs, a)
<1>1. PICK x \in ChainAddress : x = out.address
    BY DEF Output
<1>2. PICK v \in Nat : v = out.value
    BY DEF Output
<1>3. PICK paid : paid = Chain!AddBalance(accs, x, v)
    OBVIOUS
<1>4. /\ Typed(paid)
      /\ \A k \in Chain!Key : k # x => paid[k] = accs[k] /\ Balance(paid, k) = Balance(accs, k)
      /\ Balance(paid, x) >= Balance(accs, x) /\ Balance(paid, x) <= Balance(accs, x) + v
      /\ Balance(accs, x) + v <= MaxAmount => Balance(paid, x) = Balance(accs, x) + v
    BY <1>3, AddRaises
<1>0. /\ x \in Chain!Key /\ Treasury \in Chain!Key /\ Treasury \in ChainAddress
      /\ SupplyKey \in Chain!Key /\ SupplyKey # x /\ SupplyKey # Treasury
      /\ \A a \in ChainAddress : a \in Chain!Key
    BY Addresses
<1>5. CASE coinbase
  <2>1. new = paid
      BY <1>1, <1>2, <1>3, <1>5 DEF Credited
  <2>2. \A a \in ChainAddress : Balance(accs, a) \in Nat
      BY <1>0, BalanceNat
  <2>3. \A a \in ChainAddress : /\ Balance(paid, a) >= Balance(accs, a)
                                 /\ Balance(paid, a) <= Balance(accs, a) + v
      BY <1>0, <1>4, <2>2
  <2> QED BY <1>0, <1>2, <1>4, <2>1, <2>3
<1>6. CASE ~coinbase
  <2>1. PICK fee : fee = Chain!Min({Chain!NetworkFee(v), v})
      OBVIOUS
  <2>2. fee \in Nat /\ fee <= v
    <3>1. PICK f \in Nat : f = Chain!NetworkFee(v)
      <4>1. Chain!NetworkFee(v) \in Nat
          BY DEF Chain!NetworkFee
      <4> QED BY <4>1
    <3>2. f \in Int /\ v \in Int /\ fee = Chain!Min({f, v})
        BY <2>1, <3>1
    <3>3. fee \in {f, v} /\ fee <= v
        BY <3>2, LeastOfTwo
    <3> QED BY <3>3
  <2>3. PICK b \in Nat : b = Balance(paid, x)
      BY <1>0, <1>4, BalanceNat
  <2>4. new = IF fee > b THEN paid
              ELSE Chain!AddBalance(Chain!Put(paid, x, b - fee), Treasury, fee)
      BY <1>1, <1>2, <1>3, <1>6, <2>1, <2>3 DEF Credited, Chain!TakeNetworkFee, Balance,
                                                 Chain!DeductBalance
  <2>5. PICK c \in Nat : c = Balance(accs, x)
      BY <1>0, BalanceNat
  <2>6. b >= c /\ b <= c + v /\ (c + v <= MaxAmount => b = c + v)
      BY <1>4, <2>3, <2>5
  <2>7. CASE fee > b
    <3>1. new = paid
        BY <2>4, <2>7
    <3>2. \A a \in ChainAddress : Balance(accs, a) \in Nat
        BY <1>0, BalanceNat
    <3>3. \A a \in ChainAddress : /\ Balance(paid, a) >= Balance(accs, a)
                                   /\ Balance(paid, a) <= Balance(accs, a) + v
        BY <1>0, <1>4, <3>2
    <3> QED BY <1>0, <1>2, <1>4, <3>1, <3>3
  <2>8. CASE ~(fee > b)
    <3>2. PICK rest \in Nat : rest = b - fee
      <4>1. b - fee \in Nat
          BY <2>2, <2>8
      <4> QED BY <4>1
    <3>1. PICK left : left = Chain!Put(paid, x, rest)
        OBVIOUS
    <3>3. Typed(left) /\ left[x] = rest /\ \A k \in Chain!Key : k # x => left[k] = paid[k]
      <4>1. Typed(paid) /\ x \in Chain!Key /\ rest \in Nat
          BY <1>0, <1>4
      <4> QED BY <3>1, <4>1, PutOne
    <3>4. Balance(left, x) = rest
        BY <1>0, <3>2, <3>3, BalanceNat
    <3>5. \A k \in Chain!Key : k # x => Balance(left, k) = Balance(paid, k)
        BY <3>3 DEF Balance, Chain!GetBalance, Chain!Get
    <3>6. new = Chain!AddBalance(left, Treasury, fee)
        BY <2>4, <2>8, <3>1, <3>2
    <3>7. /\ Typed(new)
          /\ \A k \in Chain!Key : k # Treasury =>
                 new[k] = left[k] /\ Balance(new, k) = Balance(left, k)
          /\ Balance(new, Treasury) >= Balance(left, Treasury)
          /\ Balance(new, Treasury) <= Balance(left, Treasury) + fee
          /\ Balance(left, Treasury) + fee <= MaxAmount =>
                 Balance(new, Treasury) = Balance(left, Treasury) + fee
        BY <1>0, <2>2, <3>3, <3>6, AddRaises
    <3>8. new[SupplyKey] = accs[SupplyKey]
        BY <1>0, <1>4, <3>3, <3>7
    <3>9. ASSUME NEW a \in ChainAddress, Balance(accs, a) + v <= MaxAmount
          PROVE  Balance(new, a) >= Balance(accs, a)
      <4>0. Balance(accs, a) \in Nat /\ a \in Chain!Key
          BY <1>0, BalanceNat
      <4>1. CASE a # x /\ a # Treasury
          BY <1>4, <3>5, <3>7, <4>0, <4>1
      <4>2. CASE a # x /\ a = Treasury
        <5>1. Balance(left, a) = Balance(accs, a)
            BY <1>4, <3>5, <4>0, <4>2
        <5> QED BY <3>7, <4>2, <5>1
      <4>3. CASE a = x /\ a # Treasury
        <5>1. Balance(new, a) = rest /\ b = c + v /\ Balance(accs, a) = c
            BY <2>5, <2>6, <3>4, <3>7, <3>9, <4>0, <4>3
        <5>2. rest >= c
            BY <2>2, <3>2, <5>1
        <5> QED BY <5>1, <5>2
      <4>4. CASE a = x /\ a = Treasury
        <5>1. b = c + v /\ Balance(accs, a) = c /\ Balance(left, Treasury) = rest
            BY <2>5, <2>6, <3>4, <3>9, <4>4
        <5>2. rest + fee <= MaxAmount
            BY <2>2, <2>5, <3>2, <3>9, <5>1
        <5>3. Balance(new, Treasury) = rest + fee
            BY <3>7, <5>1, <5>2
        <5>4. rest + fee >= c
            BY <2>2, <3>2, <5>1
        <5> QED BY <4>4, <5>1, <5>3, <5>4
      <4> QED BY <4>1, <4>2, <4>3, <4>4
    <3>10. ASSUME NEW a \in ChainAddress PROVE Balance(new, a) <= Balance(accs, a) + v
      <4>0. PICK i \in Nat : i = Balance(accs, a) /\ a \in Chain!Key
          BY <1>0, BalanceNat
      <4>1. PICK j \in Nat : j = Balance(new, a)
          BY <3>7, <4>0, BalanceNat
      <4>2. CASE a # x /\ a # Treasury
        <5>1. j = i
            BY <1>4, <3>5, <3>7, <4>0, <4>1, <4>2
        <5>2. i <= i + v
            OBVIOUS
        <5> QED BY <4>0, <4>1, <5>1, <5>2
      <4>3. CASE a # x /\ a = Treasury
        <5>1. Balance(left, a) = i
            BY <1>4, <3>5, <4>0, <4>3
        <5>2. j <= i + fee
            BY <3>7, <4>1, <4>3, <5>1
        <5>3. j <= i + v
            BY <2>2, <5>2
        <5> QED BY <4>0, <4>1, <5>3
      <4>4. CASE a = x /\ a # Treasury
        <5>1. j = rest /\ i = c
            BY <2>5, <3>4, <3>7, <4>0, <4>1, <4>4
        <5>2. rest <= c + v
            BY <2>2, <2>6, <3>2
        <5> QED BY <4>0, <4>1, <5>1, <5>2
      <4>5. CASE a = x /\ a = Treasury
        <5>1. j <= rest + fee /\ i = c
            BY <2>5, <3>4, <3>7, <4>0, <4>1, <4>5
        <5>2. j <= c + v
            BY <2>2, <2>6, <3>2, <5>1
        <5> QED BY <4>0, <4>1, <5>1, <5>2
      <4> QED BY <4>2, <4>3, <4>4, <4>5
    <3> QED BY <1>2, <1>6, <3>7, <3>8, <3>9, <3>10
  <2> QED BY <2>7, <2>8
<1> QED BY <1>5, <1>6

\* An output is credited, or the turn has ended before it.
LEMMA EitherRaises ==
    ASSUME NEW accs, Typed(accs), NEW out \in Output, NEW coinbase \in BOOLEAN,
           NEW new, new = accs \/ new = Credited(accs, out, coinbase)
    PROVE  /\ Typed(new) /\ new[SupplyKey] = accs[SupplyKey]
           /\ \A a \in ChainAddress :
                  /\ Balance(new, a) <= Balance(accs, a) + out.value
                  /\ coinbase \/ Balance(accs, a) + out.value <= MaxAmount =>
                         Balance(new, a) >= Balance(accs, a)
<1>1. CASE new = accs
  <2>1. ASSUME NEW a \in ChainAddress
        PROVE  /\ Balance(new, a) >= Balance(accs, a)
               /\ Balance(new, a) <= Balance(accs, a) + out.value
    <3>1. PICK b \in Nat, v \in Nat : b = Balance(accs, a) /\ v = out.value
        BY Addresses, BalanceNat DEF Output
    <3>2. Balance(new, a) = b
        BY <1>1, <3>1, Zenon
    <3>3. b >= b /\ b <= b + v
        OBVIOUS
    <3> QED BY <3>1, <3>2, <3>3
  <2> QED BY <1>1, <2>1
<1>2. CASE new = Credited(accs, out, coinbase)
    BY <1>2, CreditRaises
<1> QED BY <1>1, <1>2

-----------------------------------------------------------------------------
(* What outpoints are worth *)

Valued(S) == IsFiniteSet(S) /\ \A o \in S : Val(o) \in 0..MaxAmount

LEMMA WorthLess ==
    ASSUME NEW S, Valued(S), NEW o \in S
    PROVE  Worth(S) \in Int /\ Worth(S \ {o}) \in Int /\ Worth(S) = Worth(S \ {o}) + Val(o)
<1>1. PICK f : f = [p \in S |-> Val(p)]
    OBVIOUS
<1>2. PICK T : T = S \ {o}
    OBVIOUS
<1>3. PICK g : g = [p \in T |-> Val(p)]
    OBVIOUS
<1>4. IsFiniteSet(S) /\ IsFiniteSet(T)
    BY <1>2, FS_RemoveElement DEF Valued
<1>5. (\A p \in S : f[p] \in Int) /\ (\A p \in T : g[p] = f[p]) /\ f[o] = Val(o)
    BY <1>1, <1>2, <1>3, Addresses DEF Valued
<1>6. /\ TotalOf(f, S) \in Int /\ TotalOf(f, S) = f[o] + TotalOf(f, S \ {o})
      /\ TotalOf(f, S \ {o}) \in Int
    BY <1>4, <1>5, TotalWithout
<1>7. TotalOf(g, T) = TotalOf(f, T)
    BY <1>4, <1>5, TotalSame
<1>8. Worth(S) = TotalOf(f, S) /\ Worth(T) = TotalOf(g, T)
    BY <1>1, <1>3 DEF Worth
<1>9. PICK i \in Int, j \in Int, k \in Int : /\ i = TotalOf(f, S) /\ j = TotalOf(f, T) /\ k = f[o]
                                            /\ i = k + j
    BY <1>2, <1>5, <1>6
<1>10. Worth(S) = i /\ Worth(S \ {o}) = j /\ Val(o) = k
    BY <1>2, <1>5, <1>7, <1>8, <1>9
<1> QED BY <1>9, <1>10

LEMMA WorthMore ==
    ASSUME NEW S, Valued(S), NEW o, o \notin S, Val(o) \in 0..MaxAmount
    PROVE  /\ Valued(S \cup {o}) /\ Worth(S) \in Int
           /\ Worth(S \cup {o}) = Worth(S) + Val(o)
<1>1. PICK R : R = S \cup {o}
    OBVIOUS
<1>2. Valued(R) /\ o \in R /\ R \ {o} = S
    BY <1>1, FS_AddElement DEF Valued
<1>3. Worth(R \ {o}) \in Int /\ Worth(R) = Worth(R \ {o}) + Val(o)
    BY <1>2, WorthLess
<1> QED BY <1>1, <1>2, <1>3

\* What is taken away is worth something or nothing.
LEMMA WorthPart ==
    ASSUME NEW S, Valued(S), NEW X
    PROVE  Worth(S) \in Int /\ Worth(S \ X) \in Int /\ 0 <= Worth(S \ X) /\ Worth(S \ X) <= Worth(S)
<1> DEFINE Holds(s) == /\ Worth(s) \in Int /\ Worth(s \ X) \in Int
                       /\ 0 <= Worth(s \ X) /\ Worth(s \ X) <= Worth(s)
           G == {s \in SUBSET S : Holds(s)}
<1>1. ASSUME NEW s \in SUBSET S, \A t \in (SUBSET s) \ {s} : t \in G PROVE s \in G
  <2>1. Valued(s)
      BY FS_Subset DEF Valued
  <2>2. CASE s = {}
    <3>1. s \ X = s /\ Worth(s) = 0
      <4>1. TotalOf([p \in s |-> Val(p)], s) = 0
          BY <2>2, FS_EmptySet, TotalStep
      <4> QED BY <2>2, <4>1 DEF Worth
    <3> QED BY <3>1
  <2>3. CASE s # {}
    <3>1. PICK o \in s : TRUE
        BY <2>3
    <3>2. PICK t : t = s \ {o}
        OBVIOUS
    <3>3. t \in (SUBSET s) \ {s}
        BY <3>1, <3>2
    <3>4. PICK i \in Int, j \in Int, v \in Nat :
              i = Worth(t) /\ j = Worth(t \ X) /\ v = Val(o) /\ 0 <= j /\ j <= i
      <4>1. Holds(t)
          BY <1>1, <3>3
      <4>2. Val(o) \in Nat
          BY <3>1, Addresses DEF Valued
      <4> QED BY <4>1, <4>2
    <3>5. Worth(s) = i + v
        BY <2>1, <3>1, <3>2, <3>4, WorthLess
    <3>6. CASE o \in X
      <4>1. s \ X = t \ X
          BY <3>2, <3>6
      <4>2. i + v \in Int /\ j <= i + v
          BY <3>4
      <4> QED BY <3>4, <3>5, <4>1, <4>2
    <3>7. CASE o \notin X
      <4>1. PICK r : r = s \ X
          OBVIOUS
      <4>2. o \in r /\ r \ {o} = t \ X
          BY <3>1, <3>2, <3>7, <4>1
      <4>3. Valued(r)
          BY <2>1, <4>1, FS_Subset DEF Valued
      <4>4. Worth(r) = j + v
          BY <3>4, <4>2, <4>3, WorthLess
      <4>5. i + v \in Int /\ j + v \in Int /\ 0 <= j + v /\ j + v <= i + v
          BY <3>4
      <4> QED BY <3>5, <4>1, <4>4, <4>5
    <3> QED BY <3>6, <3>7
  <2> QED BY <2>2, <2>3
<1> HIDE DEF G
<1>2. IsFiniteSet(S)
    BY DEF Valued
<1>3. SUBSET S \subseteq G
    BY <1>1, <1>2, SubsetInduction
<1>4. S \in G
    BY <1>3
<1> QED BY <1>4 DEF G

\* Without the outputs of the block, spending or adding one of them counts
\* for nothing or less.
LEMMA WorthApart ==
    ASSUME NEW S, Valued(S), NEW o \in S, NEW X
    PROVE  /\ Worth((S \ {o}) \ X) \in Int /\ Worth(S \ X) \in Int
           /\ Worth((S \ {o}) \ X) <= Worth(S \ X)
<1>1. PICK r : r = S \ X
    OBVIOUS
<1>2. Valued(r)
    BY <1>1, FS_Subset DEF Valued
<1>3. (S \ {o}) \ X = r \ {o}
    BY <1>1
<1> QED BY <1>1, <1>2, <1>3, WorthPart

\* The chain's own total of what is to be spent.
LEMMA WorthIsTotal ==
    ASSUME OutpointsOK PROVE Chain!Total(utxo) = Worth(DOMAIN utxo)
<1>1. PICK D : D = DOMAIN utxo
    OBVIOUS
<1>2. PICK f : f = [o \in D |-> utxo[o].value]
    OBVIOUS
<1>3. PICK g : g = [o \in D |-> Val(o)]
    OBVIOUS
<1>4. Chain!Total(utxo) = TotalOf(f, D)
    BY <1>1, <1>2 DEF Chain!Total, Chain!MapThenSumSet, Chain!MapThenFoldSet, TotalOf,
                      MapThenSumSet, MapThenFoldSet
<1>5. IsFiniteSet(D) /\ \A o \in D : f[o] = g[o]
    BY <1>1, <1>2, <1>3 DEF OutpointsOK
<1>6. TotalOf(f, D) = TotalOf(g, D)
    BY <1>5, TotalSame
<1> QED BY <1>1, <1>3, <1>4, <1>6 DEF Worth

-----------------------------------------------------------------------------
(* Applying a transaction *)

\* What a turn of applyBlockToState works on.
Sound(acc) ==
    /\ acc \in [ok : BOOLEAN, utxo : {acc.utxo}, accounts : {acc.accounts}]
    /\ Valued(DOMAIN acc.utxo) /\ \A o \in DOMAIN acc.utxo : acc.utxo[o].value = Val(o)
    /\ Typed(acc.accounts)

LEMMA SpendOneEffect ==
    ASSUME NEW acc, Sound(acc), NEW o, NEW height, NEW new, new = SpendOne(acc, o, height)
    PROVE  /\ Sound(new) /\ new.accounts = acc.accounts
           /\ \/ ~new.ok /\ new.utxo = acc.utxo
              \/ acc.ok /\ o \in DOMAIN acc.utxo /\ DOMAIN new.utxo = DOMAIN acc.utxo \ {o}
<1>0. acc = [ok |-> acc.ok, utxo |-> acc.utxo, accounts |-> acc.accounts]
    BY DEF Sound
<1>1. CASE acc.ok /\ Chain!SpendableAt(acc.utxo, o, height)
  <2>1. PICK u : u = Chain!Without(acc.utxo, {o})
      OBVIOUS
  <2>2. new = [ok |-> acc.ok, utxo |-> u, accounts |-> acc.accounts]
      BY <1>0, <1>1, <2>1 DEF SpendOne
  <2>3. DOMAIN u = DOMAIN acc.utxo \ {o} /\ \A p \in DOMAIN u : u[p] = acc.utxo[p]
      BY <2>1 DEF Chain!Without
  <2>4. Valued(DOMAIN u)
      BY <2>3, FS_RemoveElement, FS_Subset DEF Valued, Sound
  <2>5. o \in DOMAIN acc.utxo
      BY <1>1 DEF Chain!SpendableAt
  <2> QED BY <1>1, <2>2, <2>3, <2>4, <2>5 DEF Sound
<1>2. CASE ~(acc.ok /\ Chain!SpendableAt(acc.utxo, o, height))
  <2>1. new = [ok |-> FALSE, utxo |-> acc.utxo, accounts |-> acc.accounts]
      BY <1>0, <1>2 DEF SpendOne
  <2> QED BY <2>1 DEF Sound
<1> QED BY <1>1, <1>2

\* What spending the first k inputs leaves: when none failed, what there was
\* is worth what there is and what was spent.
Left(acc, tx, k) ==
    /\ Sound(acc) /\ acc.accounts = accounts /\ DOMAIN acc.utxo \subseteq DOMAIN utxo
    /\ acc.ok => /\ \A j \in 1..k : Spends(tx)[j] \in Nat
                 /\ Worth(DOMAIN utxo) = Worth(DOMAIN acc.utxo) + TotalOf(Spends(tx), 1..k)

LEMMA SpendNext ==
    ASSUME NEW tx, NEW n \in Nat, DOMAIN tx.inputs = 1..n, NEW k \in 1..n,
           NEW acc, Left(acc, tx, k - 1), NEW height,
           NEW new, new = SpendOne(acc, tx.inputs[k], height)
    PROVE  Left(new, tx, k)
<1>1. PICK o, f : o = tx.inputs[k] /\ f = Spends(tx)
    OBVIOUS
<1>2. f[k] = Val(o) /\ k \in Nat
    BY <1>1 DEF Spends
<1>3. /\ Sound(new) /\ new.accounts = acc.accounts
      /\ \/ ~new.ok /\ new.utxo = acc.utxo
         \/ acc.ok /\ o \in DOMAIN acc.utxo /\ DOMAIN new.utxo = DOMAIN acc.utxo \ {o}
    BY <1>1, SpendOneEffect DEF Left
<1>4. CASE ~new.ok /\ new.utxo = acc.utxo
    BY <1>3, <1>4 DEF Left
<1>5. CASE acc.ok /\ o \in DOMAIN acc.utxo /\ DOMAIN new.utxo = DOMAIN acc.utxo \ {o}
  <2>1. PICK S, T : S = DOMAIN acc.utxo /\ T = DOMAIN new.utxo /\ T = S \ {o} /\ Valued(S)
      BY <1>5 DEF Left, Sound
  <2>2. Val(o) \in Nat
      BY <1>5, <2>1, Addresses DEF Valued
  <2>3. PICK i \in Int, j \in Int, v \in Nat : i = Worth(S) /\ j = Worth(T) /\ v = Val(o) /\ i = j + v
      BY <1>5, <2>1, <2>2, WorthLess
  <2>4. \A m \in 1..k : f[m] \in Nat
    <3>1. \A m \in 1..k : m = k \/ m \in 1..(k - 1)
        OBVIOUS
    <3> QED BY <1>1, <1>2, <1>5, <2>2, <3>1 DEF Left
  <2>5. PICK t \in Nat, u \in Nat : t = TotalOf(f, 1..(k - 1)) /\ u = TotalOf(f, 1..k) /\ u = t + v
    <3>1. k \in 1..k /\ k \in 0..k /\ k - 1 \in 0..k
        BY <1>2
    <3>2. /\ TotalOf(f, 1..k) \in Nat /\ TotalOf(f, 1..(k - 1)) \in Nat
          /\ TotalOf(f, 1..k) = TotalOf(f, 1..(k - 1)) + f[k]
        BY <1>2, <2>4, <3>1, TotalUpTo
    <3> QED BY <1>2, <2>3, <3>2
  <2>6. Worth(DOMAIN utxo) = i + t
      BY <1>1, <1>5, <2>1, <2>3, <2>5 DEF Left
  <2>7. i + t = j + u
      BY <2>3, <2>5
  <2>8. DOMAIN new.utxo \subseteq DOMAIN utxo /\ new.accounts = accounts
      BY <1>3, <1>5 DEF Left
  <2> QED BY <1>1, <1>3, <2>1, <2>3, <2>4, <2>5, <2>6, <2>7, <2>8 DEF Left
<1> QED BY <1>3, <1>4, <1>5

LEMMA SpendAll ==
    ASSUME Sound(Unspent), NEW tx, NEW n \in Nat, DOMAIN tx.inputs = 1..n, NEW height,
           NEW spent, spent = Chain!SpendInputs(tx, height)
    PROVE  Left(spent, tx, n)
<1>1. PICK acc : SpendsAlong(acc, tx, n, height) /\ acc[n] = spent
    BY Spending
<1> DEFINE Good == {k \in 0..n : Left(acc[k], tx, k)}
<1>2. 0 \in Good
  <2>1. acc[0] = Unspent /\ Unspent.accounts = accounts /\ Unspent.utxo = utxo
      BY <1>1 DEF SpendsAlong, Unspent
  <2>2. Valued(DOMAIN utxo)
      BY DEF Sound, Unspent
  <2>3. PICK i \in Int : i = Worth(DOMAIN utxo)
      BY <2>2, WorthPart
  <2>4. TotalOf(Spends(tx), 1..0) = 0
    <3>1. 0 \in Nat /\ \A j \in 1..0 : Spends(tx)[j] \in Nat
        OBVIOUS
    <3> QED BY <3>1, TotalUpTo
  <2>5. i = i + 0
      OBVIOUS
  <2>6. Left(Unspent, tx, 0)
      BY <2>1, <2>3, <2>4, <2>5 DEF Left
  <2>7. 0 \in 0..n
      OBVIOUS
  <2> QED BY <2>1, <2>6, <2>7
<1>3. ASSUME NEW k \in 1..n, k - 1 \in Good PROVE k \in Good
  <2>1. acc[k] = SpendOne(acc[k - 1], tx.inputs[k], height)
      BY <1>1 DEF SpendsAlong
  <2>2. Left(acc[k - 1], tx, k - 1)
      BY <1>3
  <2>3. Left(acc[k], tx, k)
      BY <2>1, <2>2, SpendNext
  <2> QED BY <2>3
<1>4. n \in Good
  <2> HIDE DEF Good
  <2>1. 0..n \subseteq Good
      BY <1>2, <1>3, PlaceInduction
  <2> QED BY <2>1
<1> QED BY <1>1, <1>4

LEMMA AddOneEffect ==
    ASSUME NEW acc, Sound(acc), NEW tx, NEW i, tx.outputs[i] \in Output, NEW height,
           NEW coinbase \in BOOLEAN, NEW new, new = AddOne(acc, tx, i, height, coinbase),
           NEW p, p = <<Chain!TxHash(tx), i>>
    PROVE  /\ Sound(new) /\ Val(p) = tx.outputs[i].value
           /\ \/ new.accounts = acc.accounts
              \/ new.accounts = Credited(acc.accounts, tx.outputs[i], coinbase)
           /\ \/ DOMAIN new.utxo = DOMAIN acc.utxo
              \/ p \notin DOMAIN acc.utxo /\ DOMAIN new.utxo = DOMAIN acc.utxo \cup {p}
<1>0. acc = [ok |-> acc.ok, utxo |-> acc.utxo, accounts |-> acc.accounts]
    BY DEF Sound
<1>1. Val(p) = tx.outputs[i].value
    BY DEF Val, Chain!TxHash
<1>2. Val(p) \in 0..MaxAmount
    BY <1>1 DEF Output
<1>3. CASE acc.ok /\ p \notin DOMAIN acc.utxo
  <2>1. PICK u : u = Chain!With(acc.utxo, p, CoinOf(tx.outputs[i], height, coinbase))
      OBVIOUS
  <2>2. PICK accs : accs = Credited(acc.accounts, tx.outputs[i], coinbase)
      OBVIOUS
  <2>3. new = [ok |-> TRUE, utxo |-> u, accounts |-> accs]
      BY <1>3, <2>1, <2>2 DEF AddOne
  <2>4. /\ DOMAIN u = DOMAIN acc.utxo \cup {p}
        /\ u[p].value = tx.outputs[i].value
        /\ \A o \in DOMAIN acc.utxo : u[o] = acc.utxo[o]
      BY <1>3, <2>1 DEF Chain!With, CoinOf
  <2>5. Valued(DOMAIN u)
      BY <1>2, <1>3, <2>4, WorthMore DEF Sound
  <2>6. Typed(accs)
      BY <2>2, CreditRaises DEF Sound
  <2>7. Sound(new)
      BY <1>1, <2>3, <2>4, <2>5, <2>6 DEF Sound
  <2> QED BY <1>1, <1>3, <2>2, <2>3, <2>4, <2>7
<1>4. CASE ~(acc.ok /\ p \notin DOMAIN acc.utxo)
  <2>1. new = [ok |-> FALSE, utxo |-> acc.utxo, accounts |-> acc.accounts]
      BY <1>0, <1>4 DEF AddOne
  <2>2. Sound(new)
      BY <2>1 DEF Sound
  <2> QED BY <1>1, <2>1, <2>2
<1> QED BY <1>3, <1>4

\* What an output adds, to all there is to spend and without the block's own.
LEMMA OutputWorth ==
    ASSUME NEW S, Valued(S), NEW p, Val(p) \in 0..MaxAmount, NEW T,
           T = S \/ (p \notin S /\ T = S \cup {p}), NEW X, p \in X
    PROVE  /\ Worth(S) \in Int /\ Worth(T) \in Int /\ Worth(T) <= Worth(S) + Val(p)
           /\ T \ X = S \ X
<1>1. Worth(S) \in Int
    BY WorthPart
<1>2. PICK v \in Nat : v = Val(p)
    BY Addresses
<1>3. PICK i \in Int : i = Worth(S)
    BY <1>1
<1>4. CASE T = S
  <2>1. i <= i + v
      OBVIOUS
  <2> QED BY <1>2, <1>3, <1>4, <2>1
<1>5. CASE p \notin S /\ T = S \cup {p}
  <2>1. Worth(T) = i + v
      BY <1>2, <1>3, <1>5, WorthMore
  <2>2. i + v \in Int /\ i + v <= i + v
      OBVIOUS
  <2>3. T \ X = S \ X
      BY <1>5
  <2> QED BY <1>2, <1>3, <2>1, <2>2, <2>3
<1> QED BY <1>4, <1>5

\* What adding may leave: some of what there was and of what is added.
Places(spent, tx, n) == DOMAIN spent.utxo \cup {<<Chain!TxHash(tx), i>> : i \in 1..n}
Coins(spent, tx, n, height, coinbase) ==
    {spent.utxo[o] : o \in DOMAIN spent.utxo}
        \cup {CoinOf(tx.outputs[i], height, coinbase) : i \in 1..n}
Grown(spent, tx, n, height, coinbase) ==
    [ok : BOOLEAN, accounts : [Chain!Key -> Nat \cup {Absent}],
     utxo : {spent.utxo} \cup UNION {[S -> Coins(spent, tx, n, height, coinbase)] :
                                     S \in SUBSET Places(spent, tx, n)}]

LEMMA AddGrows ==
    ASSUME NEW tx, NEW n \in Nat, NEW i \in 1..n, tx.outputs[i] \in Output, NEW height,
           NEW coinbase \in BOOLEAN, NEW spent, NEW acc \in Grown(spent, tx, n, height, coinbase)
    PROVE  AddOne(acc, tx, i, height, coinbase) \in Grown(spent, tx, n, height, coinbase)
<1>0. acc = [ok |-> acc.ok, utxo |-> acc.utxo, accounts |-> acc.accounts]
    BY DEF Grown
<1>1. PICK C, P : C = Coins(spent, tx, n, height, coinbase) /\ P = Places(spent, tx, n)
    OBVIOUS
<1>2. /\ acc.ok \in BOOLEAN /\ Typed(acc.accounts)
      /\ acc.utxo \in {spent.utxo} \cup UNION {[S -> C] : S \in SUBSET P}
    BY <1>1 DEF Grown, Typed
<1>3. DOMAIN acc.utxo \subseteq P /\ \A o \in DOMAIN acc.utxo : acc.utxo[o] \in C
    BY <1>1, <1>2 DEF Coins, Places
<1>4. PICK p, coin : p = <<Chain!TxHash(tx), i>> /\ coin = CoinOf(tx.outputs[i], height, coinbase)
    OBVIOUS
<1>5. p \in P /\ coin \in C
    BY <1>1, <1>4 DEF Coins, Places
<1>6. CASE acc.ok /\ p \notin DOMAIN acc.utxo
  <2>1. PICK u : u = Chain!With(acc.utxo, p, coin)
      OBVIOUS
  <2>2. PICK accs : accs = Credited(acc.accounts, tx.outputs[i], coinbase)
      OBVIOUS
  <2>3. AddOne(acc, tx, i, height, coinbase) = [ok |-> TRUE, utxo |-> u, accounts |-> accs]
      BY <1>4, <1>6, <2>1, <2>2 DEF AddOne
  <2>4. PICK S : S = DOMAIN acc.utxo \cup {p} /\ S \in SUBSET P
      BY <1>3, <1>5
  <2>5. u \in [S -> C]
      BY <1>3, <1>5, <2>1, <2>4 DEF Chain!With
  <2>6. Typed(accs)
      BY <1>2, <2>2, CreditRaises
  <2> QED BY <1>1, <2>3, <2>4, <2>5, <2>6 DEF Grown, Typed
<1>7. CASE ~(acc.ok /\ p \notin DOMAIN acc.utxo)
  <2>1. AddOne(acc, tx, i, height, coinbase) =
            [ok |-> FALSE, utxo |-> acc.utxo, accounts |-> acc.accounts]
      BY <1>0, <1>4, <1>7 DEF AddOne
  <2> QED BY <1>1, <1>2, <2>1 DEF Grown, Typed
<1> QED BY <1>6, <1>7

\* acc is what adding the outputs of tx one after the other leaves.
AddsAlong(acc, tx, n, height, coinbase, spent) ==
    /\ acc[0] = spent
    /\ \A i \in 1..n : acc[i] = AddOne(acc[i - 1], tx, i, height, coinbase)

LEMMA Adding ==
    ASSUME NEW tx, NEW height, NEW n \in Nat, Len(tx.outputs) = n, NEW coinbase \in BOOLEAN,
           \A i \in 1..n : tx.outputs[i] \in Output, NEW spent, Sound(spent)
    PROVE  \E acc : /\ AddsAlong(acc, tx, n, height, coinbase, spent)
                    /\ acc[n] = Chain!AddOutputs(tx, height, coinbase, spent)
<1> DEFINE Numbers == [i \in 1..Len(tx.outputs) |-> i]
           Folds(it) == it = [p \in SUBSET (DOMAIN Numbers) |-> IF p = {} THEN spent
                  ELSE AddOne(it[p \ {Max(p)}], tx, Numbers[Max(p)], height, coinbase)]
<1>0. DOMAIN Numbers = 1..n /\ \A i \in 1..n : Numbers[i] = i
    OBVIOUS
<1>1. PICK Good : Good = Grown(spent, tx, n, height, coinbase)
    OBVIOUS
<1>2. spent \in Good
    BY <1>1 DEF Grown, Sound, Typed
<1>3. PICK turn : turn = [i \in 1..n |-> [acc \in Good |-> AddOne(acc, tx, i, height, coinbase)]]
    OBVIOUS
<1>4. \A acc \in Good, i \in 1..n : turn[i][acc] = AddOne(acc, tx, i, height, coinbase)
                                    /\ turn[i][acc] \in Good
  <2> HIDE DEF AddOne
  <2>1. \A acc \in Good, i \in 1..n : AddOne(acc, tx, i, height, coinbase) \in Good
      BY <1>1, AddGrows
  <2> QED BY <1>3, <2>1
<1>5. n \in Nat /\ spent \in Good /\ \A acc \in Good, i \in 1..n : turn[i][acc] \in Good
    BY <1>2, <1>4
<1>6. PICK it : FoldsAll(it, turn, spent, n) /\ StaysGood(it, n, Good)
    BY <1>5, FoldExists
<1>7. \A p \in SUBSET (1..n) : p # {} =>
          /\ Numbers[Max(p)] = Max(p)
          /\ turn[Max(p)][it[p \ {Max(p)}]] = AddOne(it[p \ {Max(p)}], tx, Max(p), height, coinbase)
  <2> HIDE DEF AddOne, Numbers
  <2> QED BY <1>0, <1>4, <1>6, LastOfPlaces DEF StaysGood
<1>8. \E g : Folds(g)
  <2>1. Folds(it)
    <3> HIDE DEF AddOne, Numbers
    <3> QED BY <1>0, <1>6, <1>7 DEF FoldsAll
  <2> HIDE DEF Folds
  <2> QED BY <2>1
<1>9. PICK the : the = CHOOSE g : Folds(g)
    OBVIOUS
<1>10. Folds(the)
  <2> HIDE DEF Folds
  <2> QED BY <1>8, <1>9
<1>11. FoldsIn(the, turn, spent, n, Good)
  <2>1. ASSUME NEW p \in SUBSET (1..n), p # {}, the[p \ {Max(p)}] \in Good
        PROVE  the[p] = turn[Max(p)][the[p \ {Max(p)}]]
    <3> HIDE DEF AddOne, Numbers
    <3>1. Max(p) \in 1..n /\ Numbers[Max(p)] = Max(p)
        BY <1>0, <2>1, LastOfPlaces
    <3>2. the[p] = AddOne(the[p \ {Max(p)}], tx, Numbers[Max(p)], height, coinbase)
        BY <1>0, <1>10, <2>1
    <3> HIDE DEF Folds
    <3> QED BY <1>4, <2>1, <3>1, <3>2
  <2>2. the[{}] = spent
      BY <1>10
  <2> HIDE DEF Folds
  <2> QED BY <2>1, <2>2 DEF FoldsIn
<1>12. GoesThrough([k \in 0..n |-> the[1..k]], turn, spent, n, Good)
  <2> HIDE DEF Folds
  <2> QED BY <1>5, <1>11, FoldSteps
<1>13. Chain!AddOutputs(tx, height, coinbase, spent) = the[1..n]
  <2>1. Chain!AddOutputs(tx, height, coinbase, spent) = the[DOMAIN Numbers]
      BY <1>9 DEF Chain!AddOutputs, Chain!FoldLeft, Chain!MapThenFoldSet, Chain!Max, Max,
                  AddOne, CoinOf, Credited
  <2> HIDE DEF Numbers, Folds
  <2> QED BY <1>0, <2>1
<1>14. PICK acc : GoesThrough(acc, turn, spent, n, Good) /\ acc[n] = the[1..n]
  <2>1. PICK acc : acc = [k \in 0..n |-> the[1..k]]
      OBVIOUS
  <2>2. acc[n] = the[1..n]
      BY <2>1
  <2> HIDE DEF Folds
  <2> QED BY <1>12, <2>1, <2>2
<1>15. \A i \in 1..n : acc[i] = AddOne(acc[i - 1], tx, i, height, coinbase)
  <2>1. \A i \in 1..n : i - 1 \in 0..n /\ acc[i - 1] \in Good /\ acc[i] = turn[i][acc[i - 1]]
      BY <1>14 DEF GoesThrough
  <2> HIDE DEF AddOne
  <2> QED BY <1>4, <2>1
<1>16. AddsAlong(acc, tx, n, height, coinbase, spent)
    BY <1>14, <1>15 DEF GoesThrough, AddsAlong
<1> QED BY <1>13, <1>14, <1>16

\* What adding outputs worth t leaves: nothing else is worth more, and no
\* account is poorer that has room for all.
Gained(acc, spent, X, t, all, coinbase) ==
    /\ Sound(acc) /\ acc.accounts[SupplyKey] = spent.accounts[SupplyKey]
    /\ DOMAIN acc.utxo \ X = DOMAIN spent.utxo \ X
    /\ Worth(DOMAIN acc.utxo) \in Int /\ Worth(DOMAIN acc.utxo) <= Worth(DOMAIN spent.utxo) + t
    /\ \A a \in ChainAddress :
           /\ Balance(acc.accounts, a) <= Balance(spent.accounts, a) + t
           /\ coinbase \/ Balance(spent.accounts, a) + all <= MaxAmount =>
                  Balance(acc.accounts, a) >= Balance(spent.accounts, a)

LEMMA GainOne ==
    ASSUME NEW spent, Sound(spent), NEW acc, NEW X, NEW t \in Nat, NEW all \in Nat,
           NEW coinbase \in BOOLEAN, Gained(acc, spent, X, t, all, coinbase), NEW tx, NEW i,
           tx.outputs[i] \in Output, NEW u \in Nat, u = t + tx.outputs[i].value, u <= all,
           <<Chain!TxHash(tx), i>> \in X, NEW height, NEW new,
           new = AddOne(acc, tx, i, height, coinbase)
    PROVE  Gained(new, spent, X, u, all, coinbase)
<1>1. PICK p, out : p = <<Chain!TxHash(tx), i>> /\ out = tx.outputs[i]
    OBVIOUS
<1>2. PICK v \in Nat : v = out.value /\ v \in 0..MaxAmount /\ u = t + v
    BY <1>1, Addresses DEF Output
<1>3. /\ Sound(new) /\ Val(p) = v
      /\ new.accounts = acc.accounts \/ new.accounts = Credited(acc.accounts, out, coinbase)
      /\ \/ DOMAIN new.utxo = DOMAIN acc.utxo
         \/ p \notin DOMAIN acc.utxo /\ DOMAIN new.utxo = DOMAIN acc.utxo \cup {p}
    BY <1>1, <1>2, AddOneEffect DEF Gained
<1>4. PICK S, A, B : S = DOMAIN spent.utxo /\ A = DOMAIN acc.utxo /\ B = DOMAIN new.utxo
    OBVIOUS
<1>5. Valued(S) /\ Valued(A) /\ A \ X = S \ X
    BY <1>4 DEF Gained, Sound
<1>6. /\ Worth(A) \in Int /\ Worth(B) \in Int /\ Worth(B) <= Worth(A) + v
      /\ B \ X = A \ X
  <2>1. Val(p) \in 0..MaxAmount /\ (B = A \/ (p \notin A /\ B = A \cup {p})) /\ p \in X
      BY <1>1, <1>2, <1>3, <1>4
  <2>2. /\ Worth(A) \in Int /\ Worth(B) \in Int /\ Worth(B) <= Worth(A) + Val(p)
        /\ B \ X = A \ X
      BY <1>5, <2>1, OutputWorth
  <2> QED BY <1>3, <2>2
<1>7. Worth(B) <= Worth(S) + u
  <2>1. PICK x \in Int, y \in Int, z \in Int : x = Worth(S) /\ y = Worth(A) /\ z = Worth(B)
      BY <1>5, <1>6, WorthPart
  <2>2. y <= x + t /\ z <= y + v
      BY <1>4, <1>6, <2>1 DEF Gained
  <2> QED BY <1>2, <2>1, <2>2
<1>8. PICK first, mid, last :
          first = spent.accounts /\ mid = acc.accounts /\ last = new.accounts
    OBVIOUS
<1>9. Typed(first) /\ Typed(mid) /\ mid[SupplyKey] = first[SupplyKey]
    BY <1>8 DEF Gained, Sound
<1>10. /\ Typed(last) /\ last[SupplyKey] = mid[SupplyKey]
       /\ \A a \in ChainAddress :
              /\ Balance(last, a) <= Balance(mid, a) + v
              /\ coinbase \/ Balance(mid, a) + v <= MaxAmount => Balance(last, a) >= Balance(mid, a)
  <2>1. out \in Output /\ (last = mid \/ last = Credited(mid, out, coinbase))
      BY <1>1, <1>3, <1>8
  <2> QED BY <1>2, <1>9, <2>1, EitherRaises
<1>11. ASSUME NEW a \in ChainAddress
       PROVE  /\ Balance(last, a) <= Balance(first, a) + u
              /\ coinbase \/ Balance(first, a) + all <= MaxAmount =>
                     Balance(last, a) >= Balance(first, a)
  <2>1. PICK x \in Nat, y \in Nat, z \in Nat :
            x = Balance(first, a) /\ y = Balance(mid, a) /\ z = Balance(last, a)
    <3>1. a \in Chain!Key
        BY Addresses
    <3> QED BY <1>9, <1>10, <3>1, BalanceNat
  <2>2. y <= x + t /\ (coinbase \/ x + all <= MaxAmount => y >= x)
      BY <1>8, <2>1 DEF Gained
  <2>3. z <= y + v /\ (coinbase \/ y + v <= MaxAmount => z >= y)
      BY <1>10, <2>1
  <2>4. z <= x + u
      BY <1>2, <2>1, <2>2, <2>3
  <2>5. x + all <= MaxAmount => y + v <= MaxAmount
      BY <1>2, <2>1, <2>2, Addresses
  <2>6. coinbase \/ x + all <= MaxAmount => z >= y /\ y >= x
      BY <2>2, <2>3, <2>5
  <2>7. z >= y /\ y >= x => z >= x
      BY <2>1
  <2> QED BY <2>1, <2>4, <2>6, <2>7
<1>12. Gained(new, spent, X, u, all, coinbase)
  <2>1. new.accounts[SupplyKey] = spent.accounts[SupplyKey]
      BY <1>8, <1>9, <1>10
  <2>2. DOMAIN new.utxo \ X = DOMAIN spent.utxo \ X
      BY <1>4, <1>5, <1>6
  <2>3. Worth(DOMAIN new.utxo) \in Int /\ Worth(DOMAIN new.utxo) <= Worth(DOMAIN spent.utxo) + u
      BY <1>4, <1>6, <1>7
  <2>4. \A a \in ChainAddress :
            /\ Balance(new.accounts, a) <= Balance(spent.accounts, a) + u
            /\ coinbase \/ Balance(spent.accounts, a) + all <= MaxAmount =>
                   Balance(new.accounts, a) >= Balance(spent.accounts, a)
      BY <1>8, <1>11
  <2> QED BY <1>3, <2>1, <2>2, <2>3, <2>4 DEF Gained
<1> QED BY <1>12

\* What a list of outputs is worth, one by one.
LEMMA OutputValues ==
    ASSUME NEW outputs, Listed(outputs), \A i \in DOMAIN outputs : outputs[i] \in Output,
           NEW vals, vals = Chain!Values(outputs)
    PROVE  /\ Listed(vals) /\ DOMAIN vals = DOMAIN outputs
           /\ \A i \in DOMAIN outputs : vals[i] \in Nat /\ vals[i] = outputs[i].value
<1>1. PICK n \in Nat : n = Len(outputs) /\ DOMAIN outputs = 1..n
    BY DEF Listed
<1>2. vals = [i \in 1..n |-> outputs[i].value]
    BY <1>1 DEF Chain!Values
<1>3. Len(vals) = n /\ DOMAIN vals = 1..n
    BY <1>2
<1>4. \A i \in 1..n : vals[i] \in Nat /\ vals[i] = outputs[i].value
    BY <1>1, <1>2, Addresses DEF Output
<1> QED BY <1>1, <1>3, <1>4 DEF Listed

LEMMA AddAll ==
    ASSUME NEW spent, Sound(spent), NEW tx, PaysOn(tx), NEW height, NEW coinbase \in BOOLEAN,
           NEW X, Chain!Outpoints(tx) \subseteq X,
           NEW done, done = Chain!AddOutputs(tx, height, coinbase, spent),
           NEW brought, brought = TotalOf(Chain!Values(tx.outputs), DOMAIN tx.outputs)
    PROVE  brought \in Nat /\ Gained(done, spent, X, brought, brought, coinbase)
<1>1. PICK n \in Nat : n = Len(tx.outputs) /\ DOMAIN tx.outputs = 1..n
    BY DEF PaysOn, Listed
<1>2. PICK vals : vals = Chain!Values(tx.outputs)
    OBVIOUS
<1>3. \A i \in 1..n : vals[i] \in Nat /\ vals[i] = tx.outputs[i].value
    BY <1>1, <1>2, OutputValues DEF PaysOn
<1>4. PICK t : t = [k \in 0..n |-> TotalOf(vals, 1..k)]
    OBVIOUS
<1>5. /\ t[0] = 0 /\ t[n] = brought
      /\ \A k \in 0..n : t[k] \in Nat /\ t[k] <= t[n]
      /\ \A k \in 1..n : t[k] = t[k - 1] + vals[k]
  <2>1. /\ TotalOf(vals, 1..0) = 0
        /\ \A k \in 0..n : TotalOf(vals, 1..k) \in Nat /\ TotalOf(vals, 1..k) <= TotalOf(vals, 1..n)
        /\ \A k \in 1..n : TotalOf(vals, 1..k) = TotalOf(vals, 1..(k - 1)) + vals[k]
      BY <1>3, TotalUpTo
  <2>2. 0 \in 0..n /\ n \in 0..n /\ \A k \in 1..n : k \in 0..n /\ k - 1 \in 0..n
      OBVIOUS
  <2> QED BY <1>1, <1>2, <1>4, <2>1, <2>2
<1>6. brought \in Nat
  <2>1. n \in 0..n
      OBVIOUS
  <2> QED BY <1>5, <2>1
<1>7. PICK acc : AddsAlong(acc, tx, n, height, coinbase, spent) /\ acc[n] = done
  <2>1. \A i \in 1..n : tx.outputs[i] \in Output
      BY <1>1 DEF PaysOn
  <2> QED BY <1>1, <2>1, Adding
<1> DEFINE Good == {k \in 0..n : Gained(acc[k], spent, X, t[k], brought, coinbase)}
<1>8. 0 \in Good
  <2>1. acc[0] = spent /\ 0 \in 0..n /\ t[0] = 0
      BY <1>5, <1>7 DEF AddsAlong
  <2>2. PICK w \in Int : w = Worth(DOMAIN spent.utxo)
    <3>1. Valued(DOMAIN spent.utxo)
        BY DEF Sound
    <3> QED BY <3>1, WorthPart
  <2>3. PICK accs : accs = spent.accounts /\ Typed(accs)
      BY DEF Sound
  <2>4. \A a \in ChainAddress : Balance(accs, a) \in Nat
      BY <2>3, Addresses, BalanceNat
  <2>5. \A b \in Nat : b <= b + 0 /\ b >= b
      OBVIOUS
  <2>6. w <= w + 0
      OBVIOUS
  <2>7. Gained(spent, spent, X, 0, brought, coinbase)
      BY <2>2, <2>3, <2>4, <2>5, <2>6 DEF Gained
  <2> QED BY <2>1, <2>7
<1>9. ASSUME NEW k \in 1..n, k - 1 \in Good PROVE k \in Good
  <2>1. acc[k] = AddOne(acc[k - 1], tx, k, height, coinbase)
      BY <1>7 DEF AddsAlong
  <2>2. Gained(acc[k - 1], spent, X, t[k - 1], brought, coinbase)
      BY <1>9
  <2>3. tx.outputs[k] \in Output /\ <<Chain!TxHash(tx), k>> \in X
    <3>1. k \in DOMAIN tx.outputs
        BY <1>1
    <3> QED BY <3>1 DEF PaysOn, Chain!Outpoints
  <2>4. /\ t[k - 1] \in Nat /\ t[k] \in Nat /\ t[k] = t[k - 1] + tx.outputs[k].value
        /\ t[k] <= brought
    <3>1. k \in 0..n /\ k - 1 \in 0..n
        OBVIOUS
    <3> QED BY <1>3, <1>5, <3>1
  <2>5. Gained(acc[k], spent, X, t[k], brought, coinbase)
      BY <1>6, <2>1, <2>2, <2>3, <2>4, GainOne
  <2> QED BY <2>5
<1>10. n \in Good
  <2> HIDE DEF Good
  <2>1. 0..n \subseteq Good
      BY <1>8, <1>9, PlaceInduction
  <2> QED BY <2>1
<1> QED BY <1>5, <1>6, <1>7, <1>10

\* A turn's effect: what there is to spend is worth at most so much more, and
\* no more without the block's outputs.
Turns(done, more, X) ==
    /\ Sound(done) /\ done.accounts[SupplyKey] = accounts[SupplyKey]
    /\ Worth(DOMAIN utxo) \in Int /\ Worth(DOMAIN done.utxo) \in Int
    /\ Worth(DOMAIN done.utxo) <= Worth(DOMAIN utxo) + more
    /\ Worth(DOMAIN utxo \ X) \in Int /\ Worth(DOMAIN done.utxo \ X) \in Int
    /\ Worth(DOMAIN done.utxo \ X) <= Worth(DOMAIN utxo \ X)

\* Outputs worth no more than what they may bring, or than that and what is
\* spent on them.
PaidFor(tx, brought, more) ==
    \/ brought <= more
    \/ brought <= TotalOf(Spends(tx), DOMAIN tx.inputs) + more

LEMMA OneTurn ==
    ASSUME Sound(Unspent), NEW tx, PaysOn(tx), NEW height, NEW X, Chain!Outpoints(tx) \subseteq X,
           NEW coinbase \in BOOLEAN, NEW more \in Nat,
           NEW brought, brought = TotalOf(Chain!Values(tx.outputs), DOMAIN tx.outputs),
           PaidFor(tx, brought, more),
           NEW spent, spent = Chain!SpendInputs(tx, height),
           NEW done, done = IF spent.ok THEN Chain!AddOutputs(tx, height, coinbase, spent) ELSE spent
    PROVE  /\ Turns(done, more, X)
           /\ \A a \in ChainAddress :
                  coinbase \/ Balance(accounts, a) + brought <= MaxAmount =>
                      Balance(done.accounts, a) >= Balance(accounts, a)
<1>1. PICK n \in Nat : DOMAIN tx.inputs = 1..n
    BY DEF PaysOn, Listed
<1>2. Left(spent, tx, n)
    BY <1>1, SpendAll
<1>3. PICK S, T : S = DOMAIN utxo /\ T = DOMAIN spent.utxo /\ Valued(S) /\ Valued(T) /\ T \subseteq S
    BY <1>2 DEF Left, Sound, Unspent
<1>4. PICK i \in Int, j \in Int, r \in Int, q \in Int :
          i = Worth(S) /\ j = Worth(T) /\ r = Worth(S \ X) /\ q = Worth(T \ X) /\ j <= i /\ q <= r
  <2>1. Worth(S) \in Int /\ Worth(S \ X) \in Int /\ Worth(T) \in Int /\ Worth(T \ X) \in Int
      BY <1>3, WorthPart
  <2>2. Worth(T) <= Worth(S)
    <3>1. T = S \ (S \ T)
        BY <1>3
    <3> QED BY <1>3, <3>1, WorthPart
  <2>3. Worth(T \ X) <= Worth(S \ X)
    <3>1. PICK R : R = S \ X
        OBVIOUS
    <3>2. T \ X = R \ (S \ T) /\ Valued(R)
        BY <1>3, <3>1, FS_Subset DEF Valued
    <3> QED BY <3>1, <3>2, WorthPart
  <2> QED BY <2>1, <2>2, <2>3
<1>5. Sound(spent) /\ spent.accounts = accounts /\ Typed(accounts)
    BY <1>2 DEF Left, Sound
<1>6. CASE ~spent.ok
  <2>1. done = spent
      BY <1>6
  <2>2. j <= i + more
      BY <1>4
  <2>3. Turns(done, more, X)
      BY <1>3, <1>4, <1>5, <2>1, <2>2 DEF Turns
  <2>4. \A a \in ChainAddress : Balance(accounts, a) \in Nat
      BY <1>5, Addresses, BalanceNat
  <2>5. \A b \in Nat : b >= b
      OBVIOUS
  <2> QED BY <1>5, <2>1, <2>3, <2>4, <2>5
<1>7. CASE spent.ok
  <2>1. brought \in Nat /\ Gained(done, spent, X, brought, brought, coinbase)
    <3>1. done = Chain!AddOutputs(tx, height, coinbase, spent)
        BY <1>7
    <3> QED BY <1>5, <3>1, AddAll
  <2>2. PICK k \in Int, B \in {DOMAIN done.utxo} : k = Worth(B) /\ k <= j + brought /\ B \ X = T \ X
      BY <1>3, <1>4, <2>1 DEF Gained
  <2>3. PICK c \in Nat : c = TotalOf(Spends(tx), DOMAIN tx.inputs) /\ i = j + c
    <3>1. \A m \in 1..n : Spends(tx)[m] \in Nat
        BY <1>2, <1>7 DEF Left
    <3>2. n \in 0..n
        OBVIOUS
    <3>3. TotalOf(Spends(tx), 1..n) \in Nat
        BY <3>1, <3>2, TotalUpTo
    <3> QED BY <1>1, <1>2, <1>3, <1>4, <1>7, <3>3 DEF Left
  <2>4. k <= i + more
    <3>1. brought <= more \/ brought <= c + more
        BY <2>3 DEF PaidFor
    <3> QED BY <2>1, <2>2, <2>3, <3>1
  <2>5. Turns(done, more, X)
    <3>1. Sound(done) /\ done.accounts[SupplyKey] = accounts[SupplyKey]
        BY <1>5, <2>1 DEF Gained
    <3> QED BY <1>3, <1>4, <2>2, <2>4, <3>1 DEF Turns
  <2>6. \A a \in ChainAddress :
            coinbase \/ Balance(accounts, a) + brought <= MaxAmount =>
                Balance(done.accounts, a) >= Balance(accounts, a)
      BY <1>5, <2>1 DEF Gained
  <2> QED BY <2>5, <2>6
<1> QED BY <1>6, <1>7

\* What a transaction's outputs are worth: what they sum to and what is lost.
LEMMA ClaimsAndHidden ==
    ASSUME NEW tx, PaysOn(tx)
    PROVE  /\ Claims(tx) \in Nat /\ Chain!Hidden(tx) \in Nat
           /\ Chain!ExactSum(Chain!Values(tx.outputs)) = Claims(tx) + Chain!Hidden(tx)
           /\ Chain!ExactSum(Chain!Values(tx.outputs)) =
                  TotalOf(Chain!Values(tx.outputs), DOMAIN tx.outputs)
<1>1. PICK vals : vals = Chain!Values(tx.outputs)
    OBVIOUS
<1>2. Listed(vals) /\ DOMAIN vals = DOMAIN tx.outputs /\ \A i \in DOMAIN vals : vals[i] \in Nat
    BY <1>1, OutputValues DEF PaysOn
<1>3. PICK e \in Nat, c \in Nat : e = Chain!ExactSum(vals) /\ c = Chain!SumOf(vals) /\ c <= e
    BY <1>2, Sums, Addresses
<1>4. e = TotalOf(vals, DOMAIN vals)
    BY <1>2, <1>3, Sums
<1>5. Claims(tx) = c /\ Chain!Hidden(tx) = e - c
    BY <1>1, <1>3 DEF Claims, Chain!Hidden
<1>6. e - c \in Nat /\ e = c + (e - c)
    BY <1>3
<1> QED BY <1>1, <1>2, <1>3, <1>4, <1>5, <1>6

\* What the block brings, one transaction after the other.
LEMMA BroughtSteps ==
    ASSUME NEW reward \in Nat, reward = block.header.reward, Listed(block.txs),
           \A i \in DOMAIN block.txs : PaysOn(block.txs[i]),
           NEW n \in Nat, n = Len(block.txs), NEW lost, lost = Chain!HiddenIn(block.txs)
    PROVE  /\ Brought(0) = 0 /\ lost \in Nat /\ DOMAIN block.txs = 1..n
           /\ \A k \in 0..n : Brought(k) \in Nat /\ Brought(k) <= reward + lost
           /\ \A k \in 1..n :
                  /\ Chain!Hidden(block.txs[k]) \in Nat
                  /\ Brought(k) = Brought(k - 1)
                         + ((IF k = 1 THEN reward ELSE 0) + Chain!Hidden(block.txs[k]))
<1>1. DOMAIN block.txs = 1..n
    BY DEF Listed
<1>2. PICK f : f = Losses
    OBVIOUS
<1>3. \A i \in 1..n : f[i] = Chain!Hidden(block.txs[i]) /\ f[i] \in Nat
    BY <1>1, <1>2, ClaimsAndHidden DEF Losses
<1>4. Listed(f) /\ DOMAIN f = 1..n
  <2>1. f = [i \in 1..n |-> Chain!Hidden(block.txs[i])]
      BY <1>1, <1>2 DEF Losses
  <2>2. Len(f) = n /\ DOMAIN f = 1..n
      BY <2>1
  <2> QED BY <2>2 DEF Listed
<1>5. lost = TotalOf(f, 1..n)
  <2>1. lost = Chain!ExactSum(f)
      BY <1>2 DEF Chain!HiddenIn, Losses
  <2> QED BY <1>3, <1>4, <2>1, Sums
<1>6. PICK t : t = [k \in 0..n |-> TotalOf(f, 1..k)]
    OBVIOUS
<1>7. /\ t[0] = 0 /\ t[n] = lost
      /\ \A k \in 0..n : t[k] \in Nat /\ t[k] <= lost
      /\ \A k \in 1..n : t[k] = t[k - 1] + f[k]
  <2>1. /\ TotalOf(f, 1..0) = 0
        /\ \A k \in 0..n : TotalOf(f, 1..k) \in Nat /\ TotalOf(f, 1..k) <= TotalOf(f, 1..n)
        /\ \A k \in 1..n : TotalOf(f, 1..k) = TotalOf(f, 1..(k - 1)) + f[k]
      BY <1>3, TotalUpTo
  <2>2. 0 \in 0..n /\ n \in 0..n /\ \A k \in 1..n : k \in 0..n /\ k - 1 \in 0..n
      OBVIOUS
  <2> QED BY <1>5, <1>6, <2>1, <2>2
<1>8. lost \in Nat
  <2>1. n \in 0..n
      OBVIOUS
  <2> QED BY <1>7, <2>1
<1>9. \A k \in 0..n : Brought(k) = (IF k = 0 THEN 0 ELSE reward) + t[k]
    BY <1>2, <1>6 DEF Brought
<1>10. Brought(0) = 0
  <2>1. 0 \in 0..n
      OBVIOUS
  <2> QED BY <1>7, <1>9, <2>1
<1>11. ASSUME NEW k \in 0..n PROVE Brought(k) \in Nat /\ Brought(k) <= reward + lost
  <2>1. PICK a \in Nat, some \in {0, reward} : Brought(k) = some + a /\ a <= lost
      BY <1>7, <1>9
  <2>2. some + a \in Nat /\ some + a <= reward + lost
      BY <1>8, <2>1
  <2> QED BY <2>1, <2>2
<1>12. ASSUME NEW k \in 1..n
       PROVE  Brought(k) = Brought(k - 1)
                  + ((IF k = 1 THEN reward ELSE 0) + Chain!Hidden(block.txs[k]))
  <2>1. k \in 0..n /\ k - 1 \in 0..n /\ k # 0 /\ (k - 1 = 0) = (k = 1)
      OBVIOUS
  <2>2. PICK a \in Nat, b \in Nat, h \in Nat :
            /\ a = t[k] /\ b = t[k - 1] /\ h = Chain!Hidden(block.txs[k]) /\ a = b + h
      BY <1>3, <1>7, <2>1
  <2>3. PICK first \in Nat, later \in Nat :
            /\ first = (IF k = 1 THEN reward ELSE 0) /\ later = (IF k = 1 THEN 0 ELSE reward)
            /\ first + later = reward
      OBVIOUS
  <2>4. Brought(k) = reward + a /\ Brought(k - 1) = later + b
      BY <1>9, <2>1, <2>2, <2>3
  <2>5. reward + a = (later + b) + (first + h)
    <3>1. a = b + h /\ first + later = reward
        BY <2>2, <2>3
    <3> QED BY <3>1
  <2> QED BY <2>2, <2>3, <2>4, <2>5
<1> QED BY <1>1, <1>3, <1>8, <1>10, <1>11, <1>12

\* The first transaction brings at most the reward, and each what its sum
\* loses.
Turned(done, more) ==
    /\ Turns(done, more, BlockOutpoints)
    /\ utxo' = done.utxo /\ accounts' = done.accounts
    /\ more \in Nat /\ Brought(block.next - 1) \in Nat
    /\ Brought(block.next) = Brought(block.next - 1) + more
    /\ Chain!HiddenIn(block.txs) \in Nat /\ block.header.reward \in Nat
    /\ Brought(block.next) <= block.header.reward + Chain!HiddenIn(block.txs)

LEMMA TurnEffect ==
    ASSUME IssueInv, Chain!ApplyTransaction
    PROVE  (\E done, more : Turned(done, more)) /\ Chain!NoneLowered
<1>1. pc = "apply" /\ InBlock /\ block.next <= Len(block.txs)
    BY DEF Chain!ApplyTransaction, InBlock
<1>2. PICK n \in Nat, k \in Nat :
          /\ n = Len(block.txs) /\ k = block.next /\ k \in 1..n
          /\ DOMAIN block.txs = 1..n
    BY <1>1 DEF IssueInv, BlockOK, Listed
<1>3. PICK tx : tx = block.txs[k] /\ PaysOn(tx)
    BY <1>1, <1>2 DEF IssueInv, BlockOK
<1>4. PICK coinbase \in BOOLEAN, height \in {Len(chain)} : coinbase = (block.next = 1)
    OBVIOUS
<1>5. PICK spent : spent = Chain!SpendInputs(tx, height)
    OBVIOUS
<1>6. PICK done : done = IF spent.ok THEN Chain!AddOutputs(tx, height, coinbase, spent) ELSE spent
    OBVIOUS
<1>7. utxo' = done.utxo /\ accounts' = done.accounts
    BY <1>2, <1>3, <1>4, <1>5, <1>6 DEF Chain!ApplyTransaction
<1>8. Chain!Outpoints(tx) \subseteq BlockOutpoints
    BY <1>2, <1>3 DEF BlockOutpoints, Chain!Range
<1>9. Sound(Unspent)
    BY DEF Sound, Unspent, Valued, Typed, IssueInv, OutpointsOK, AccountsOK
<1>10. PICK reward \in Nat : reward = block.header.reward
  <2>1. supply \in Int /\ MaxSupply \in Int
      BY Addresses DEF IssueInv, AccountsOK
  <2> QED BY <1>1, <2>1 DEF IssueInv, BlockOK
<1>11. PICK c \in Nat, h \in Nat, brought \in Nat :
           /\ c = Claims(tx) /\ h = Chain!Hidden(tx) /\ brought = c + h
           /\ brought = Chain!ExactSum(Chain!Values(tx.outputs))
           /\ brought = TotalOf(Chain!Values(tx.outputs), DOMAIN tx.outputs)
    BY <1>3, ClaimsAndHidden
<1>12. PICK more \in Nat : more = (IF k = 1 THEN reward ELSE 0) + h
    OBVIOUS
<1>13. PaidFor(tx, brought, more)
  <2>1. CASE k = 1
    <3>1. c <= reward
        BY <1>1, <1>2, <1>3, <1>10, <1>11, <2>1 DEF IssueInv, BlockOK
    <3>2. brought <= more
        BY <1>10, <1>11, <1>12, <2>1, <3>1
    <3> QED BY <3>2 DEF PaidFor
  <2>2. CASE k # 1
    <3>1. /\ \A j \in DOMAIN tx.inputs : Spends(tx)[j] \in Nat
          /\ c <= TotalOf(Spends(tx), DOMAIN tx.inputs)
        BY <1>1, <1>2, <1>3, <1>11, <2>2 DEF IssueInv, BlockOK
    <3>2. PICK m \in Nat : DOMAIN tx.inputs = 1..m /\ m \in 0..m
        BY <1>3 DEF PaysOn, Listed
    <3>3. PICK s \in Nat : s = TotalOf(Spends(tx), DOMAIN tx.inputs)
        BY <3>1, <3>2, TotalUpTo
    <3>4. brought <= s + more
        BY <1>11, <1>12, <2>2, <3>1, <3>3
    <3> QED BY <3>3, <3>4 DEF PaidFor
  <2> QED BY <2>1, <2>2
<1>14. /\ Turns(done, more, BlockOutpoints)
       /\ \A a \in ChainAddress :
              coinbase \/ Balance(accounts, a) + brought <= MaxAmount =>
                  Balance(done.accounts, a) >= Balance(accounts, a)
  <2>1. PaysOn(tx) /\ brought = TotalOf(Chain!Values(tx.outputs), DOMAIN tx.outputs)
      BY <1>3, <1>11
  <2> QED BY <1>5, <1>6, <1>8, <1>9, <1>13, <2>1, OneTurn
<1>15. Chain!NoneLowered
  <2>1. Chain!Paid = brought
      BY <1>1, <1>2, <1>3, <1>11 DEF Chain!Paid, Chain!Paying
  <2> QED BY <1>7, <1>14, <2>1 DEF Chain!NoneLowered, Balance
<1>16. Turned(done, more)
  <2>1. PICK lost : lost = Chain!HiddenIn(block.txs)
      OBVIOUS
  <2>2. Listed(block.txs) /\ \A i \in DOMAIN block.txs : PaysOn(block.txs[i])
      BY <1>1 DEF IssueInv, BlockOK
  <2>3. /\ lost \in Nat
        /\ \A m \in 0..n : Brought(m) \in Nat /\ Brought(m) <= reward + lost
        /\ \A m \in 1..n : Brought(m) = Brought(m - 1)
               + ((IF m = 1 THEN reward ELSE 0) + Chain!Hidden(block.txs[m]))
      BY <1>2, <1>10, <2>1, <2>2, BroughtSteps
  <2>4. k \in 0..n /\ k - 1 \in 0..n
      BY <1>2
  <2>5. Brought(k) = Brought(k - 1) + more
      BY <1>2, <1>3, <1>11, <1>12, <2>3
  <2> QED BY <1>2, <1>7, <1>10, <1>14, <2>1, <2>3, <2>4, <2>5 DEF Turned
<1> QED BY <1>15, <1>16

LEMMA TurnKept ==
    ASSUME IssueInv, Chain!ApplyTransaction PROVE IssueInv'
<1>0. PICK done, more : Turned(done, more)
    BY TurnEffect
<1>1. /\ Turns(done, more, BlockOutpoints) /\ utxo' = done.utxo /\ accounts' = done.accounts
    BY <1>0 DEF Turned
<1>2. /\ pc = "apply" /\ pc' \in {"apply", "rollback"} /\ block.next <= Len(block.txs)
      /\ block'.header = block.header /\ block'.txs = block.txs
      /\ block'.next \in {block.next, block.next + 1}
      /\ pc' = "apply" => block'.next = block.next + 1
      /\ UNCHANGED <<supply, baseFee, blockDB, hidden>>
    BY DEF Chain!ApplyTransaction, Chain!history
<1>3. /\ InBlock /\ InBlock'
      /\ block.next \in 1..(Len(block.txs) + 1) /\ block'.next \in 1..(Len(block.txs) + 1)
      /\ Len(block.txs) \in Nat
    BY <1>2 DEF IssueInv, BlockOK, InBlock, Listed
<1>4. OutpointsOK'
    BY <1>1, <1>2 DEF Turns, Sound, Valued, OutpointsOK
<1>5. AccountsOK'
    BY <1>1, <1>2 DEF Turns, Sound, Typed, IssueInv, AccountsOK
<1>6. BlockOK'
    BY <1>2, <1>3 DEF IssueInv, BlockOK
<1>7. Backed'
  <2>1. PICK R, L, S, T, X : /\ S = DOMAIN utxo /\ T = DOMAIN utxo' /\ X = BlockOutpoints
                             /\ R = block.header.reward /\ L = Chain!HiddenIn(block.txs)
      OBVIOUS
  <2>2. /\ BlockOutpoints' = X /\ Chain!HiddenIn(block'.txs) = L
        /\ block'.header.reward = R
      BY <1>2, <2>1 DEF BlockOutpoints
  <2>3. PICK a, b, m : /\ a = Brought(block.next - 1) /\ b = Brought(block.next) /\ m = more
      OBVIOUS
  <2>4. ASSUME pc' = "apply" PROVE Brought(block.next - 1)' = b
    <3>1. block'.next - 1 = block.next
        BY <1>2, <1>3, <2>4
    <3> QED BY <1>2, <2>3, <3>1 DEF Brought, Losses
  <2>5. /\ supply \in Nat /\ hidden \in Nat /\ R \in Nat /\ L \in Nat
        /\ a \in Nat /\ m \in Nat /\ b = a + m /\ b <= R + L
    <3>1. supply \in Nat
        BY Addresses DEF IssueInv, AccountsOK
    <3> QED BY <1>0, <2>1, <2>3, <3>1 DEF Turned, IssueInv, AccountsOK
  <2>6. PICK i \in Int, j \in Int, k \in Int, l \in Int :
            /\ i = Worth(S) /\ j = Worth(T) /\ k = Worth(S \ X) /\ l = Worth(T \ X)
            /\ j <= i + m /\ l <= k
      BY <1>1, <2>1, <2>3 DEF Turns
  <2>7. i <= supply + hidden + a /\ k <= supply + hidden
      BY <1>2, <1>3, <2>1, <2>3, <2>6 DEF IssueInv, Backed
  <2>8. j <= supply + hidden + b /\ j <= supply + hidden + R + L /\ l <= supply + hidden
      BY <2>5, <2>6, <2>7
  <2>9. /\ InBlock' => Worth(T \ X) <= supply + hidden
        /\ pc' = "apply" => Worth(T) <= supply + hidden + b
        /\ pc' = "rollback" => Worth(T) <= supply + hidden + R + L
      BY <2>6, <2>8
  <2>10. UNCHANGED <<supply, hidden>> /\ T = DOMAIN utxo' /\ InBlock'
      BY <1>2, <1>3, <2>1
  <2>11. pc' = "apply" => Worth(DOMAIN utxo') <= supply' + hidden' + Brought(block.next - 1)'
      BY <2>4, <2>9, <2>10
  <2>12. pc' = "rollback" => Worth(DOMAIN utxo') <= supply' + hidden' + block'.header.reward
                                                    + Chain!HiddenIn(block'.txs)
      BY <2>2, <2>9, <2>10
  <2>13. Worth(DOMAIN utxo' \ BlockOutpoints') <= supply' + hidden'
      BY <2>2, <2>9, <2>10
  <2> QED BY <2>10, <2>11, <2>12, <2>13 DEF Backed
<1> QED BY <1>2, <1>4, <1>5, <1>6, <1>7 DEF IssueInv

-----------------------------------------------------------------------------
(* Rewards *)

LEMMA LeastPlace ==
    ASSUME NEW S \in SUBSET Nat, S # {}
    PROVE  Chain!Min(S) \in S /\ \A i \in S : Chain!Min(S) <= i
<1> DEFINE Least(x) == x \in S /\ \A y \in S : x <= y
           Q == {n \in Nat : (\E m \in S : m <= n) => \E x : Least(x)}
<1>1. 0 \in Q
  <2>1. ASSUME NEW m \in S, m <= 0 PROVE Least(m)
      BY <2>1
  <2> QED BY <2>1
<1>2. ASSUME NEW n \in Q PROVE n + 1 \in Q
  <2> SUFFICES ASSUME NEW m \in S, m <= n + 1 PROVE \E x : Least(x)
      OBVIOUS
  <2>1. CASE \E k \in S : k <= n
      BY <2>1
  <2>2. CASE ~\E k \in S : k <= n
    <3>1. \A k \in S : m <= k
        BY <2>2
    <3> QED BY <3>1
  <2> QED BY <2>1, <2>2
<1>3. Q = Nat
  <2>1. Q \subseteq Nat
      OBVIOUS
  <2> HIDE DEF Q
  <2> QED BY <1>1, <1>2, <2>1, NatSet
<1>4. \E x : Least(x)
  <2>1. PICK m \in S : TRUE
      OBVIOUS
  <2>2. m \in Q /\ m <= m
      BY <1>3
  <2> QED BY <2>2
<1>5. Chain!Min(S) = CHOOSE x : Least(x)
    BY DEF Chain!Min
<1>6. Least(CHOOSE x : Least(x))
  <2> HIDE DEF Least
  <2> QED BY <1>4
<1> QED BY <1>5, <1>6

\* The reward of a time: the first of the schedule whose threshold is ahead,
\* or the last.
Due(i) == Schedule[i][2]
Ahead(elapsed) == {i \in DOMAIN Schedule : elapsed < Schedule[i][1]}
DuePlace(elapsed) == IF Ahead(elapsed) = {} THEN Len(Schedule) ELSE Chain!Min(Ahead(elapsed))

LEMMA Scheduled ==
    /\ Len(Schedule) \in Nat /\ DOMAIN Schedule = 1..Len(Schedule)
    /\ Schedule # <<>> => Len(Schedule) \in DOMAIN Schedule
    /\ \A i \in DOMAIN Schedule : Schedule[i][1] \in Nat /\ Due(i) \in Nat
    /\ \A i, j \in DOMAIN Schedule : i < j /\ Due(i) = 0 => Due(j) = 0
<1>1. /\ Schedule \in Seq(Nat \X Nat)
      /\ \A i, j \in DOMAIN Schedule : i < j /\ Schedule[i][2] = 0 => Schedule[j][2] = 0
    BY ChainConfigured DEF Chain!ChainAssumption
<1>2. Len(Schedule) \in Nat /\ DOMAIN Schedule = 1..Len(Schedule)
    BY <1>1
<1>3. \A i \in DOMAIN Schedule : Schedule[i] \in Nat \X Nat
    BY <1>1
<1>4. Schedule # <<>> => Len(Schedule) \in DOMAIN Schedule
    BY <1>1
<1> QED BY <1>1, <1>2, <1>3, <1>4 DEF Due

\* Time goes on, and a place further on is due.
LEMMA DueLater ==
    ASSUME Schedule # <<>>, NEW d \in Int, NEW e \in Int, d <= e
    PROVE  /\ DuePlace(d) \in DOMAIN Schedule /\ DuePlace(e) \in DOMAIN Schedule
           /\ DuePlace(d) <= DuePlace(e)
<1>1. PICK n \in Nat : n = Len(Schedule) /\ n \in DOMAIN Schedule /\ DOMAIN Schedule = 1..n
    BY Scheduled
<1>2. PICK A, B : A = Ahead(d) /\ B = Ahead(e)
    OBVIOUS
<1>3. A \in SUBSET (1..n) /\ B \in SUBSET (1..n) /\ B \subseteq A
  <2>1. ASSUME NEW i \in B PROVE i \in A
    <3>1. i \in DOMAIN Schedule /\ e < Schedule[i][1] /\ Schedule[i][1] \in Nat
        BY <1>2, Scheduled DEF Ahead
    <3>2. d < Schedule[i][1]
        BY <3>1
    <3> QED BY <1>2, <3>1, <3>2 DEF Ahead
  <2> QED BY <1>1, <1>2, <2>1 DEF Ahead
<1>4. A \in SUBSET Nat /\ B \in SUBSET Nat
    BY <1>3
<1>5. A # {} => Chain!Min(A) \in 1..n /\ \A i \in A : Chain!Min(A) <= i
    BY <1>3, <1>4, LeastPlace
<1>6. B # {} => Chain!Min(B) \in 1..n /\ Chain!Min(B) \in A
    BY <1>3, <1>4, LeastPlace
<1>7. /\ DuePlace(d) = IF A = {} THEN n ELSE Chain!Min(A)
      /\ DuePlace(e) = IF B = {} THEN n ELSE Chain!Min(B)
    BY <1>1, <1>2 DEF DuePlace
<1>8. PICK i, j : i = DuePlace(d) /\ j = DuePlace(e)
    OBVIOUS
<1>9. i \in 1..n /\ j \in 1..n
    BY <1>1, <1>5, <1>6, <1>7, <1>8
<1>10. i <= j
  <2>1. CASE A = {}
    <3>1. B = {} /\ i = n /\ j = n
        BY <1>3, <1>7, <1>8, <2>1
    <3> QED BY <3>1
  <2>2. CASE A # {} /\ B = {}
      BY <1>7, <1>8, <1>9, <2>2
  <2>3. CASE A # {} /\ B # {}
      BY <1>5, <1>6, <1>7, <1>8, <2>3
  <2> QED BY <2>1, <2>2, <2>3
<1> QED BY <1>1, <1>8, <1>9, <1>10

LEMMA RewardDue ==
    ASSUME NEW now
    PROVE  /\ Schedule = <<>> => Chain!BlockReward(now) = 0
           /\ Schedule # <<>> /\ chain = <<>> => Chain!BlockReward(now) = Due(1)
           /\ Schedule # <<>> /\ chain # <<>> =>
                  Chain!BlockReward(now) = Due(DuePlace(now - chain[1].time))
<1>1. Chain!Last(Schedule) = Schedule[Len(Schedule)]
    BY DEF Chain!Last
<1> QED BY <1>1 DEF Chain!BlockReward, Due, DuePlace, Ahead

\* No reward at one time, and none later: addBlock reads the clock twice.
LEMMA NoneLater ==
    ASSUME IssueInv, StoredInv, NEW before \in Int, NEW now \in Int, before <= now
    PROVE  /\ Chain!BlockReward(before) \in Nat /\ Chain!BlockReward(now) \in Nat
           /\ Chain!BlockReward(before) = 0 => Chain!BlockReward(now) = 0
<1>1. CASE Schedule = <<>>
    BY <1>1, RewardDue
<1>2. CASE Schedule # <<>> /\ chain = <<>>
  <2>1. 1 \in DOMAIN Schedule
      BY <1>2, Scheduled
  <2> QED BY <1>2, <2>1, RewardDue, Scheduled
<1>3. CASE Schedule # <<>> /\ chain # <<>>
  <2>1. PICK start \in Int : start = chain[1].time
    <3>1. chain[1] \in DOMAIN blockDB
        BY <1>3 DEF StoredInv
    <3> QED BY <3>1 DEF IssueInv
  <2>2. PICK d \in Int, e \in Int : d = before - start /\ e = now - start /\ d <= e
    <3>1. before - start \in Int /\ now - start \in Int /\ before - start <= now - start
        OBVIOUS
    <3> QED BY <3>1
  <2>3. PICK i, j : i = DuePlace(d) /\ j = DuePlace(e)
      OBVIOUS
  <2>4. i \in DOMAIN Schedule /\ j \in DOMAIN Schedule /\ i <= j
      BY <1>3, <2>2, <2>3, DueLater
  <2>5. i = j \/ i < j
      BY <2>4, Scheduled
  <2>6. Chain!BlockReward(before) = Due(i) /\ Chain!BlockReward(now) = Due(j)
      BY <1>3, <2>1, <2>2, <2>3, RewardDue
  <2> QED BY <2>4, <2>5, <2>6, Scheduled
<1> QED BY <1>1, <1>2, <1>3

LEMMA Allowed ==
    ASSUME IssueInv, StoredInv, NEW before \in Int, NEW now \in Int, before <= now
    PROVE  /\ Chain!AllowedReward(before) \in 0..(MaxSupply - supply)
           /\ Chain!AllowedReward(before) = 0 => Chain!AllowedReward(now) <= 0
<1>1. PICK r \in Nat, s \in Nat :
          /\ r = Chain!BlockReward(before) /\ s = Chain!BlockReward(now) /\ (r = 0 => s = 0)
    BY NoneLater
<1>2. PICK left \in Nat : left = MaxSupply - supply
  <2>1. supply \in Nat /\ supply <= MaxSupply /\ MaxSupply \in Nat
      BY Addresses DEF IssueInv, AccountsOK
  <2> QED BY <2>1
<1>3. PICK p, q : p = Chain!AllowedReward(before) /\ q = Chain!AllowedReward(now)
    OBVIOUS
<1>0. r \in Int /\ s \in Int /\ left \in Int
    OBVIOUS
<1>4. p \in {r, left} /\ p <= r /\ p <= left
  <2>1. p = Chain!Min({r, left})
      BY <1>1, <1>2, <1>3 DEF Chain!AllowedReward
  <2> QED BY <1>0, <2>1, LeastOfTwo
<1>5. q \in {s, left} /\ q <= s /\ q <= left
  <2>1. q = Chain!Min({s, left})
      BY <1>1, <1>2, <1>3 DEF Chain!AllowedReward
  <2> QED BY <1>0, <2>1, LeastOfTwo
<1>6. p \in 0..left /\ (p = 0 => q <= 0)
    BY <1>1, <1>4, <1>5
<1> QED BY <1>2, <1>3, <1>6

-----------------------------------------------------------------------------
(* Storing a block *)

LEMMA OfferedOK ==
    ASSUME IssueInv, NEW offered \in Chain!Offered PROVE OffersOK(offered)
<1>0. Owner \in ChainAddress /\ MaxAmount \in 0..MaxAmount /\ 1 \in 0..MaxAmount
  <2>1. Owner \in ChainAddress /\ MaxAmount \in Nat \ {0}
      BY ChainConfigured DEF Chain!ChainAssumption
  <2>2. \A m \in Nat \ {0} : m \in 0..m /\ 1 \in 0..m
      OBVIOUS
  <2> QED BY <2>1, <2>2
<1>1. ASSUME NEW o, NEW signer, NEW v \in 0..MaxAmount, NEW to \in ChainAddress
      PROVE  PaysOn(Chain!Pays(o, signer, v, to))
    BY DEF PaysOn, Listed, Chain!Pays, Output
<1>2. ASSUME NEW o PROVE PaysOn(Chain!PaysTooMuch(o))
    BY <1>0 DEF PaysOn, Listed, Chain!PaysTooMuch, Output
<1>3. \A o \in DOMAIN utxo : utxo[o].value \in 0..MaxAmount
    BY DEF IssueInv, OutpointsOK
<1>4. ASSUME NEW o \in DOMAIN utxo, NEW p \in DOMAIN utxo PROVE PaysOn(Chain!Joins(o, p))
  <2>1. PICK v, w, s : v = utxo[o].value /\ w = utxo[p].value /\ s = <<v, w>>
      OBVIOUS
  <2>2. v \in Nat /\ w \in Nat
      BY <1>3, <2>1, Addresses
  <2>3. Listed(s) /\ \A i \in DOMAIN s : s[i] \in Nat
      BY <2>1, <2>2 DEF Listed
  <2>4. PICK sum : sum = Chain!SumOf(s) /\ sum \in 0..MaxAmount
      BY <2>3, Sums
  <2>5. Chain!Joins(o, p) = [inputs |-> <<o, p>>, signer |-> NoSignature,
                             outputs |-> <<[value |-> sum, address |-> Owner]>>]
      BY <2>1, <2>4 DEF Chain!Joins
  <2> QED BY <1>0, <2>4, <2>5 DEF PaysOn, Listed, Output
<1>5. \/ offered = <<>>
      \/ \E tx : offered = <<tx>> /\ PaysOn(tx)
      \/ \E s, t : offered = <<s, t>> /\ PaysOn(s) /\ PaysOn(t)
    BY <1>0, <1>1, <1>2, <1>3, <1>4 DEF Chain!Offered
<1> QED BY <1>5 DEF OffersOK, Listed

\* The coinbase pays the reward.
LEMMA CoinbaseMints ==
    ASSUME NEW payee \in ChainAddress, NEW reward \in Nat, reward <= MaxAmount,
           NEW tx, tx = Chain!Coinbase(payee, reward)
    PROVE  PaysOn(tx) /\ Claims(tx) <= reward
<1>1. PICK share \in Nat : share = (reward * 90) \div 100 /\ share <= reward
  <2>1. (reward * 90) \div 100 \in Nat /\ (reward * 90) \div 100 <= reward
      OBVIOUS
  <2> QED BY <2>1
<1>2. PICK rest \in Nat : rest = reward - share /\ rest <= reward /\ share + rest = reward
  <2>1. reward - share \in Nat /\ reward - share <= reward /\ share + (reward - share) = reward
      BY <1>1
  <2> QED BY <2>1
<1>3. share \in 0..MaxAmount /\ rest \in 0..MaxAmount /\ Owner \in ChainAddress
    BY <1>1, <1>2, Addresses
<1>4. PICK outputs : outputs = <<[value |-> share, address |-> payee],
                                 [value |-> rest, address |-> Owner]>>
    OBVIOUS
<1>5. tx = [inputs |-> <<>>, signer |-> NoSignature, outputs |-> outputs]
    BY <1>1, <1>2, <1>4 DEF Chain!Coinbase
<1>6. Listed(outputs) /\ DOMAIN outputs = 1..2 /\ \A i \in DOMAIN outputs : outputs[i] \in Output
    BY <1>3, <1>4 DEF Listed, Output
<1>7. PaysOn(tx)
    BY <1>5, <1>6 DEF PaysOn, Listed
<1>8. PICK vals : vals = Chain!Values(outputs)
    OBVIOUS
<1>9. vals[1] = share /\ vals[2] = rest /\ \A i \in 1..2 : vals[i] \in Nat
    BY <1>4, <1>6, <1>8, OutputValues
<1>10. TotalOf(vals, 1..2) = reward
  <2>1. /\ 2 \in Nat /\ 1 \in 1..2 /\ 2 \in 1..2 /\ 1 \in 0..2 /\ 2 \in 0..2
        /\ 1 - 1 = 0 /\ 2 - 1 = 1
      OBVIOUS
  <2>2. PICK none, one, both :
            none = TotalOf(vals, 1..0) /\ one = TotalOf(vals, 1..1) /\ both = TotalOf(vals, 1..2)
      OBVIOUS
  <2>3. none = 0 /\ one = none + vals[1] /\ both = one + vals[2]
      BY <1>9, <2>1, <2>2, TotalUpTo
  <2> QED BY <1>2, <1>9, <2>2, <2>3
<1>11. PICK c \in Nat, h \in Nat : c = Claims(tx) /\ c + h = reward
    BY <1>5, <1>6, <1>7, <1>8, <1>10, ClaimsAndHidden
<1> QED BY <1>7, <1>11

\* What validateTransactions leaves: the first claims no more than is
\* allowed, each other no more than it spends.
LEMMA ValidFirst ==
    ASSUME NEW txs, NEW now, Chain!ValidTransactions(txs, now), 1 \in DOMAIN txs
    PROVE  Claims(txs[1]) <= Chain!AllowedReward(now)
  BY DEF Chain!ValidTransactions, Chain!ValidCoinbase, Claims

LEMMA ValidLater ==
    ASSUME OutpointsOK, NEW txs, NEW now, Chain!ValidTransactions(txs, now),
           NEW i \in DOMAIN txs, i # 1, NEW tx, tx = txs[i], PaysOn(tx)
    PROVE  /\ \A j \in DOMAIN tx.inputs : Spends(tx)[j] \in Nat
           /\ Claims(tx) <= TotalOf(Spends(tx), DOMAIN tx.inputs)
<1>1. PICK n \in Nat : n = Len(tx.inputs) /\ DOMAIN tx.inputs = 1..n
    BY DEF PaysOn, Listed
<1>2. Chain!ValidSpend(tx)
    BY DEF Chain!ValidTransactions
<1>3. PICK f : f = [j \in DOMAIN tx.inputs |-> utxo[tx.inputs[j]].value]
    OBVIOUS
<1>4. \A j \in 1..n : f[j] = Val(tx.inputs[j]) /\ f[j] \in Nat
  <2>1. \A j \in 1..n : tx.inputs[j] \in DOMAIN utxo
      BY <1>1, <1>2 DEF Chain!ValidSpend
  <2> QED BY <1>1, <1>3, <2>1, Addresses DEF OutpointsOK
<1>5. f = Spends(tx)
    BY <1>1, <1>3, <1>4 DEF Spends
<1>6. Listed(f) /\ DOMAIN f = 1..n
  <2>1. f = [j \in 1..n |-> utxo[tx.inputs[j]].value]
      BY <1>1, <1>3
  <2>2. Len(f) = n /\ DOMAIN f = 1..n
      BY <2>1
  <2> QED BY <2>2 DEF Listed
<1>7. PICK e \in Nat, s \in Nat :
          e = TotalOf(f, DOMAIN f) /\ s = Chain!SumOf(f) /\ s <= e
    BY <1>4, <1>6, Sums, Addresses
<1>8. PICK c \in Nat : c = Claims(tx)
    BY ClaimsAndHidden
<1>9. c <= s
    BY <1>2, <1>3, <1>7, <1>8 DEF Chain!ValidSpend, Claims
<1>10. c <= e
    BY <1>7, <1>8, <1>9
<1> QED BY <1>1, <1>4, <1>5, <1>6, <1>7, <1>8, <1>10

LEMMA StoreKeeps ==
    ASSUME IssueInv, StoredInv, pc \in {"genesis", "idle"},
           NEW onto, NEW payee \in ChainAddress, NEW offered, OffersOK(offered),
           NEW before \in Int, NEW now \in Int,
           Chain!StoreBlock(onto, payee, offered, before, now),
           UNCHANGED <<utxo, supply, baseFee, accounts, hidden>>
    PROVE  IssueInv'
<1>1. PICK reward : reward = Chain!AllowedReward(before)
    OBVIOUS
<1>2. before <= now
    BY DEF Chain!StoreBlock
<1>3. supply \in Nat /\ MaxSupply \in Nat /\ MaxSupply <= MaxAmount
    BY Addresses DEF IssueInv, AccountsOK
<1>4. reward \in Nat /\ reward \in 0..(MaxSupply - supply) /\ reward <= MaxAmount
  <2>1. reward \in 0..(MaxSupply - supply)
      BY <1>1, <1>2, Allowed
  <2> QED BY <1>3, <2>1, Addresses
<1>5. PICK txs : txs = IF reward > 0 THEN <<Chain!Coinbase(payee, reward)>> \o offered ELSE offered
    OBVIOUS
<1>6. PICK header : header = [prev |-> IF onto = <<>> THEN NoHash ELSE Chain!Last(onto),
                              miner |-> payee, time |-> now, reward |-> reward,
                              baseFee |-> baseFee]
    OBVIOUS
<1>7. /\ Chain!ValidTransactions(txs, now) /\ pc' = "apply"
      /\ block' = [header |-> header, txs |-> txs, next |-> 1]
      /\ blockDB' = Chain!WriteBlock(blockDB, header, txs)
    BY <1>1, <1>5, <1>6 DEF Chain!StoreBlock
<1>8. /\ Listed(txs)
      /\ \A i \in DOMAIN txs :
             /\ PaysOn(txs[i])
             /\ reward > 0 /\ i = 1 => Claims(txs[i]) <= reward
  <2>1. CASE reward > 0
    <3>1. PICK mint : mint = Chain!Coinbase(payee, reward) /\ PaysOn(mint) /\ Claims(mint) <= reward
        BY <1>4, CoinbaseMints
    <3>2. PICK n \in Nat : n = Len(offered) /\ DOMAIN offered = 1..n
        BY DEF OffersOK, Listed
    <3>3. txs = <<mint>> \o offered
        BY <1>5, <2>1, <3>1
    <3>4. /\ Len(txs) = 1 + n /\ DOMAIN txs = 1..(1 + n) /\ txs[1] = mint
          /\ \A i \in 2..(1 + n) : txs[i] = offered[i - 1]
        BY <3>2, <3>3
    <3>5. ASSUME NEW i \in 1..(1 + n), i # 1 PROVE PaysOn(txs[i])
      <4>1. i \in 2..(1 + n) /\ i - 1 \in 1..n
          BY <3>5
      <4> QED BY <3>2, <3>4, <4>1 DEF OffersOK
    <3> QED BY <2>1, <3>1, <3>4, <3>5 DEF Listed
  <2>2. CASE ~(reward > 0)
      BY <1>5, <2>2 DEF OffersOK
  <2> QED BY <2>1, <2>2
<1>9. ASSUME NEW i \in DOMAIN txs
      PROVE  /\ i = 1 => Claims(txs[i]) <= reward
             /\ i # 1 => /\ \A j \in DOMAIN txs[i].inputs : Spends(txs[i])[j] \in Nat
                         /\ Claims(txs[i]) <= TotalOf(Spends(txs[i]), DOMAIN txs[i].inputs)
  <2>1. CASE i = 1 /\ ~(reward > 0)
    <3>1. reward = 0
        BY <1>4, <2>1
    <3>2. Chain!AllowedReward(now) <= 0
        BY <1>1, <1>2, <3>1, Allowed
    <3>3. PICK v \in Nat : v = Claims(txs[i])
        BY <1>8, ClaimsAndHidden
    <3>4. v <= Chain!AllowedReward(now)
        BY <1>7, <2>1, <3>3, ValidFirst
    <3>5. PICK q \in Int : q = Chain!AllowedReward(now)
      <4>1. PICK r \in Nat, left \in Int : r = Chain!BlockReward(now) /\ left = MaxSupply - supply
        <5>1. MaxSupply - supply \in Int
            BY <1>3
        <5> QED BY <1>2, <5>1, NoneLater
      <4>2. r \in Int /\ Chain!AllowedReward(now) = Chain!Min({r, left})
          BY <4>1 DEF Chain!AllowedReward
      <4>3. Chain!Min({r, left}) \in {r, left}
          BY <4>2, LeastOfTwo
      <4> QED BY <4>2, <4>3
    <3>6. v <= reward
        BY <3>1, <3>2, <3>4, <3>5
    <3> QED BY <2>1, <3>3, <3>6
  <2>2. CASE i # 1
    <3>1. OutpointsOK /\ PaysOn(txs[i])
        BY <1>8 DEF IssueInv
    <3> QED BY <1>7, <2>2, <3>1, ValidLater
  <2>3. CASE i = 1 /\ reward > 0
      BY <1>8, <2>3
  <2> QED BY <2>1, <2>2, <2>3
<1>10. AccountsOK' /\ OutpointsOK'
    BY <1>7 DEF IssueInv, AccountsOK, OutpointsOK
<1>11. block'.header.reward = reward /\ block'.next = 1 /\ block'.txs = txs
    BY <1>6, <1>7
<1>12. BlockOK'
  <2>1. 1 \in 1..(Len(txs) + 1)
      BY <1>8 DEF Listed
  <2> QED BY <1>4, <1>8, <1>9, <1>11, <2>1 DEF BlockOK
<1>13. Backed'
  <2>1. PICK S, X : S = DOMAIN utxo /\ X = BlockOutpoints' /\ Valued(S)
      BY DEF IssueInv, OutpointsOK, Valued
  <2>2. PICK i \in Int, k \in Int : i = Worth(S) /\ k = Worth(S \ X) /\ k <= i
      BY <2>1, WorthPart
  <2>3. i <= supply + hidden /\ hidden \in Nat
      BY <2>1, <2>2 DEF IssueInv, Backed, InBlock, AccountsOK
  <2>4. k <= supply + hidden /\ i <= supply + hidden + 0
      BY <1>3, <2>2, <2>3
  <2>5. Brought(block.next - 1)' = 0
    <3>1. PICK f : f = Losses'
        OBVIOUS
    <3>2. TotalOf(f, 1..0) = 0
      <4>1. 0 \in Nat /\ \A j \in 1..0 : f[j] \in Nat
          OBVIOUS
      <4> QED BY <4>1, TotalUpTo
    <3>3. block'.next - 1 = 0
        BY <1>11
    <3> QED BY <3>1, <3>2, <3>3 DEF Brought
  <2>6. DOMAIN utxo' = S /\ InBlock' /\ supply' = supply /\ hidden' = hidden /\ pc' = "apply"
      BY <1>7, <2>1 DEF InBlock
  <2> QED BY <2>1, <2>2, <2>4, <2>5, <2>6 DEF Backed
<1>14. \A h \in DOMAIN blockDB' : h.time \in Int
  <2>1. DOMAIN blockDB' = DOMAIN blockDB \cup {header} /\ header.time = now
      BY <1>6, <1>7 DEF Chain!WriteBlock
  <2> QED BY <2>1 DEF IssueInv
<1> QED BY <1>10, <1>12, <1>13, <1>14 DEF IssueInv

-----------------------------------------------------------------------------
(* What was issued backs what can be spent *)

\* Without the outputs of a block that failed.
LEMMA RolledBack ==
    ASSUME IssueInv, Chain!RollBack PROVE IssueInv'
<1>1. /\ pc = "rollback" /\ pc' = "idle"
      /\ UNCHANGED <<supply, baseFee, accounts, blockDB, hidden>>
      /\ utxo' = Chain!Without(utxo, BlockOutpoints)
    BY DEF Chain!RollBack, Chain!disk, Chain!history, BlockOutpoints
<1>2. PICK S, X : S = DOMAIN utxo /\ X = BlockOutpoints
    OBVIOUS
<1>3. DOMAIN utxo' = S \ X /\ \A o \in S \ X : utxo'[o] = utxo[o]
    BY <1>1, <1>2 DEF Chain!Without
<1>4. IsFiniteSet(S \ X)
    BY <1>2, FS_Subset DEF IssueInv, OutpointsOK
<1>5. OutpointsOK' /\ AccountsOK'
    BY <1>1, <1>2, <1>3, <1>4 DEF IssueInv, OutpointsOK, AccountsOK
<1>6. Backed'
    BY <1>1, <1>2, <1>3 DEF IssueInv, Backed, InBlock
<1>7. BlockOK'
    BY <1>1 DEF BlockOK, InBlock
<1> QED BY <1>1, <1>5, <1>6, <1>7 DEF IssueInv

LEMMA WorthNone == Worth({}) = 0
<1>1. PICK f : f = [o \in {} |-> Val(o)]
    OBVIOUS
<1>2. TotalOf(f, {}) = 0
    BY FS_EmptySet, TotalStep
<1> QED BY <1>1, <1>2 DEF Worth

LEMMA Lost ==
    ASSUME IssueInv, Chain!Lose, UNCHANGED blockDB, AccountsOK'
    PROVE  IssueInv'
<1>1. pc' = "closed" /\ supply' = 0 /\ hidden' = 0
    BY DEF Chain!Lose
<1>2. PICK D : D = DOMAIN utxo' /\ D = {}
  <2>1. utxo' = <<>>
      BY DEF Chain!Lose
  <2> QED BY <2>1
<1>3. OutpointsOK'
    BY <1>2, FS_EmptySet DEF OutpointsOK
<1>4. Worth(D) = 0
    BY <1>2, WorthNone
<1>5. Backed' /\ BlockOK'
    BY <1>1, <1>2, <1>4 DEF Backed, BlockOK, InBlock
<1> QED BY <1>3, <1>5 DEF IssueInv

LEMMA FeeNat ==
    ASSUME NEW fee \in Nat PROVE Chain!NextBaseFee(fee, 0) \in Nat
<1>1. PICK delta : delta = Chain!Max({1, fee \div 8})
    OBVIOUS
<1>2. delta \in Nat
  <2>1. PICK eighth \in Nat : eighth = fee \div 8
      OBVIOUS
  <2>2. Chain!Max({1, eighth}) = CHOOSE x \in {1, eighth} : \A y \in {1, eighth} : x >= y
      BY DEF Chain!Max
  <2>3. \E x \in {1, eighth} : \A y \in {1, eighth} : x >= y
    <3>1. CASE eighth >= 1
        BY <3>1
    <3>2. CASE 1 >= eighth
        BY <3>2
    <3> QED BY <3>1, <3>2
  <2>4. Chain!Max({1, eighth}) \in {1, eighth}
      BY <2>2, <2>3
  <2> QED BY <1>1, <2>1, <2>4
<1>3. Chain!NextBaseFee(fee, 0) = IF TargetGas = 0 THEN fee
                                  ELSE IF 0 * 2 > TargetGas THEN fee + delta
                                  ELSE IF fee > delta THEN fee - delta ELSE 1
    BY <1>1 DEF Chain!NextBaseFee
<1>4. fee + delta \in Nat /\ (fee > delta => fee - delta \in Nat) /\ 1 \in Nat
    BY <1>2
<1> QED BY <1>3, <1>4

\* The two totals are put beside the balances.
LEMMA SupplyPut ==
    ASSUME NEW accs, Typed(accs), NEW v \in Nat, NEW new, new = Chain!Put(accs, SupplyKey, v)
    PROVE  Typed(new) /\ new[SupplyKey] = v
    BY Addresses DEF Typed, Chain!Put

LEMMA FeePut ==
    ASSUME NEW accs, Typed(accs), NEW v \in Nat, NEW new, new = Chain!Put(accs, FeeKey, v)
    PROVE  Typed(new) /\ new[SupplyKey] = accs[SupplyKey]
    BY Addresses DEF Typed, Chain!Put

LEMMA IssueKept ==
    /\ Chain!Init => IssueInv
    /\ IssueInv /\ StoredInv /\ [AnyNext]_(Chain!vars) => IssueInv'
<1>1. Chain!Init => IssueInv
  <2> SUFFICES ASSUME Chain!Init PROVE IssueInv
      OBVIOUS
  <2>1. /\ pc = "closed" /\ supply = 0 /\ utxo = <<>> /\ baseFee = 1 /\ blockDB = <<>>
        /\ hidden = 0
        /\ accounts = [k \in Chain!Key |-> Absent]
      BY DEF Chain!Init
  <2>2. PICK D : D = DOMAIN utxo /\ D = {}
      BY <2>1
  <2>3. Worth(D) = 0
      BY <2>2, WorthNone
  <2>4. AccountsOK
      BY <2>1, Addresses DEF AccountsOK
  <2>5. OutpointsOK /\ BlockOK /\ Backed
      BY <2>1, <2>2, <2>3, FS_EmptySet DEF OutpointsOK, BlockOK, Backed, InBlock
  <2>6. \A h \in DOMAIN blockDB : h.time \in Int
      BY <2>1
  <2> QED BY <2>4, <2>5, <2>6 DEF IssueInv
<1>2. IssueInv /\ StoredInv /\ [AnyNext]_(Chain!vars) => IssueInv'
  <2> SUFFICES ASSUME IssueInv, StoredInv, [AnyNext]_(Chain!vars) PROVE IssueInv'
      OBVIOUS
  <2>0. /\ supply \in Nat /\ MaxSupply \in Nat /\ supply <= MaxSupply /\ baseFee \in Nat
        /\ Typed(accounts) /\ hidden \in Nat
      BY Addresses DEF IssueInv, AccountsOK, Typed
  <2>1. CASE Chain!Start
    <3>1. /\ pc = "closed" /\ pc' \in {"genesis", "idle"}
          /\ supply' = (IF accounts[SupplyKey] = Absent THEN 0 ELSE accounts[SupplyKey])
          /\ baseFee' = (IF accounts[FeeKey] = Absent THEN InitialBaseFee ELSE accounts[FeeKey])
          /\ UNCHANGED <<utxo, block, blockDB, accounts, hidden>>
        BY <2>1 DEF Chain!Start, Chain!Get, Chain!disk
    <3>2. AccountsOK'
      <4>1. InitialBaseFee \in Nat
          BY ChainConfigured DEF Chain!ChainAssumption
      <4>2. supply' \in 0..MaxSupply /\ baseFee' \in Nat
          BY <2>0, <3>1, <4>1, Addresses DEF IssueInv, AccountsOK, Typed
      <4> QED BY <3>1, <4>2 DEF IssueInv, AccountsOK
    <3>3. Backed'
      <4>1. DOMAIN utxo' = {} /\ supply' \in Nat /\ hidden' \in Nat
          BY <2>0, <3>1, <3>2, Addresses DEF IssueInv, OutpointsOK, AccountsOK
      <4>2. PICK s \in Nat, h \in Nat : s = supply' /\ h = hidden'
          BY <4>1
      <4>3. 0 <= s + h
          OBVIOUS
      <4> QED BY <3>1, <4>1, <4>2, <4>3, WorthNone DEF Backed, InBlock
    <3>4. OutpointsOK' /\ BlockOK'
        BY <3>1 DEF IssueInv, OutpointsOK, BlockOK, InBlock
    <3> QED BY <3>1, <3>2, <3>3, <3>4 DEF IssueInv
  <2>2. CASE Chain!MineGenesis
    <3>1. PICK before \in Int, now \in Int : Chain!StoreBlock(<<>>, Owner, <<>>, before, now)
        BY <2>2 DEF Chain!MineGenesis, Chain!Times
    <3>2. OffersOK(<<>>)
        BY DEF OffersOK, Listed
    <3>3. pc = "genesis" /\ UNCHANGED <<utxo, supply, baseFee, accounts, hidden>>
        BY <2>2 DEF Chain!MineGenesis, Chain!memory, Chain!history
    <3> QED BY <3>1, <3>2, <3>3, StoreKeeps, Addresses
  <2>3. CASE Chain!Stop
    <3>1. PICK mid : mid = Chain!Put(accounts, SupplyKey, supply)
        OBVIOUS
    <3>2. accounts' = Chain!Put(mid, FeeKey, baseFee)
        BY <2>3, <3>1 DEF Chain!Stop
    <3>3. Typed(mid) /\ mid[SupplyKey] = supply
        BY <2>0, <3>1, SupplyPut
    <3>4. Typed(accounts') /\ accounts'[SupplyKey] = supply
        BY <2>0, <3>2, <3>3, FeePut
    <3>5. Chain!Lose /\ UNCHANGED blockDB
        BY <2>3 DEF Chain!Stop
    <3>6. AccountsOK'
      <4>1. supply' = 0 /\ baseFee' = 1 /\ hidden' = 0
          BY <3>5 DEF Chain!Lose
      <4> QED BY <2>0, <3>4, <4>1 DEF AccountsOK, Typed
    <3> QED BY <3>5, <3>6, Lost
  <2>4. CASE Chain!Crash
    <3>1. /\ Chain!Lose /\ UNCHANGED <<blockDB, accounts>>
          /\ supply' = 0 /\ baseFee' = 1 /\ hidden' = 0
        BY <2>4 DEF Chain!Crash, Chain!disk, Chain!Lose
    <3>2. AccountsOK'
        BY <2>0, <3>1 DEF IssueInv, AccountsOK
    <3> QED BY <3>1, <3>2, Lost
  <2>5. ASSUME NEW payee \in Miner, NEW offered, OffersOK(offered), Chain!AddBlock(payee, offered)
        PROVE  IssueInv'
    <3>1. PICK before \in Int, now \in Int : Chain!StoreBlock(chain, payee, offered, before, now)
        BY <2>5 DEF Chain!AddBlock, Chain!Times
    <3>2. OffersOK(offered)
        BY <2>5
    <3>3. pc = "idle" /\ UNCHANGED <<utxo, supply, baseFee, accounts, hidden>>
        BY <2>5 DEF Chain!AddBlock, Chain!memory, Chain!history
    <3>4. payee \in ChainAddress
        BY ChainConfigured DEF Chain!ChainAssumption
    <3> QED BY <3>1, <3>2, <3>3, <3>4, StoreKeeps
  <2>6. CASE Chain!ApplyTransaction
      BY <2>6, TurnKept
  <2>7. CASE Chain!RollBack
      BY <2>7, RolledBack
  <2>8. CASE Chain!Commit
    <3>1. PICK reward \in Nat : reward = block.header.reward /\ supply + reward <= MaxSupply
      <4>1. block.header.reward \in 0..(MaxSupply - supply)
          BY <2>8 DEF Chain!Commit, IssueInv, BlockOK, InBlock
      <4>2. block.header.reward \in Nat /\ supply + block.header.reward <= MaxSupply
          BY <2>0, <4>1
      <4> QED BY <4>2
    <3>2. /\ pc = "apply" /\ pc' = "persist"
          /\ supply' = supply + reward /\ baseFee' = Chain!NextBaseFee(baseFee, 0)
          /\ accounts' = Chain!Put(accounts, SupplyKey, supply')
          /\ UNCHANGED <<utxo, blockDB>> /\ InBlock /\ ~InBlock'
          /\ hidden' = hidden + Chain!HiddenIn(block.txs) /\ block.next > Len(block.txs)
        BY <2>8, <3>1 DEF Chain!Commit, InBlock
    <3>3. supply' \in Nat /\ supply' <= MaxSupply /\ baseFee' \in Nat
      <4>1. supply + reward \in Nat
          BY <2>0, <3>1
      <4>2. Chain!NextBaseFee(baseFee, 0) \in Nat
          BY <2>0, FeeNat
      <4> QED BY <3>1, <3>2, <4>1, <4>2
    <3>4. Typed(accounts') /\ accounts'[SupplyKey] = supply'
      <4>1. PICK v \in Nat : v = supply'
          BY <3>3
      <4>2. accounts' = Chain!Put(accounts, SupplyKey, v)
          BY <3>2, <4>1
      <4> QED BY <2>0, <4>1, <4>2, SupplyPut
    <3>8. PICK lost \in Nat, n \in Nat :
              /\ lost = Chain!HiddenIn(block.txs) /\ n = Len(block.txs)
              /\ Brought(n) \in Nat /\ Brought(n) <= reward + lost
      <4>1. PICK n \in Nat : n = Len(block.txs) /\ n \in 0..n
          BY <3>2 DEF IssueInv, BlockOK, Listed
      <4>2. Listed(block.txs) /\ \A i \in DOMAIN block.txs : PaysOn(block.txs[i])
          BY <3>2 DEF IssueInv, BlockOK
      <4>3. PICK lost : lost = Chain!HiddenIn(block.txs)
          OBVIOUS
      <4>4. lost \in Nat /\ \A k \in 0..n : Brought(k) \in Nat /\ Brought(k) <= reward + lost
          BY <3>1, <4>1, <4>2, <4>3, BroughtSteps
      <4> QED BY <4>1, <4>3, <4>4
    <3>9. block.next - 1 = n
        BY <3>2, <3>8 DEF IssueInv, BlockOK
    <3>5. AccountsOK'
      <4>1. hidden' \in Nat
          BY <2>0, <3>2, <3>8
      <4> QED BY <2>0, <3>3, <3>4, <4>1 DEF AccountsOK, Typed
    <3>6. Backed'
      <4>1. PICK w \in Int, b \in Nat : w = Worth(DOMAIN utxo) /\ b = Brought(n)
        <5>1. Valued(DOMAIN utxo)
            BY DEF IssueInv, OutpointsOK, Valued
        <5> QED BY <3>8, <5>1, WorthPart
      <4>2. w <= supply + hidden + b
          BY <3>2, <3>9, <4>1 DEF IssueInv, Backed
      <4>3. w <= (supply + reward) + (hidden + lost)
          BY <2>0, <3>8, <4>1, <4>2
      <4> QED BY <3>2, <3>8, <4>1, <4>3 DEF Backed, InBlock
    <3>7. OutpointsOK' /\ BlockOK'
        BY <3>2 DEF IssueInv, OutpointsOK, BlockOK, InBlock
    <3> QED BY <3>2, <3>5, <3>6, <3>7 DEF IssueInv
  <2>9. CASE Chain!Persist
    <3>1. /\ pc = "persist" /\ pc' = "idle" /\ accounts' = Chain!Put(accounts, FeeKey, baseFee)
          /\ UNCHANGED <<utxo, supply, baseFee, blockDB, hidden>>
        BY <2>9 DEF Chain!Persist, Chain!memory
    <3>2. Typed(accounts') /\ accounts'[SupplyKey] = accounts[SupplyKey]
        BY <2>0, <3>1, FeePut
    <3>3. AccountsOK'
        BY <3>1, <3>2 DEF IssueInv, AccountsOK, Typed
    <3> QED BY <3>1, <3>3 DEF IssueInv, OutpointsOK, BlockOK, Backed, InBlock
  <2>10. CASE UNCHANGED Chain!vars
    <3>1. UNCHANGED <<pc, utxo, supply, baseFee, block, blockDB, accounts, hidden>>
        BY <2>10 DEF Chain!vars, Chain!memory, Chain!disk, Chain!history
    <3>2. AccountsOK' /\ OutpointsOK' /\ BlockOK'
        BY <3>1 DEF IssueInv, AccountsOK, OutpointsOK, BlockOK, InBlock
    <3>3. Backed'
        BY <3>1 DEF IssueInv, Backed, InBlock, BlockOutpoints, Brought, Losses
    <3> QED BY <3>1, <3>2, <3>3 DEF IssueInv
  <2>11. \A offered \in Chain!Offered : OffersOK(offered)
      BY OfferedOK
  <2> QED BY <2>1, <2>2, <2>3, <2>4, <2>5, <2>6, <2>7, <2>8, <2>9, <2>10, <2>11
          DEF AnyNext, Chain!Next
<1> QED BY <1>1, <1>2

\* No step lowers an account that has room for what is paid.
LEMMA NoneIsLowered ==
    ASSUME IssueInv, [AnyNext]_(Chain!vars) PROVE Chain!NoneLowered
<1>0. \A a \in ChainAddress : Balance(accounts, a) \in Nat
    BY Addresses, BalanceNat DEF IssueInv, AccountsOK, Typed
<1>1. CASE Chain!ApplyTransaction
    BY <1>1, TurnEffect
<1>2. ASSUME \A a \in ChainAddress : accounts'[a] = accounts[a] PROVE Chain!NoneLowered
  <2>1. ASSUME NEW a \in ChainAddress
        PROVE  Chain!GetBalance(accounts', a) >= Chain!GetBalance(accounts, a)
    <3>1. PICK b \in Nat : b = Chain!GetBalance(accounts, a)
        BY <1>0 DEF Balance
    <3>2. Chain!GetBalance(accounts', a) = b
        BY <1>2, <3>1 DEF Chain!GetBalance, Chain!Get
    <3> QED BY <3>1, <3>2
  <2> QED BY <2>1 DEF Chain!NoneLowered
<1>3. ASSUME Chain!Stop \/ Chain!Commit \/ Chain!Persist
      PROVE  \A a \in ChainAddress : accounts'[a] = accounts[a]
  <2>1. \/ \E v : accounts' = Chain!Put(accounts, SupplyKey, v)
        \/ \E v : accounts' = Chain!Put(accounts, FeeKey, v)
        \/ \E v, w : accounts' = Chain!Put(Chain!Put(accounts, SupplyKey, v), FeeKey, w)
      BY <1>3 DEF Chain!Stop, Chain!Commit, Chain!Persist
  <2>2. \A accs, k, v : k \notin ChainAddress /\ ChainAddress \subseteq DOMAIN accs =>
            /\ ChainAddress \subseteq DOMAIN Chain!Put(accs, k, v)
            /\ \A a \in ChainAddress : Chain!Put(accs, k, v)[a] = accs[a]
      BY DEF Chain!Put
  <2>3. ChainAddress \subseteq DOMAIN accounts
      BY Addresses DEF IssueInv, AccountsOK
  <2> QED BY <2>1, <2>2, <2>3, Addresses
<1>4. Chain!Start \/ Chain!MineGenesis \/ Chain!Crash \/ Chain!RollBack \/ UNCHANGED Chain!vars
      \/ (\E payee, offered : Chain!AddBlock(payee, offered)) => UNCHANGED accounts
    BY DEF Chain!Start, Chain!MineGenesis, Chain!Crash, Chain!RollBack, Chain!AddBlock,
           Chain!vars, Chain!disk
<1> QED BY <1>1, <1>2, <1>3, <1>4 DEF AnyNext, Chain!Next

\* The inductive invariant of the chain: what is stored, what was issued and
\* what there is to spend, through blocks that fail, crashes and restarts.
THEOREM IssueInvariant ==
    /\ StateSpec => [](unit = "chain" => StoredInv /\ IssueInv)
    /\ AnySpec => [](StoredInv /\ IssueInv)
<1> DEFINE Inv == unit = "chain" => StoredInv /\ IssueInv
<1>1. StateInit => Inv
    BY StoredKept, IssueKept DEF StateInit, ChainInit, MempoolInit, PersistInit, DatabaseInit
<1>2. Inv /\ [StateNext]_<<unit, otherVars, stateVars>> => Inv'
  <2> SUFFICES ASSUME Inv, [StateNext]_<<unit, otherVars, stateVars>>, unit' = "chain"
               PROVE  StoredInv' /\ IssueInv'
      OBVIOUS
  <2>1. unit = "chain" /\ [Chain!Next]_(Chain!vars)
      BY DEF StateNext, ChainNext, MempoolNext, PersistNext, DatabaseNext, stateVars, chainVars,
             Chain!vars, Chain!memory, Chain!disk, Chain!history
  <2>2. [AnyNext]_(Chain!vars)
      BY <2>1 DEF AnyNext
  <2> QED BY <2>1, <2>2, StoredKept, IssueKept
<1>3. StateSpec => []Inv
    BY <1>1, <1>2, PTL DEF StateSpec
<1>4. AnySpec => [](StoredInv /\ IssueInv)
    BY StoredKept, IssueKept, PTL DEF AnySpec
<1> QED
    BY <1>3, <1>4

\* For any reward schedule, cap, fees and addresses, blocks of transactions
\* with any number of inputs and outputs, that fail, are rolled back or crash:
\* the unspent outputs are never worth more than was issued and what 64-bit
\* sums of outputs lost, and what was issued is within the cap.
THEOREM OutputsAlwaysBacked ==
    /\ StateSpec => []OutputsBacked
    /\ AnySpec => []Chain!OutputsBacked
<1>1. IssueInv => Chain!OutputsBacked
  <2> SUFFICES ASSUME IssueInv PROVE Chain!OutputsBacked
      OBVIOUS
  <2>1. PICK w \in Int : w = Chain!Total(utxo) /\ w = Worth(DOMAIN utxo)
    <3>1. Valued(DOMAIN utxo)
        BY DEF IssueInv, OutpointsOK, Valued
    <3> QED BY <3>1, WorthIsTotal, WorthPart DEF IssueInv
  <2>2. supply \in Nat /\ hidden \in Nat /\ MaxSupply \in Nat /\ supply <= MaxSupply
      BY Addresses DEF IssueInv, AccountsOK
  <2>3. CASE InBlock
    <3>1. PICK lost : lost = Chain!HiddenIn(block.txs)
        OBVIOUS
    <3>2. PICK reward \in Nat : reward = block.header.reward /\ supply + reward <= MaxSupply
      <4>1. block.header.reward \in 0..(MaxSupply - supply)
          BY <2>3 DEF IssueInv, BlockOK
      <4>2. block.header.reward \in Nat /\ supply + block.header.reward <= MaxSupply
          BY <2>2, <4>1
      <4> QED BY <4>2
    <3>3. PICK n \in Nat, k \in 0..Len(block.txs) :
              n = Len(block.txs) /\ (pc = "apply" => k = block.next - 1)
        BY <2>3 DEF IssueInv, BlockOK, Listed, InBlock
    <3>4. lost \in Nat /\ Brought(k) \in Nat /\ Brought(k) <= reward + lost
        BY <2>3, <3>1, <3>2, <3>3, BroughtSteps DEF IssueInv, BlockOK
    <3>5. Chain!InFlight = reward /\ Chain!HiddenInFlight = lost
        BY <2>3, <3>1, <3>2 DEF Chain!InFlight, Chain!HiddenInFlight, Chain!UnderWay, InBlock
    <3>6. w <= supply + hidden + Brought(k) \/ w <= supply + hidden + reward + lost
        BY <2>1, <2>3, <3>1, <3>2, <3>3 DEF IssueInv, Backed, InBlock
    <3>7. w <= supply + reward + hidden + lost
      <4>1. PICK s \in Nat, h \in Nat, b \in Nat, l \in Nat :
                s = supply /\ h = hidden /\ b = Brought(k) /\ l = lost /\ b <= reward + l
          BY <2>2, <3>4
      <4>2. w <= s + h + b \/ w <= s + h + reward + l
          BY <3>6, <4>1
      <4>3. s + h + b <= s + reward + h + l /\ s + h + reward + l = s + reward + h + l
        <5>1. b <= reward + l
            BY <4>1
        <5> QED BY <5>1
      <4>4. w \in Int
          BY <2>1
      <4>5. w <= s + reward + h + l
        <5>1. PICK x \in Int, y \in Int : x = s + h + b /\ y = s + reward + h + l
            OBVIOUS
        <5> QED BY <4>2, <4>3, <4>4, <5>1
      <4> QED BY <4>1, <4>5
    <3> QED BY <2>1, <3>2, <3>5, <3>7 DEF Chain!OutputsBacked
  <2>4. CASE ~InBlock
    <3>1. Chain!InFlight = 0 /\ Chain!HiddenInFlight = 0
        BY <2>4 DEF Chain!InFlight, Chain!HiddenInFlight, Chain!UnderWay, InBlock
    <3>2. w <= supply + hidden
        BY <2>1, <2>4 DEF IssueInv, Backed
    <3>3. w <= supply + 0 + hidden + 0 /\ supply + 0 <= MaxSupply
        BY <2>1, <2>2, <3>2
    <3> QED BY <2>1, <3>1, <3>3 DEF Chain!OutputsBacked
  <2> QED BY <2>3, <2>4
<1>2. (unit = "chain" => StoredInv /\ IssueInv) => OutputsBacked
    BY <1>1 DEF OutputsBacked
<1>3. StateSpec => []OutputsBacked
    BY <1>2, IssueInvariant, PTL
<1>4. AnySpec => []Chain!OutputsBacked
    BY <1>1, IssueInvariant, PTL
<1> QED
    BY <1>3, <1>4

\* For any fees and amounts, no step lowers the balance of an account that
\* has room for what the transaction under way pays.
THEOREM CreditsAreNeverLower ==
    /\ StateSpec => CreditsNeverLower
    /\ AnySpec => [][Chain!NoneLowered]_(Chain!vars)
<1>1. /\ unit = "chain" => StoredInv /\ IssueInv
      /\ [StateNext]_<<unit, otherVars, stateVars>>
      => [unit = "chain" => Chain!NoneLowered]_<<unit, otherVars, stateVars>>
  <2> SUFFICES ASSUME IssueInv, unit = "chain", [StateNext]_<<unit, otherVars, stateVars>>
               PROVE  Chain!NoneLowered
      OBVIOUS
  <2>1. [Chain!Next]_(Chain!vars)
      BY DEF StateNext, ChainNext, MempoolNext, PersistNext, DatabaseNext, stateVars, chainVars,
             Chain!vars, Chain!memory, Chain!disk, Chain!history
  <2>2. [AnyNext]_(Chain!vars)
      BY <2>1 DEF AnyNext
  <2> QED BY <2>2, NoneIsLowered
<1>2. IssueInv /\ [AnyNext]_(Chain!vars) => [Chain!NoneLowered]_(Chain!vars)
    BY NoneIsLowered
<1>3. StateSpec => CreditsNeverLower
    BY <1>1, IssueInvariant, PTL DEF StateSpec, CreditsNeverLower
<1>4. AnySpec => [][Chain!NoneLowered]_(Chain!vars)
    BY <1>2, IssueInvariant, PTL DEF AnySpec
<1> QED
    BY <1>3, <1>4
================================================================================
