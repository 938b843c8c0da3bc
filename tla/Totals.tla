------------------------------- MODULE Totals -------------------------------
(***************************************************************************)
(* Adding up numbers over a finite set, and the induction over the subsets *)
(* of a finite set it takes: the lemmas about money that the proofs of     *)
(* several components share.  A property is given as a set, the elements   *)
(* that have it.                                                           *)
(***************************************************************************)
EXTENDS Integers, FiniteSetsExt, FiniteSetTheorems, TLAPS

-----------------------------------------------------------------------------
(* Induction *)

\* A set of naturals with 0 and all successors: no finite initial part of it
\* can be mapped into what is left without 0.
LEMMA NatSet ==
    ASSUME NEW S, S \subseteq Nat, 0 \in S, \A n \in S : n + 1 \in S
    PROVE  S = Nat
<1> SUFFICES ASSUME NEW m \in Nat, m \notin S PROVE FALSE
    OBVIOUS
<1> DEFINE A == S \cap (0..m)
           f == [n \in A |-> n + 1]
<1>1. IsFiniteSet(A) /\ IsFiniteSet(A \ {0}) /\ Cardinality(A) \in Nat
      /\ Cardinality(A \ {0}) = Cardinality(A) - 1
  <2>1. IsFiniteSet(0..m)
      BY FS_Interval
  <2>2. IsFiniteSet(A)
      BY <2>1, FS_Subset
  <2>3. 0 \in A
      OBVIOUS
  <2> HIDE DEF A
  <2> QED BY <2>2, <2>3, FS_RemoveElement, FS_CardinalityType
<1>2. f \in Injection(A, A \ {0})
  <2>1. \A n \in A : n + 1 \in A \ {0}
      OBVIOUS
  <2> QED BY <2>1 DEF Injection, IsInjective
<1> HIDE DEF A, f
<1>3. Cardinality(A) <= Cardinality(A \ {0})
    BY <1>1, <1>2, FS_Injection
<1> QED BY <1>1, <1>3


-----------------------------------------------------------------------------
(* Totals *)

\* The numbers of f at the elements of S, added up.
TotalOf(f, S) == MapThenSumSet(LAMBDA x : f[x], S)

\* The subsets of S of at most n elements.
Small(S, n) == {s \in SUBSET S : Cardinality(s) <= n}

\* it adds f up over the subsets of S of at most n elements.
AddsUp(it, f, S, n) ==
    it = [s \in Small(S, n) |-> IF s = {} THEN 0
                                ELSE f[CHOOSE x \in s : TRUE] + it[s \ {CHOOSE x \in s : TRUE}]]

\* Taking an element out of a finite set.
LEMMA OneLess ==
    ASSUME NEW S, IsFiniteSet(S), NEW s \in SUBSET S, NEW x \in s
    PROVE  /\ IsFiniteSet(s) /\ Cardinality(s) \in Nat \ {0}
           /\ s \ {x} \in SUBSET S /\ IsFiniteSet(s \ {x})
           /\ Cardinality(s \ {x}) = Cardinality(s) - 1
<1>1. IsFiniteSet(s) /\ Cardinality(s) \in Nat
    BY FS_Subset, FS_CardinalityType
<1>2. IsFiniteSet(s \ {x}) /\ Cardinality(s \ {x}) = Cardinality(s) - 1
      /\ Cardinality(s \ {x}) \in Nat
    BY <1>1, FS_RemoveElement, FS_CardinalityType
<1> QED BY <1>1, <1>2

\* Adding up needs no set larger than the one it is asked for.
LEMMA AddsUpExists ==
    ASSUME NEW S, IsFiniteSet(S), NEW f, NEW n \in Nat
    PROVE  \E it : AddsUp(it, f, S, n)
<1> DEFINE Q == {m \in Nat : \E it : AddsUp(it, f, S, m)}
<1>1. 0 \in Q
  <2>1. ASSUME NEW s \in Small(S, 0) PROVE s = {}
      BY FS_Subset, FS_CardinalityType, FS_EmptySet DEF Small
  <2>2. PICK it : it = [s \in Small(S, 0) |-> 0]
      OBVIOUS
  <2>3. AddsUp(it, f, S, 0)
      BY <2>1, <2>2 DEF AddsUp
  <2> QED BY <2>3
<1>2. ASSUME NEW m \in Q PROVE m + 1 \in Q
  <2>1. PICK old : AddsUp(old, f, S, m)
      OBVIOUS
  <2> DEFINE Value(s, g) == IF s = {} THEN 0
                            ELSE f[CHOOSE x \in s : TRUE] + g[s \ {CHOOSE x \in s : TRUE}]
  <2>0. PICK it : it = [s \in Small(S, m + 1) |-> Value(s, old)]
      OBVIOUS
  <2>2. /\ \A s \in Small(S, m) : s \in Small(S, m + 1)
        /\ \A s \in Small(S, m + 1) : s # {} => s \ {CHOOSE x \in s : TRUE} \in Small(S, m)
    <3>1. ASSUME NEW s \in Small(S, m + 1), s # {}
          PROVE  s \ {CHOOSE x \in s : TRUE} \in Small(S, m)
      <4>1. PICK x : x = CHOOSE y \in s : TRUE
          OBVIOUS
      <4>2. x \in s /\ s \in SUBSET S
          BY <3>1, <4>1 DEF Small
      <4>3. Cardinality(s \ {x}) = Cardinality(s) - 1 /\ s \ {x} \in SUBSET S
            /\ Cardinality(s) \in Nat
          BY <4>2, OneLess
      <4> QED BY <4>1, <4>3 DEF Small
    <3>2. \A s \in SUBSET S : Cardinality(s) \in Nat
        BY FS_Subset, FS_CardinalityType
    <3> QED BY <3>1, <3>2 DEF Small
  <2>3. \A s \in Small(S, m) : it[s] = old[s]
      BY <2>0, <2>1, <2>2 DEF AddsUp
  <2>4. \A s \in Small(S, m + 1) : Value(s, old) = Value(s, it)
      BY <2>2, <2>3
  <2>5. it = [s \in Small(S, m + 1) |-> Value(s, it)]
    <3> HIDE DEF Value
    <3>1. DOMAIN it = Small(S, m + 1) /\ \A s \in Small(S, m + 1) : it[s] = Value(s, old)
        BY <2>0
    <3>2. it = [s \in Small(S, m + 1) |-> it[s]]
        BY <2>0
    <3> QED BY <2>4, <3>1, <3>2
  <2>6. AddsUp(it, f, S, m + 1)
      BY <2>5 DEF AddsUp
  <2> QED BY <2>6
<1> HIDE DEF Q
<1>3. Q = Nat
  <2>1. Q \subseteq Nat
      BY DEF Q
  <2> QED BY <1>1, <1>2, <2>1, NatSet
<1> QED BY <1>3 DEF Q

\* TotalOf(f, S) is what any function finds that adds f up.
LEMMA TotalAddsUp ==
    ASSUME NEW S, IsFiniteSet(S), NEW f
    PROVE  \E it : AddsUp(it, f, S, Cardinality(S)) /\ TotalOf(f, S) = it[S]
<1>1. Small(S, Cardinality(S)) = SUBSET S
    BY FS_Subset DEF Small
<1> DEFINE Adds(it) == it = [s \in SUBSET S |-> IF s = {} THEN 0
                 ELSE f[CHOOSE x \in s : TRUE] + it[s \ {CHOOSE x \in s : TRUE}]]
<1>2. PICK some : AddsUp(some, f, S, Cardinality(S))
    BY AddsUpExists, FS_CardinalityType
<1>3. Adds(some)
    BY <1>1, <1>2 DEF AddsUp
<1>4. PICK it : it = CHOOSE g : Adds(g)
    OBVIOUS
<1>5. Adds(it)
  <2> HIDE DEF Adds
  <2> QED BY <1>3, <1>4
<1>6. TotalOf(f, S) = it[S]
    BY <1>4 DEF TotalOf, MapThenSumSet, MapThenFoldSet
<1> QED BY <1>1, <1>5, <1>6 DEF AddsUp

\* Induction over the subsets of a finite set.
LEMMA SubsetInduction ==
    ASSUME NEW S, IsFiniteSet(S), NEW G,
           \A s \in SUBSET S : (\A t \in (SUBSET s) \ {s} : t \in G) => s \in G
    PROVE  SUBSET S \subseteq G
<1> DEFINE Q == {n \in Nat : \A s \in SUBSET S : Cardinality(s) <= n => s \in G}
<1>1. \A s \in SUBSET S : /\ IsFiniteSet(s) /\ Cardinality(s) \in Nat
                          /\ \A t \in (SUBSET s) \ {s} : /\ Cardinality(t) \in Nat
                                                         /\ Cardinality(t) < Cardinality(s)
  <2>1. \A s \in SUBSET S : IsFiniteSet(s) /\ Cardinality(s) \in Nat
      BY FS_Subset, FS_CardinalityType
  <2>2. ASSUME NEW s \in SUBSET S, NEW t \in (SUBSET s) \ {s}
        PROVE  Cardinality(t) \in Nat /\ Cardinality(t) < Cardinality(s)
    <3>1. /\ IsFiniteSet(s) /\ t \in SUBSET s /\ t \in SUBSET S /\ Cardinality(t) \in Nat
          /\ Cardinality(s) \in Nat
        BY <2>1
    <3>2. Cardinality(t) <= Cardinality(s) /\ (Cardinality(s) = Cardinality(t) => s = t)
        BY <3>1, FS_Subset
    <3> QED BY <3>1, <3>2
  <2> QED BY <2>1, <2>2
<1>2. 0 \in Q
    BY <1>1
<1>3. ASSUME NEW n \in Q PROVE n + 1 \in Q
  <2>1. ASSUME NEW s \in SUBSET S, Cardinality(s) <= n + 1 PROVE s \in G
    <3>1. \A t \in (SUBSET s) \ {s} : t \in SUBSET S /\ Cardinality(t) <= n
        BY <1>1, <2>1
    <3> QED BY <3>1
  <2> QED BY <2>1
<1>4. Q = Nat
  <2>1. Q \subseteq Nat
      OBVIOUS
  <2> HIDE DEF Q
  <2> QED BY <1>2, <1>3, <2>1, NatSet
<1>5. \A s \in SUBSET S : Cardinality(s) \in Q
  <2> HIDE DEF Q
  <2> QED BY <1>1, <1>4
<1> QED BY <1>1, <1>5

\* What adds up the same numbers finds the same totals.
LEMMA AddsUpSame ==
    ASSUME NEW S, IsFiniteSet(S), NEW T \in SUBSET S, NEW f, NEW g, \A x \in T : f[x] = g[x],
           NEW a, AddsUp(a, f, S, Cardinality(S)), NEW b, AddsUp(b, g, T, Cardinality(T))
    PROVE  \A s \in SUBSET T : a[s] = b[s]
<1> DEFINE G == {s \in SUBSET T : a[s] = b[s]}
<1>1. IsFiniteSet(T) /\ Small(S, Cardinality(S)) = SUBSET S /\ Small(T, Cardinality(T)) = SUBSET T
    BY FS_Subset DEF Small
<1>2. ASSUME NEW s \in SUBSET T, \A t \in (SUBSET s) \ {s} : t \in G PROVE s \in G
  <2>1. CASE s = {}
      BY <1>1, <2>1 DEF AddsUp
  <2>2. CASE s # {}
    <3>1. PICK x : x = CHOOSE y \in s : TRUE
        OBVIOUS
    <3>2. x \in s /\ s \ {x} \in (SUBSET s) \ {s} /\ s \in SUBSET S
        BY <2>2, <3>1
    <3>3. a[s] = f[x] + a[s \ {x}] /\ b[s] = g[x] + b[s \ {x}]
        BY <1>1, <2>2, <3>1, <3>2 DEF AddsUp
    <3> QED BY <1>2, <3>2, <3>3
  <2> QED BY <2>1, <2>2
<1> HIDE DEF G
<1>3. SUBSET T \subseteq G
    BY <1>1, <1>2, SubsetInduction
<1> QED BY <1>3 DEF G

\* The total over a set that is not empty, and over the empty one.
LEMMA TotalStep ==
    ASSUME NEW S, IsFiniteSet(S), NEW f
    PROVE  /\ S = {} => TotalOf(f, S) = 0
           /\ S # {} => \E x \in S : TotalOf(f, S) = f[x] + TotalOf(f, S \ {x})
<1>1. PICK a : AddsUp(a, f, S, Cardinality(S)) /\ TotalOf(f, S) = a[S]
    BY TotalAddsUp
<1>2. Small(S, Cardinality(S)) = SUBSET S
    BY FS_Subset DEF Small
<1>3. CASE S = {}
    BY <1>1, <1>2, <1>3 DEF AddsUp
<1>4. CASE S # {}
  <2>1. PICK x : x = CHOOSE y \in S : TRUE
      OBVIOUS
  <2>2. x \in S /\ S \ {x} \in SUBSET S /\ IsFiniteSet(S \ {x})
      BY <1>4, <2>1, FS_RemoveElement
  <2>3. a[S] = f[x] + a[S \ {x}]
      BY <1>1, <1>2, <1>4, <2>1, <2>2 DEF AddsUp
  <2>4. PICK b : AddsUp(b, f, S \ {x}, Cardinality(S \ {x})) /\ TotalOf(f, S \ {x}) = b[S \ {x}]
      BY <2>2, TotalAddsUp
  <2>5. a[S \ {x}] = b[S \ {x}]
    <3>1. PICK T : T = S \ {x}
        OBVIOUS
    <3>2. /\ T \in SUBSET S /\ \A y \in T : f[y] = f[y]
          /\ AddsUp(b, f, T, Cardinality(T)) /\ AddsUp(a, f, S, Cardinality(S))
        BY <1>1, <2>4, <3>1
    <3>3. \A s \in SUBSET T : a[s] = b[s]
        BY <3>2, AddsUpSame
    <3> QED BY <3>1, <3>3
  <2> QED BY <1>1, <2>2, <2>3, <2>4, <2>5
<1> QED BY <1>3, <1>4

\* Equal numbers have equal totals.
LEMMA TotalSame ==
    ASSUME NEW S, IsFiniteSet(S), NEW f, NEW g, \A x \in S : f[x] = g[x]
    PROVE  TotalOf(f, S) = TotalOf(g, S)
<1>1. PICK a, b : /\ AddsUp(a, f, S, Cardinality(S)) /\ TotalOf(f, S) = a[S]
                  /\ AddsUp(b, g, S, Cardinality(S)) /\ TotalOf(g, S) = b[S]
    BY TotalAddsUp
<1> QED BY <1>1, AddsUpSame

\* The total of integers is one, and the order of adding does not matter.
LEMMA TotalWithout ==
    ASSUME NEW S, IsFiniteSet(S), NEW f, \A x \in S : f[x] \in Int
    PROVE  /\ TotalOf(f, S) \in Int
           /\ \A y \in S : TotalOf(f, S) = f[y] + TotalOf(f, S \ {y}) /\ TotalOf(f, S \ {y}) \in Int
<1> DEFINE Splits(s) == /\ TotalOf(f, s) \in Int
                        /\ \A y \in s : TotalOf(f, s) = f[y] + TotalOf(f, s \ {y})
           G == {s \in SUBSET S : Splits(s)}
<1>1. ASSUME NEW s \in SUBSET S, \A t \in (SUBSET s) \ {s} : t \in G PROVE s \in G
  <2>1. IsFiniteSet(s)
      BY FS_Subset
  <2>2. CASE s = {}
      BY <2>1, <2>2, TotalStep
  <2>3. CASE s # {}
    <3>1. PICK c \in s : TotalOf(f, s) = f[c] + TotalOf(f, s \ {c})
        BY <2>1, <2>3, TotalStep
    <3>2. Splits(s \ {c}) /\ f[c] \in Int
        BY <1>1
    <3>3. ASSUME NEW y \in s, y # c PROVE TotalOf(f, s) = f[y] + TotalOf(f, s \ {y})
      <4>1. Splits(s \ {y}) /\ c \in s \ {y} /\ y \in s \ {c} /\ f[y] \in Int
          BY <1>1, <3>3
      <4>2. PICK r : r = (s \ {c}) \ {y}
          OBVIOUS
      <4>3. r = (s \ {y}) \ {c} /\ r \in (SUBSET s) \ {s}
          BY <3>3, <4>2
      <4>4. TotalOf(f, s \ {c}) = f[y] + TotalOf(f, r) /\ TotalOf(f, s \ {y}) = f[c] + TotalOf(f, r)
            /\ TotalOf(f, r) \in Int
          BY <1>1, <3>2, <4>1, <4>2, <4>3
      <4> QED BY <3>1, <3>2, <4>1, <4>4
    <3>4. TotalOf(f, s) \in Int
        BY <3>1, <3>2
    <3> QED BY <3>1, <3>3, <3>4
  <2> QED BY <2>2, <2>3
<1> HIDE DEF G
<1>2. SUBSET S \subseteq G
    BY <1>1, SubsetInduction
<1> QED BY <1>2 DEF G

\* One number changes, and the total by as much.
LEMMA TotalExcept ==
    ASSUME NEW S, IsFiniteSet(S), NEW f, \A x \in S : f[x] \in Int, NEW g,
           NEW y \in S, g[y] \in Int, \A x \in S \ {y} : g[x] = f[x]
    PROVE  TotalOf(f, S) \in Int /\ TotalOf(g, S) = TotalOf(f, S) - f[y] + g[y]
<1>1. IsFiniteSet(S \ {y}) /\ \A x \in S : g[x] \in Int
    BY FS_RemoveElement
<1>2. TotalOf(f, S \ {y}) = TotalOf(g, S \ {y})
    BY <1>1, TotalSame
<1>3. /\ TotalOf(f, S) = f[y] + TotalOf(f, S \ {y}) /\ TotalOf(f, S \ {y}) \in Int
      /\ TotalOf(f, S) \in Int
    BY TotalWithout
<1>4. TotalOf(g, S) = g[y] + TotalOf(g, S \ {y})
    BY <1>1, TotalWithout
<1> QED BY <1>2, <1>3, <1>4

\* One element more: it counts when it is one of those added up.
LEMMA TotalOneMore ==
    ASSUME NEW S, IsFiniteSet(S), NEW x, x \notin S, NEW R, R = S \cup {x}, NEW f, NEW g,
           \A y \in S : g[y] = f[y] /\ f[y] \in Int, g[x] \in Int, NEW K
    PROVE  /\ TotalOf(f, S \cap K) \in Int
           /\ x \in K => TotalOf(g, R \cap K) = TotalOf(f, S \cap K) + g[x]
           /\ x \notin K => TotalOf(g, R \cap K) = TotalOf(f, S \cap K)
<1>1. PICK s, t : s = S \cap K /\ t = R \cap K
    OBVIOUS
<1>2. /\ IsFiniteSet(s) /\ s \subseteq S
      /\ \A y \in s : f[y] \in Int /\ g[y] \in Int /\ g[y] = f[y]
    BY <1>1, FS_Subset
<1>3. TotalOf(f, s) \in Int /\ TotalOf(g, s) = TotalOf(f, s)
    BY <1>2, TotalSame, TotalWithout
<1>4. x \in K => TotalOf(g, t) = TotalOf(f, s) + g[x]
  <2> SUFFICES ASSUME x \in K PROVE TotalOf(g, t) = TotalOf(f, s) + g[x]
      OBVIOUS
  <2>1. t = s \cup {x} /\ t \ {x} = s /\ x \in t
      BY <1>1
  <2>2. IsFiniteSet(t) /\ \A y \in t : g[y] \in Int
      BY <1>2, <2>1, FS_AddElement
  <2>3. TotalOf(g, t) = g[x] + TotalOf(g, t \ {x})
      BY <2>1, <2>2, TotalWithout
  <2>4. PICK i, j, k : i = TotalOf(f, s) /\ j = TotalOf(g, t) /\ k = g[x]
      OBVIOUS
  <2>5. j = k + TotalOf(g, s)
      BY <2>1, <2>3, <2>4
  <2>6. i \in Int /\ k \in Int /\ j = k + i
      BY <1>3, <2>4, <2>5
  <2> QED BY <2>4, <2>6
<1>5. x \notin K => TotalOf(g, t) = TotalOf(f, s)
  <2>1. x \notin K => t = s
      BY <1>1
  <2> QED BY <1>3, <2>1
<1> QED BY <1>1, <1>3, <1>4, <1>5

\* A finite set of integers has its maximum.
LEMMA MaxIn ==
    ASSUME NEW S \in SUBSET Int, IsFiniteSet(S), S # {}
    PROVE  Max(S) \in S
<1> DEFINE G == {s \in SUBSET S : s # {} => \E x \in s : \A y \in s : x >= y}
<1>1. ASSUME NEW s \in SUBSET S, \A t \in (SUBSET s) \ {s} : t \in G, s # {}
      PROVE  \E x \in s : \A y \in s : x >= y
  <2>1. PICK x \in s : TRUE
      BY <1>1
  <2>2. CASE s = {x}
      BY <2>2
  <2>3. CASE s # {x}
    <3>1. PICK m \in s \ {x} : \A y \in s \ {x} : m >= y
      <4>1. s \ {x} \in (SUBSET s) \ {s} /\ s \ {x} # {}
          BY <2>3
      <4> QED BY <1>1, <4>1
    <3>2. CASE m >= x
        BY <3>1, <3>2
    <3>3. CASE x >= m
        BY <3>1, <3>3
    <3> QED BY <3>2, <3>3
  <2> QED BY <2>2, <2>3
<1>2. \A s \in SUBSET S : (\A t \in (SUBSET s) \ {s} : t \in G) => s \in G
    BY <1>1
<1> HIDE DEF G
<1>3. SUBSET S \subseteq G
    BY <1>2, SubsetInduction
<1> QED BY <1>3 DEF G, Max

-----------------------------------------------------------------------------
(* Folding a list *)

\* it folds step over the places in s, the last one last, for s of at most m of
\* the places 1..n.
FoldsUp(it, step, base, n, m) ==
    it = [s \in Small(1..n, m) |->
             IF s = {} THEN base ELSE step[Max(s)][it[s \ {Max(s)}]]]

\* There is such a function for every list.
LEMMA FoldsUpExists ==
    ASSUME NEW n \in Nat, NEW step, NEW base, NEW m \in Nat
    PROVE  \E it : FoldsUp(it, step, base, n, m)
<1> DEFINE S == 1..n
           Q == {k \in Nat : \E it : FoldsUp(it, step, base, n, k)}
<1>0. /\ IsFiniteSet(S)
      /\ \A s \in SUBSET S : IsFiniteSet(s) /\ Cardinality(s) \in Nat /\ (s # {} => Max(s) \in s)
  <2>1. S \subseteq Int /\ IsFiniteSet(S)
      BY FS_Interval
  <2> QED BY <2>1, FS_Subset, FS_CardinalityType, MaxIn
<1>1. 0 \in Q
  <2>1. ASSUME NEW s \in Small(S, 0) PROVE s = {}
      BY <1>0, FS_EmptySet DEF Small
  <2>2. PICK it : it = [s \in Small(S, 0) |-> base]
      OBVIOUS
  <2>3. FoldsUp(it, step, base, n, 0)
      BY <2>1, <2>2 DEF FoldsUp
  <2> QED BY <2>3
<1>2. ASSUME NEW k \in Q PROVE k + 1 \in Q
  <2>1. PICK old : FoldsUp(old, step, base, n, k)
      OBVIOUS
  <2> DEFINE Value(s, g) == IF s = {} THEN base ELSE step[Max(s)][g[s \ {Max(s)}]]
  <2>2. PICK it : it = [s \in Small(S, k + 1) |-> Value(s, old)]
      OBVIOUS
  <2>3. /\ \A s \in Small(S, k) : s \in Small(S, k + 1)
        /\ \A s \in Small(S, k + 1) : s # {} => s \ {Max(s)} \in Small(S, k)
    <3>1. ASSUME NEW s \in Small(S, k + 1), s # {} PROVE s \ {Max(s)} \in Small(S, k)
      <4>1. Max(s) \in s /\ s \in SUBSET S
          BY <1>0, <3>1 DEF Small
      <4>2. PICK x : x = Max(s)
          OBVIOUS
      <4>3. Cardinality(s \ {x}) = Cardinality(s) - 1 /\ s \ {x} \in SUBSET S
            /\ Cardinality(s) \in Nat
          BY <1>0, <4>1, <4>2, OneLess
      <4> QED BY <4>2, <4>3 DEF Small
    <3> QED BY <1>0, <3>1 DEF Small
  <2>4. \A s \in Small(S, k) : it[s] = old[s]
      BY <2>1, <2>2, <2>3 DEF FoldsUp
  <2>5. \A s \in Small(S, k + 1) : Value(s, old) = Value(s, it)
      BY <2>3, <2>4
  <2>6. it = [s \in Small(S, k + 1) |-> Value(s, it)]
    <3> HIDE DEF Value
    <3>1. DOMAIN it = Small(S, k + 1) /\ \A s \in Small(S, k + 1) : it[s] = Value(s, old)
        BY <2>2
    <3>2. it = [s \in Small(S, k + 1) |-> it[s]]
        BY <2>2
    <3> QED BY <2>5, <3>1, <3>2
  <2>7. FoldsUp(it, step, base, n, k + 1)
      BY <2>6 DEF FoldsUp
  <2> QED BY <2>7
<1> HIDE DEF Q
<1>3. Q = Nat
  <2>1. Q \subseteq Nat
      BY DEF Q
  <2> QED BY <1>1, <1>2, <2>1, NatSet
<1> QED BY <1>3 DEF Q

\* The same for all the places of a list; its values are those of Good.
FoldsAll(it, step, base, n) ==
    it = [s \in SUBSET (1..n) |-> IF s = {} THEN base ELSE step[Max(s)][it[s \ {Max(s)}]]]
StaysGood(it, n, Good) == \A s \in SUBSET (1..n) : it[s] \in Good

\* Some of the places of a list have a last one.
LEMMA LastOfPlaces ==
    ASSUME NEW n \in Nat, NEW s \in SUBSET (1..n), s # {}
    PROVE  Max(s) \in s /\ Max(s) \in 1..n /\ s \ {Max(s)} \in SUBSET (1..n)
<1>1. s \in SUBSET Int /\ n \in Int
    OBVIOUS
<1>2. IsFiniteSet(1..n)
    BY <1>1, FS_Interval
<1>3. IsFiniteSet(s)
    BY <1>2, FS_Subset
<1>4. Max(s) \in s
    BY <1>1, <1>3, MaxIn
<1> QED BY <1>4

\* What every step keeps, the fold keeps.
LEMMA FoldGood ==
    ASSUME NEW n \in Nat, NEW Good, NEW it, it[{}] \in Good,
           \A s \in SUBSET (1..n) : s # {} /\ it[s \ {Max(s)}] \in Good => it[s] \in Good
    PROVE  StaysGood(it, n, Good)
<1>0. PICK S : S = 1..n
    OBVIOUS
<1> DEFINE G == {s \in SUBSET S : it[s] \in Good}
<1>1. IsFiniteSet(S)
  <2>1. n \in Int
      OBVIOUS
  <2> QED BY <1>0, <2>1, FS_Interval
<1>2. ASSUME NEW s \in SUBSET S, \A t \in (SUBSET s) \ {s} : t \in G PROVE s \in G
  <2>1. CASE s = {}
      BY <2>1
  <2>2. CASE s # {}
    <3>1. s \ {Max(s)} \in (SUBSET s) \ {s}
        BY <1>0, <2>2, LastOfPlaces
    <3>2. it[s \ {Max(s)}] \in Good
        BY <1>2, <3>1
    <3> QED BY <1>0, <2>2, <3>2
  <2> QED BY <2>1, <2>2
<1>3. SUBSET S \subseteq G
  <2> HIDE DEF G
  <2> QED BY <1>1, <1>2, SubsetInduction
<1> QED BY <1>0, <1>3 DEF StaysGood

\* Such a function, when each step gives a value of Good.
LEMMA FoldExists ==
    ASSUME NEW n \in Nat, NEW Good, NEW base \in Good, NEW step,
           \A acc \in Good, k \in 1..n : step[k][acc] \in Good
    PROVE  \E it : FoldsAll(it, step, base, n) /\ StaysGood(it, n, Good)
<1>1. Small(1..n, Cardinality(1..n)) = SUBSET (1..n) /\ Cardinality(1..n) \in Nat
  <2>1. PICK S : S = 1..n /\ n \in Int
      OBVIOUS
  <2>2. IsFiniteSet(S)
      BY <2>1, FS_Interval
  <2> QED BY <2>1, <2>2, FS_Subset, FS_CardinalityType DEF Small
<1>2. PICK it : FoldsUp(it, step, base, n, Cardinality(1..n))
    BY <1>1, FoldsUpExists
<1>3. it = [s \in SUBSET (1..n) |-> IF s = {} THEN base ELSE step[Max(s)][it[s \ {Max(s)}]]]
    BY <1>1, <1>2 DEF FoldsUp
<1>4. it[{}] \in Good
    BY <1>3
<1>5. \A s \in SUBSET (1..n) : s # {} /\ it[s \ {Max(s)}] \in Good => it[s] \in Good
  <2> SUFFICES ASSUME NEW s \in SUBSET (1..n), s # {}, it[s \ {Max(s)}] \in Good
               PROVE  it[s] \in Good
      OBVIOUS
  <2>1. Max(s) \in 1..n
      BY LastOfPlaces
  <2>2. PICK k : k = Max(s)
      OBVIOUS
  <2>3. it[s] = step[k][it[s \ {k}]]
      BY <1>3, <2>2
  <2> QED BY <2>1, <2>2, <2>3
<1>6. StaysGood(it, n, Good)
    BY <1>4, <1>5, FoldGood
<1> QED BY <1>3, <1>6 DEF FoldsAll

\* What holds at first, and after each step if it did before, holds throughout.
LEMMA StaysIn ==
    ASSUME NEW n \in Nat, NEW Good, NEW acc, acc[0] \in Good,
           \A k \in 1..n : acc[k - 1] \in Good => acc[k] \in Good
    PROVE  \A k \in 0..n : acc[k] \in Good
<1> DEFINE Q == {k \in Nat : k <= n => acc[k] \in Good}
<1>1. 0 \in Q
    OBVIOUS
<1>2. ASSUME NEW k \in Q PROVE k + 1 \in Q
  <2>1. k + 1 <= n => k + 1 \in 1..n /\ (k + 1) - 1 = k /\ acc[k] \in Good
      OBVIOUS
  <2> QED BY <2>1
<1>3. Q \subseteq Nat
    OBVIOUS
<1> HIDE DEF Q
<1>4. Q = Nat
    BY <1>1, <1>2, <1>3, NatSet
<1> QED BY <1>4 DEF Q

\* Induction over the places of a list, and the one before them.
LEMMA PlaceInduction ==
    ASSUME NEW n \in Nat, NEW S, 0 \in S, \A i \in 1..n : i - 1 \in S => i \in S
    PROVE  0..n \subseteq S
<1>1. PICK at : at = [i \in 0..n |-> i]
    OBVIOUS
<1>2. at[0] \in S /\ \A i \in 1..n : at[i - 1] \in S => at[i] \in S
    BY <1>1
<1>3. \A i \in 0..n : at[i] \in S
    BY <1>2, StaysIn
<1> QED BY <1>1, <1>3

\* The last place of a list, and the places before it.
LEMMA LastPlace ==
    ASSUME NEW n \in Nat, NEW k \in 1..n
    PROVE  /\ 1..k \in SUBSET (1..n) /\ 1..k # {} /\ Max(1..k) = k
           /\ (1..k) \ {k} = 1..(k - 1) /\ 1..(k - 1) \in SUBSET (1..n)
<1>1. PICK s : s = 1..k
    OBVIOUS
<1>2. k \in s /\ \A y \in s : y <= k /\ y \in Int /\ y \in 1..n
  <2>1. k \in s
      BY <1>1
  <2>2. \A y \in s : y <= k /\ y \in Int /\ y \in 1..n
      BY <1>1
  <2> QED BY <2>1, <2>2
<1>3. Max(s) = k
  <2>1. Max(s) \in s /\ \A y \in s : Max(s) >= y
    <3>1. \A y \in s : k >= y
        BY <1>2
    <3> QED BY <1>2, <3>1 DEF Max
  <2>2. PICK m : m = Max(s)
      OBVIOUS
  <2>3. m \in Int /\ m <= k /\ m >= k
      BY <1>2, <2>1, <2>2
  <2> QED BY <2>2, <2>3
<1>4. s \ {k} = 1..(k - 1)
    BY <1>1
<1>5. 1..(k - 1) \in SUBSET (1..n)
    BY <1>1, <1>2, <1>4
<1> QED BY <1>1, <1>2, <1>3, <1>4, <1>5

\* What the sets of places have of it, as long as the values are in Good.
FoldsIn(it, step, base, n, Good) ==
    /\ it[{}] = base
    /\ \A s \in SUBSET (1..n) : s # {} /\ it[s \ {Max(s)}] \in Good =>
           it[s] = step[Max(s)][it[s \ {Max(s)}]]

\* acc goes through the values of Good that step makes of base.
GoesThrough(acc, step, base, n, Good) ==
    /\ acc \in [0..n -> Good] /\ acc[0] = base
    /\ \A k \in 1..n : acc[k] = step[k][acc[k - 1]]

\* The values a fold goes through, one for each place of the list.
LEMMA FoldSteps ==
    ASSUME NEW n \in Nat, NEW Good, NEW base \in Good, NEW step,
           \A acc \in Good, k \in 1..n : step[k][acc] \in Good,
           NEW the, FoldsIn(the, step, base, n, Good)
    PROVE  GoesThrough([k \in 0..n |-> the[1..k]], step, base, n, Good)
<1> USE DEF FoldsIn
<1>1. \A s \in SUBSET (1..n) : s # {} /\ the[s \ {Max(s)}] \in Good => the[s] \in Good
  <2> SUFFICES ASSUME NEW s \in SUBSET (1..n), s # {}, the[s \ {Max(s)}] \in Good
               PROVE  the[s] \in Good
      OBVIOUS
  <2>1. Max(s) \in 1..n
      BY LastOfPlaces
  <2>2. the[s] = step[Max(s)][the[s \ {Max(s)}]]
      OBVIOUS
  <2> QED BY <2>1, <2>2
<1>2. StaysGood(the, n, Good)
    BY <1>1, FoldGood
<1>3. PICK acc : acc = [k \in 0..n |-> the[1..k]]
    OBVIOUS
<1>4. \A k \in 0..n : 1..k \in SUBSET (1..n)
    OBVIOUS
<1>5. acc \in [0..n -> Good]
    BY <1>2, <1>3, <1>4 DEF StaysGood
<1>6. acc[0] = base
  <2>1. 1..0 = {}
      OBVIOUS
  <2> QED BY <1>3, <2>1
<1>7. ASSUME NEW k \in 1..n PROVE acc[k] = step[k][acc[k - 1]]
  <2>1. /\ 1..k \in SUBSET (1..n) /\ 1..k # {} /\ Max(1..k) = k
        /\ (1..k) \ {k} = 1..(k - 1) /\ 1..(k - 1) \in SUBSET (1..n)
      BY LastPlace
  <2>2. the[1..(k - 1)] \in Good
      BY <1>2, <2>1 DEF StaysGood
  <2>3. the[1..k] = step[k][the[1..(k - 1)]]
      BY <2>1, <2>2
  <2>4. acc[k] = the[1..k] /\ acc[k - 1] = the[1..(k - 1)]
      BY <1>3
  <2> QED BY <2>3, <2>4
<1> QED BY <1>3, <1>5, <1>6, <1>7 DEF GoesThrough

-----------------------------------------------------------------------------
(* Sums of lists *)

\* The totals of the first so many naturals of a list.
LEMMA TotalUpTo ==
    ASSUME NEW n \in Nat, NEW f, \A i \in 1..n : f[i] \in Nat
    PROVE  /\ TotalOf(f, 1..0) = 0
           /\ \A k \in 0..n : TotalOf(f, 1..k) \in Nat /\ TotalOf(f, 1..k) <= TotalOf(f, 1..n)
           /\ \A k \in 1..n : TotalOf(f, 1..k) = TotalOf(f, 1..(k - 1)) + f[k]
<1>1. TotalOf(f, 1..0) = 0
  <2>0. 1..0 = {}
      OBVIOUS
  <2>1. PICK none : none = 1..0 /\ none = {}
      BY <2>0
  <2> QED BY <2>1, FS_EmptySet, TotalStep
<1>2. ASSUME NEW k \in 1..n PROVE TotalOf(f, 1..k) = TotalOf(f, 1..(k - 1)) + f[k]
  <2>1. PICK S : S = 1..k
      OBVIOUS
  <2>2. IsFiniteSet(S)
    <3>1. 1 \in Int /\ k \in Int
        OBVIOUS
    <3> QED BY <2>1, <3>1, FS_Interval
  <2>3. k \in S /\ S \ {k} = 1..(k - 1) /\ \A i \in S : f[i] \in Int
      BY <2>1
  <2>4. TotalOf(f, S) = f[k] + TotalOf(f, S \ {k}) /\ TotalOf(f, S \ {k}) \in Int
      BY <2>2, <2>3, TotalWithout
  <2>5. PICK i \in Int, j \in Int : i = f[k] /\ j = TotalOf(f, S \ {k})
      BY <2>3, <2>4
  <2>6. i + j = j + i
      OBVIOUS
  <2> QED BY <2>1, <2>3, <2>4, <2>5, <2>6
<1>3. PICK total : total = [k \in 0..n |-> TotalOf(f, 1..k)]
    OBVIOUS
<1>4. /\ total[0] = 0
      /\ \A k \in 1..n : k - 1 \in 0..n /\ total[k] = total[k - 1] + f[k]
    BY <1>1, <1>2, <1>3
<1> DEFINE Rises == {k \in 0..n : \A i \in 0..k : total[i] \in Nat /\ total[i] <= total[k]}
<1>5. 0 \in Rises
    BY <1>4
<1>6. ASSUME NEW k \in 1..n, k - 1 \in Rises PROVE k \in Rises
  <2>1. PICK t \in Nat, v \in Nat : t = total[k - 1] /\ v = f[k] /\ total[k] = t + v
    <3>1. k - 1 \in 0..(k - 1) /\ f[k] \in Nat
        OBVIOUS
    <3> QED BY <1>4, <1>6, <3>1
  <2>2. ASSUME NEW i \in 0..k PROVE total[i] \in Nat /\ total[i] <= total[k]
    <3>1. CASE i = k
        BY <2>1, <3>1
    <3>2. CASE i # k
      <4>1. i \in 0..(k - 1)
          BY <3>2
      <4>2. total[i] \in Nat /\ total[i] <= t
          BY <1>6, <2>1, <4>1
      <4> QED BY <2>1, <4>2
    <3> QED BY <3>1, <3>2
  <2>3. k \in 0..n
      OBVIOUS
  <2> QED BY <2>2, <2>3
<1> HIDE DEF Rises
<1>7. 0..n \subseteq Rises
    BY <1>5, <1>6, PlaceInduction
<1>8. \A k \in 0..n : total[k] \in Nat /\ total[k] <= total[n]
  <2>1. n \in Rises
      BY <1>7
  <2> QED BY <2>1 DEF Rises
<1> QED BY <1>1, <1>2, <1>3, <1>8

\* What the fold that adds up a list chooses, and the one that wraps at m.
SumsUp(the, s, n) ==
    the = CHOOSE it : it = [p \in SUBSET (1..n) |->
              IF p = {} THEN 0 ELSE it[p \ {Max(p)}] + s[Max(p)]]
SumsUpTo(the, s, n, m) ==
    the = CHOOSE it : it = [p \in SUBSET (1..n) |->
              IF p = {} THEN 0 ELSE (it[p \ {Max(p)}] + s[Max(p)]) % m]

\* Adding up a list from the left is taking its total.
LEMMA SumIsTotal ==
    ASSUME NEW n \in Nat, NEW s, \A i \in 1..n : s[i] \in Nat,
           NEW the, SumsUp(the, s, n)
    PROVE  the[1..n] = TotalOf(s, 1..n)
<1> DEFINE Folds(it) == it = [p \in SUBSET (1..n) |->
                        IF p = {} THEN 0 ELSE it[p \ {Max(p)}] + s[Max(p)]]
<1>0. PICK Good : Good = Nat
    OBVIOUS
<1>1. PICK turn : turn = [i \in 1..n |-> [acc \in Nat |-> acc + s[i]]]
    OBVIOUS
<1>2. \A acc \in Nat, i \in 1..n : turn[i][acc] = acc + s[i] /\ turn[i][acc] \in Nat
  <2>1. \A acc \in Nat, i \in 1..n : acc + s[i] \in Nat
      OBVIOUS
  <2> QED BY <1>1, <2>1
<1>3. PICK some : FoldsAll(some, turn, 0, n) /\ StaysGood(some, n, Good)
  <2>1. 0 \in Good /\ \A acc \in Good, k \in 1..n : turn[k][acc] \in Good
      BY <1>0, <1>2
  <2> QED BY <2>1, FoldExists
<1>4. \A p \in SUBSET (1..n) : p # {} =>
          turn[Max(p)][some[p \ {Max(p)}]] = some[p \ {Max(p)}] + s[Max(p)]
    BY <1>0, <1>2, <1>3, LastOfPlaces DEF StaysGood
<1>5. Folds(some)
    BY <1>3, <1>4 DEF FoldsAll
<1>6. Folds(the)
  <2>1. the = CHOOSE it : Folds(it)
      BY DEF SumsUp
  <2> HIDE DEF Folds
  <2> QED BY <1>5, <2>1
<1>7. FoldsIn(the, turn, 0, n, Good)
  <2>1. ASSUME NEW p \in SUBSET (1..n), p # {}, the[p \ {Max(p)}] \in Good
        PROVE  the[p] = turn[Max(p)][the[p \ {Max(p)}]]
    <3>0. Max(p) \in 1..n
        BY <2>1, LastOfPlaces
    <3>1. PICK k \in 1..n, a \in Nat : k = Max(p) /\ a = the[p \ {Max(p)}]
        BY <1>0, <2>1, <3>0
    <3>2. the[p] = a + s[k]
        BY <1>6, <2>1, <3>1
    <3> QED BY <1>2, <3>1, <3>2
  <2>2. the[{}] = 0
      BY <1>6
  <2> HIDE DEF Folds
  <2> QED BY <2>1, <2>2 DEF FoldsIn
<1> HIDE DEF Folds
<1>8. PICK acc : GoesThrough(acc, turn, 0, n, Good) /\ acc[n] = the[1..n]
  <2>1. PICK base \in Good : base = 0
      BY <1>0
  <2>2. n \in Nat /\ base \in Good /\ \A acc \in Good, i \in 1..n : turn[i][acc] \in Good
      BY <1>0, <1>2, <2>1
  <2>3. FoldsIn(the, turn, base, n, Good)
      BY <1>7, <2>1
  <2>4. PICK acc : acc = [k \in 0..n |-> the[1..k]]
      OBVIOUS
  <2>5. GoesThrough([k \in 0..n |-> the[1..k]], turn, base, n, Good)
      BY <2>2, <2>3, FoldSteps
  <2>6. acc[n] = the[1..n]
      BY <2>4
  <2> QED BY <2>1, <2>4, <2>5, <2>6
<1> DEFINE Equal == {k \in 0..n : acc[k] = TotalOf(s, 1..k)}
<1>9. 0 \in Equal
    BY <1>8, TotalUpTo DEF GoesThrough
<1>10. ASSUME NEW k \in 1..n, k - 1 \in Equal PROVE k \in Equal
  <2>1. k - 1 \in 0..n /\ acc[k - 1] \in Nat /\ acc[k] = turn[k][acc[k - 1]]
      BY <1>0, <1>8 DEF GoesThrough
  <2>2. acc[k] = TotalOf(s, 1..(k - 1)) + s[k]
      BY <1>2, <1>10, <2>1
  <2> QED BY <2>2, TotalUpTo
<1> HIDE DEF Equal
<1>11. 0..n \subseteq Equal
    BY <1>9, <1>10, PlaceInduction
<1>12. n \in Equal
    BY <1>11
<1> QED BY <1>8, <1>12 DEF Equal

\* Adding it up in a width that wraps gives what fits, the total or less.
LEMMA WrappedSum ==
    ASSUME NEW n \in Nat, NEW s, \A i \in 1..n : s[i] \in Nat, NEW m \in Nat, m > 0,
           NEW the, SumsUpTo(the, s, n, m)
    PROVE  the[1..n] \in Nat /\ the[1..n] < m /\ the[1..n] <= TotalOf(s, 1..n)
<1> DEFINE Folds(it) == it = [p \in SUBSET (1..n) |->
                        IF p = {} THEN 0 ELSE (it[p \ {Max(p)}] + s[Max(p)]) % m]
<1>13. ASSUME NEW i \in Nat, NEW j \in Nat 
      PROVE  (i + j) % m \in Nat /\ (i + j) % m < m /\ (i + j) % m <= i + j
  <2>1. PICK k \in Nat : k = i + j
      OBVIOUS
  <2>2. k % m \in Nat /\ k % m < m /\ k % m <= k
      OBVIOUS
  <2> QED BY <2>1, <2>2
<1>0. PICK Good : Good = Nat
    OBVIOUS
<1>1. PICK turn : turn = [i \in 1..n |-> [acc \in Nat |-> (acc + s[i]) % m]]
    OBVIOUS
<1>2. \A acc \in Nat, i \in 1..n :
          turn[i][acc] = (acc + s[i]) % m /\ turn[i][acc] \in Nat
          /\ turn[i][acc] < m /\ turn[i][acc] <= acc + s[i]
    BY <1>1, <1>13
<1>3. PICK some : FoldsAll(some, turn, 0, n) /\ StaysGood(some, n, Good)
  <2>1. 0 \in Good /\ \A acc \in Good, k \in 1..n : turn[k][acc] \in Good
      BY <1>0, <1>2
  <2> QED BY <2>1, FoldExists
<1>4. \A p \in SUBSET (1..n) : p # {} =>
          turn[Max(p)][some[p \ {Max(p)}]] = (some[p \ {Max(p)}] + s[Max(p)]) % m
    BY <1>0, <1>2, <1>3, LastOfPlaces DEF StaysGood
<1>5. Folds(some)
    BY <1>3, <1>4 DEF FoldsAll
<1>6. Folds(the)
  <2>1. the = CHOOSE it : Folds(it)
      BY DEF SumsUpTo
  <2> HIDE DEF Folds
  <2> QED BY <1>5, <2>1
<1>7. FoldsIn(the, turn, 0, n, Good)
  <2>1. ASSUME NEW p \in SUBSET (1..n), p # {}, the[p \ {Max(p)}] \in Good
        PROVE  the[p] = turn[Max(p)][the[p \ {Max(p)}]]
    <3>0. Max(p) \in 1..n
        BY <2>1, LastOfPlaces
    <3>1. PICK k \in 1..n, a \in Nat : k = Max(p) /\ a = the[p \ {Max(p)}]
        BY <1>0, <2>1, <3>0
    <3>2. the[p] = (a + s[k]) % m
        BY <1>6, <2>1, <3>1
    <3> QED BY <1>2, <3>1, <3>2
  <2>2. the[{}] = 0
      BY <1>6
  <2> HIDE DEF Folds
  <2> QED BY <2>1, <2>2 DEF FoldsIn
<1> HIDE DEF Folds
<1>8. PICK acc : GoesThrough(acc, turn, 0, n, Good) /\ acc[n] = the[1..n]
  <2>1. PICK base \in Good : base = 0
      BY <1>0
  <2>2. n \in Nat /\ base \in Good /\ \A acc \in Good, i \in 1..n : turn[i][acc] \in Good
      BY <1>0, <1>2, <2>1
  <2>3. FoldsIn(the, turn, base, n, Good)
      BY <1>7, <2>1
  <2>4. PICK acc : acc = [k \in 0..n |-> the[1..k]]
      OBVIOUS
  <2>5. GoesThrough([k \in 0..n |-> the[1..k]], turn, base, n, Good)
      BY <2>2, <2>3, FoldSteps
  <2>6. acc[n] = the[1..n]
      BY <2>4
  <2> QED BY <2>1, <2>4, <2>5, <2>6
<1> DEFINE NoMore == {k \in 0..n : acc[k] \in Nat /\ acc[k] < m /\ acc[k] <= TotalOf(s, 1..k)}
<1>9. 0 \in NoMore
  <2>1. acc[0] = 0 /\ 0 \in 0..n
      BY <1>8 DEF GoesThrough
  <2>2. TotalOf(s, 1..0) = 0
      BY TotalUpTo
  <2> QED BY <2>1, <2>2
<1>10. ASSUME NEW k \in 1..n, k - 1 \in NoMore PROVE k \in NoMore
  <2>1. k - 1 \in 0..n /\ acc[k] = turn[k][acc[k - 1]]
      BY <1>8 DEF GoesThrough
  <2>2. PICK a \in Nat, t \in Nat, v \in Nat :
            a = acc[k - 1] /\ t = TotalOf(s, 1..(k - 1)) /\ v = s[k] /\ a <= t
      BY <1>10, <2>1, TotalUpTo
  <2>3. acc[k] \in Nat /\ acc[k] < m /\ acc[k] <= a + v
      BY <1>2, <2>1, <2>2
  <2>4. TotalOf(s, 1..k) = t + v
      BY <2>2, TotalUpTo
  <2>5. PICK b \in Nat : b = acc[k] /\ b < m /\ b <= a + v
      BY <2>3
  <2>6. b <= t + v
      BY <2>2, <2>5
  <2> QED BY <2>4, <2>5, <2>6
<1> HIDE DEF NoMore
<1>11. 0..n \subseteq NoMore
    BY <1>9, <1>10, PlaceInduction
<1>12. n \in NoMore
    BY <1>11
<1> QED BY <1>8, <1>12 DEF NoMore
=============================================================================
