---- MODULE QueryFieldsProofs ----
(***************************************************************************)
(* Proofs about QueryFields, for every table of case folding, every set of *)
(* names and every entity: folding a name decides strings.EqualFold, and a *)
(* served resource resolves names as they are declared.                    *)
(***************************************************************************)
EXTENDS QueryFields, FiniteSetTheorems, WellFoundedInduction, TLAPS

----
(* Folding                                                                 *)

\* The cycle of a code point has one least member.
LEMMA Cycle ==
  ASSUME NEW r \in CodePoints
  PROVE  \E o \in Orbits : /\ r \in o /\ (CHOOSE p \in Orbits : r \in p) = o
                           /\ Least(o) \in o /\ \A s \in o : Least(o) <= s
                           /\ o \subseteq Nat
<1>1. PICK o \in Orbits : r \in o
  BY OrbitAssumption
<1>2. (CHOOSE p \in Orbits : r \in p) = o
  <2>1. \A p \in Orbits : r \in p => p = o
    BY <1>1, OrbitAssumption
  <2> QED
    BY <1>1, <2>1
<1>3. PICK least \in o : \A s \in o : least <= s
  BY OrbitAssumption
<1>4. Least(o) \in o /\ \A s \in o : Least(o) <= s
  BY <1>3 DEF Least
<1>5. o \subseteq Nat
  BY OrbitAssumption
<1> QED
  BY <1>1, <1>2, <1>4, <1>5

\* A folded code point is a member of its own cycle.
LEMMA FoldStays ==
  ASSUME NEW r \in CodePoints
  PROVE  \E o \in Orbits : r \in o /\ FoldRune(r) \in o
<1>1. PICK o \in Orbits : /\ r \in o /\ (CHOOSE p \in Orbits : r \in p) = o
                          /\ Least(o) \in o /\ \A s \in o : Least(o) <= s
                          /\ o \subseteq Nat
  BY Cycle
<1>2. PICK least \in o : \A s \in o : least <= s /\ (least \in Capitals => least + 32 \in o)
  BY <1>1, OrbitAssumption
<1>3. Least(o) = least
  <2>1. Least(o) <= least /\ least <= Least(o) /\ Least(o) \in Nat /\ least \in Nat
    BY <1>1, <1>2
  <2> QED
    BY <2>1
<1>4. FoldRune(r) = IF Least(o) \in Capitals THEN Least(o) + 32 ELSE Least(o)
  BY <1>1 DEF FoldRune
<1> QED
  BY <1>1, <1>2, <1>3, <1>4

\* Two code points fold to the same one if they are in the same cycle, and only then.
LEMMA FoldRuneDecides ==
  ASSUME NEW r \in CodePoints, NEW s \in CodePoints
  PROVE  FoldRune(r) = FoldRune(s) <=> \E o \in Orbits : {r, s} \subseteq o
<1>1. PICK o \in Orbits : r \in o /\ FoldRune(r) \in o
  BY FoldStays
<1>2. PICK p \in Orbits : s \in p /\ FoldRune(s) \in p
  BY FoldStays
<1>3. ASSUME FoldRune(r) = FoldRune(s) PROVE \E q \in Orbits : {r, s} \subseteq q
  <2>1. o = p
    BY <1>1, <1>2, <1>3, OrbitAssumption
  <2> QED
    BY <1>1, <1>2, <2>1
<1>4. ASSUME NEW q \in Orbits, {r, s} \subseteq q PROVE FoldRune(r) = FoldRune(s)
  <2>1. PICK c \in Orbits : r \in c /\ (CHOOSE x \in Orbits : r \in x) = c
    BY Cycle
  <2>2. PICK d \in Orbits : s \in d /\ (CHOOSE x \in Orbits : s \in x) = d
    BY Cycle
  <2>3. c = q /\ d = q
    BY <1>4, <2>1, <2>2, OrbitAssumption
  <2>4. FoldRune(r) = IF Least(c) \in Capitals THEN Least(c) + 32 ELSE Least(c)
    BY <2>1 DEF FoldRune
  <2>5. FoldRune(s) = IF Least(d) \in Capitals THEN Least(d) + 32 ELSE Least(d)
    BY <2>2 DEF FoldRune
  <2> QED
    BY <2>3, <2>4, <2>5
<1> QED
  BY <1>3, <1>4

\* The fast path of foldQueryFieldName returns what the slow path would.
LEMMA LowerIsFolded ==
  ASSUME NEW r \in CodePoints, r < 128, r \notin Capitals
  PROVE  FoldRune(r) = r
<1>1. PICK o \in Orbits : /\ r \in o /\ (CHOOSE p \in Orbits : r \in p) = o
                          /\ Least(o) \in o /\ \A s \in o : Least(o) <= s
                          /\ o \subseteq Nat
  BY Cycle
<1>2. PICK least \in o : \A s \in o :
        /\ least <= s
        /\ s < 128 => s = least \/ (least \in Capitals /\ s = least + 32)
  BY <1>1, OrbitAssumption
<1>3. Least(o) = least
  <2>1. Least(o) <= least /\ least <= Least(o) /\ Least(o) \in Nat /\ least \in Nat
    BY <1>1, <1>2
  <2> QED
    BY <2>1
<1>4. FoldRune(r) = IF least \in Capitals THEN least + 32 ELSE least
  BY <1>1, <1>3 DEF FoldRune
<1>5. r = least \/ (least \in Capitals /\ r = least + 32)
  BY <1>1, <1>2
<1> QED
  BY <1>4, <1>5

LEMMA FoldIsPointwise ==
  ASSUME NEW name \in Seq(CodePoints)
  PROVE  Fold(name) = [i \in 1..Len(name) |-> FoldRune(name[i])]
<1>1. /\ DOMAIN name = 1..Len(name) /\ \A i \in 1..Len(name) : name[i] \in CodePoints
      /\ name = [i \in 1..Len(name) |-> name[i]]
  OBVIOUS
<1>2. CASE AsciiLower(name)
  <2>1. \A i \in 1..Len(name) : FoldRune(name[i]) = name[i]
    BY <1>1, <1>2, LowerIsFolded DEF AsciiLower
  <2>2. [i \in 1..Len(name) |-> FoldRune(name[i])] = [i \in 1..Len(name) |-> name[i]]
    BY <2>1
  <2> QED
    BY <1>1, <1>2, <2>2 DEF Fold
<1>3. CASE ~AsciiLower(name)
  BY <1>1, <1>3 DEF Fold
<1> QED
  BY <1>2, <1>3

(* foldQueryFieldName gives two names the same key if strings.EqualFold    *)
(* holds of them, and only then.  (query_fields.go:159-160)                *)
THEOREM FoldingIsEqualFold ==
  ASSUME NEW a \in Seq(CodePoints), NEW b \in Seq(CodePoints)
  PROVE  Fold(a) = Fold(b) <=> EqualFold(a, b)
<1> DEFINE folded(n) == [i \in 1..Len(n) |-> FoldRune(n[i])]
<1>1. Fold(a) = folded(a) /\ Fold(b) = folded(b)
  BY FoldIsPointwise
<1>2. /\ Len(a) \in Nat /\ DOMAIN a = 1..Len(a) /\ \A i \in 1..Len(a) : a[i] \in CodePoints
      /\ Len(b) \in Nat /\ DOMAIN b = 1..Len(b) /\ \A i \in 1..Len(b) : b[i] \in CodePoints
  OBVIOUS
<1>3. ASSUME Fold(a) = Fold(b) PROVE EqualFold(a, b)
  <2>1. folded(a) = folded(b)
    BY <1>1, <1>3
  <2>2. 1..Len(a) = 1..Len(b)
    <3>1. DOMAIN folded(a) = 1..Len(a) /\ DOMAIN folded(b) = 1..Len(b)
      OBVIOUS
    <3> QED
      BY <2>1, <3>1
  <2>3. Len(a) = Len(b)
    <3> DEFINE m == Len(a)
               n == Len(b)
    <3>1. m \in Nat /\ n \in Nat /\ 1..m = 1..n
      BY <1>2, <2>2
    <3> HIDE DEF m, n
    <3>2. m \in 1..m \/ m = 0
      BY <3>1
    <3>3. n \in 1..n \/ n = 0
      BY <3>1
    <3>4. m <= n /\ n <= m
      BY <3>1, <3>2, <3>3
    <3>5. m = n
      BY <3>1, <3>4
    <3> QED
      BY <3>5 DEF m, n
  <2>4. ASSUME NEW i \in DOMAIN a PROVE \E o \in Orbits : {a[i], b[i]} \subseteq o
    <3>1. i \in 1..Len(a) /\ i \in 1..Len(b)
      BY <1>2, <2>3
    <3>2. folded(a)[i] = FoldRune(a[i]) /\ folded(b)[i] = FoldRune(b[i])
      BY <3>1
    <3>3. FoldRune(a[i]) = FoldRune(b[i])
      BY <2>1, <3>2
    <3> QED
      BY <1>2, <3>1, <3>3, FoldRuneDecides
  <2> QED
    BY <2>3, <2>4 DEF EqualFold
<1>4. ASSUME EqualFold(a, b) PROVE Fold(a) = Fold(b)
  <2>1. Len(a) = Len(b)
    BY <1>4 DEF EqualFold
  <2>2. \A i \in 1..Len(a) : FoldRune(a[i]) = FoldRune(b[i])
    BY <1>2, <1>4, <2>1, FoldRuneDecides DEF EqualFold
  <2>3. folded(a) = [i \in 1..Len(a) |-> FoldRune(b[i])]
    BY <2>2
  <2>4. folded(a) = folded(b)
    BY <2>1, <2>3
  <2> QED
    BY <1>1, <2>4
<1> QED
  BY <1>3, <1>4

----
(* Recursion and induction on data                                         *)

\* Of finite sets, one is minimal.
LEMMA MinimalSet ==
  ASSUME NEW S, NEW T, T \subseteq FiniteSubsetsOf(S), T # {}
  PROVE  \E x \in T : \A y \in T : y \subseteq x => y = x
<1> DEFINE R == StrictSubsetOrdering(S)
<1>1. IsWellFoundedOn(R, FiniteSubsetsOf(S))
  BY FS_StrictSubsetOrderingWellFounded
<1>2. PICK x \in T : \A y \in T : <<y, x>> \notin R
  <2> HIDE DEF R
  <2> QED
    BY <1>1, WFMin
<1> QED
  BY <1>2 DEF StrictSubsetOrdering, FiniteSubsetsOf

\* Of natural numbers, one is the least.
LEMMA LeastNumber ==
  ASSUME NEW T \in SUBSET Nat, T # {}
  PROVE  \E x \in T : \A y \in T : x <= y
<1> DEFINE U == {0..x : x \in T}
<1>1. U \subseteq FiniteSubsetsOf(Nat) /\ U # {}
  <2>1. \A x \in T : 0..x \in SUBSET Nat /\ IsFiniteSet(0..x)
    BY FS_Interval
  <2> QED
    BY <2>1 DEF FiniteSubsetsOf
<1>2. PICK s \in U : \A t \in U : t \subseteq s => t = s
  <2> HIDE DEF U
  <2> QED
    BY <1>1, MinimalSet
<1>3. PICK x \in T : s = 0..x
  BY <1>2
<1>4. ASSUME NEW y \in T, y < x PROVE FALSE
  <2>1. 0..y \in U /\ 0..y \subseteq 0..x
    BY <1>4
  <2>2. 0..y = 0..x
    BY <1>2, <1>3, <2>1
  <2>3. x \in 0..x /\ x \notin 0..y
    BY <1>4
  <2> QED
    BY <2>2, <2>3
<1> QED
  BY <1>4

\* What each member of D depends on: every nonempty part of D has a member that
\* depends on none of the part.
Founded(D, pred) ==
  /\ pred \in [D -> SUBSET D]
  /\ \A T \in SUBSET D : T # {} => \E x \in T : pred[x] \cap T = {}

\* A value in V for a member of D from the values of what it depends on alone.
Recurses(D, V, pred, Step) ==
  /\ V # {} /\ Step \in [D \X [D -> V] -> V]
  /\ \A x \in D : \A g, h \in [D -> V] : (\A y \in pred[x] : g[y] = h[y]) => Step[<<x, g>>] = Step[<<x, h>>]

\* A recursive definition on a founded set has a solution, so that what CHOOSE
\* picks for it is one: the union of the solutions on closed parts of D.
LEMMA RecursionExists ==
  ASSUME NEW D, NEW V, NEW pred, NEW Step, Founded(D, pred), Recurses(D, V, pred, Step)
  PROVE  \E f \in [D -> V] : \A x \in D : f[x] = Step[<<x, f>>]
<1> USE DEF Founded, Recurses
<1> DEFINE Solves(C, g) == /\ C \in SUBSET D /\ g \in [D -> V]
                           /\ \A x \in C : pred[x] \subseteq C /\ g[x] = Step[<<x, g>>]
           A == {x \in D : \E C \in SUBSET D, g \in [D -> V] : x \in C /\ Solves(C, g)}
           Value(x) == CHOOSE v \in V : \E C \in SUBSET D, g \in [D -> V] : x \in C /\ Solves(C, g) /\ v = g[x]
           f == [x \in D |-> IF x \in A THEN Value(x) ELSE CHOOSE v \in V : TRUE]
<1>1. ASSUME NEW B, NEW g, NEW C, NEW h, Solves(B, g), Solves(C, h)
      PROVE  \A x \in B \cap C : g[x] = h[x]
  <2> DEFINE T == {x \in B \cap C : g[x] # h[x]}
  <2> SUFFICES ASSUME T # {} PROVE FALSE
    OBVIOUS
  <2>1. T \in SUBSET D
    BY <1>1
  <2>2. PICK x \in T : pred[x] \cap T = {}
    <3> HIDE DEF T
    <3> QED
      BY <2>1
  <2>3. x \in D /\ \A y \in pred[x] : y \in B \cap C
    BY <1>1, <2>1, <2>2
  <2>4. \A y \in pred[x] : g[y] = h[y]
    BY <2>2, <2>3
  <2>5. g \in [D -> V] /\ h \in [D -> V]
    BY <1>1
  <2>6. Step[<<x, g>>] = Step[<<x, h>>]
    <3> HIDE DEF T
    <3> QED
      BY <2>3, <2>4, <2>5
  <2> QED
    BY <1>1, <2>6
<1>2. ASSUME NEW C, NEW g, Solves(C, g), NEW x \in C
      PROVE  x \in A /\ f[x] = g[x] /\ Value(x) \in V
  <2>1. x \in A /\ x \in D
    BY <1>2
  <2>2. g[x] \in V /\ \E B \in SUBSET D, h \in [D -> V] : x \in B /\ Solves(B, h) /\ g[x] = h[x]
    BY <1>2
  <2> DEFINE v == Value(x)
  <2>3. v \in V /\ \E B \in SUBSET D, h \in [D -> V] : x \in B /\ Solves(B, h) /\ v = h[x]
    BY <2>2
  <2>4. v = g[x]
    <3>1. PICK B \in SUBSET D, h \in [D -> V] : x \in B /\ Solves(B, h) /\ v = h[x]
      BY <2>3
    <3> HIDE DEF Solves, v
    <3> QED
      BY <1>1, <1>2, <3>1
  <2> HIDE DEF A, Solves
  <2> QED
    BY <2>1, <2>3, <2>4
<1>3. f \in [D -> V]
  <2>1. \A x \in A : Value(x) \in V
    BY <1>2
  <2>2. (CHOOSE v \in V : TRUE) \in V
    OBVIOUS
  <2> HIDE DEF A, Value
  <2> QED
    BY <2>1, <2>2
<1>4. \A x \in A : pred[x] \subseteq A /\ f[x] = Step[<<x, f>>]
  <2> SUFFICES ASSUME NEW x \in A PROVE pred[x] \subseteq A /\ f[x] = Step[<<x, f>>]
    OBVIOUS
  <2>1. PICK C \in SUBSET D, g \in [D -> V] : x \in C /\ Solves(C, g)
    OBVIOUS
  <2>2. pred[x] \subseteq C /\ g[x] = Step[<<x, g>>]
    BY <2>1
  <2> HIDE DEF A, Solves, f
  <2>3. \A y \in C : y \in A /\ f[y] = g[y]
    BY <1>2, <2>1
  <2>4. x \in D /\ f \in [D -> V] /\ g \in [D -> V] /\ \A y \in pred[x] : f[y] = g[y]
    BY <1>3, <2>1, <2>2, <2>3
  <2>5. Step[<<x, f>>] = Step[<<x, g>>]
    BY <2>4
  <2> QED
    BY <2>1, <2>2, <2>3, <2>5
<1>5. A = D
  <2> SUFFICES ASSUME D \ A # {} PROVE FALSE
    OBVIOUS
  <2>1. PICK x \in D \ A : pred[x] \cap (D \ A) = {}
    <3> HIDE DEF A
    <3> QED OBVIOUS
  <2>2. pred[x] \subseteq A /\ pred[x] \subseteq D /\ A \subseteq D
    BY <2>1
  <2> DEFINE g == [f EXCEPT ![x] = Step[<<x, f>>]]
             C == A \cup {x}
  <2> HIDE DEF A, f
  <2>3. g \in [D -> V] /\ \A y \in D : g[y] = IF y = x THEN Step[<<x, f>>] ELSE f[y]
    BY <1>3, <2>1
  <2>4. \A y \in C : pred[y] \subseteq A
    BY <1>4, <2>2
  <2>5. \A y \in C : \A z \in pred[y] : g[z] = f[z]
    BY <2>1, <2>2, <2>3, <2>4
  <2>6. ASSUME NEW y \in C PROVE Step[<<y, g>>] = Step[<<y, f>>]
    <3>1. y \in D /\ \A z \in pred[y] : g[z] = f[z]
      BY <2>1, <2>2, <2>5
    <3> HIDE DEF g, C
    <3> QED
      BY <1>3, <2>3, <3>1
  <2>7. \A y \in C : g[y] = Step[<<y, g>>]
    BY <1>4, <2>1, <2>2, <2>3, <2>6
  <2>8. Solves(C, g)
    BY <2>1, <2>2, <2>3, <2>4, <2>7
  <2>9. x \in A
    <3>1. C \in SUBSET D /\ x \in C
      BY <2>1, <2>2
    <3> HIDE DEF Solves, g, C
    <3> QED
      BY <2>1, <2>3, <2>8, <3>1 DEF A
  <2> QED
    BY <2>1, <2>9
<1> HIDE DEF A, f
<1> QED
  BY <1>3, <1>4, <1>5

\* Max, by which the folds of the community modules go through a sequence.
LEMMA Maximum ==
  ASSUME NEW n \in Nat, NEW s \in SUBSET (1..n), s # {}
  PROVE  Max(s) \in s /\ \A x \in s : x <= Max(s)
<1> DEFINE T == {n - x : x \in s}
<1>1. T \in SUBSET Nat /\ T # {}
  <2>1. \A x \in s : n - x \in Nat
    OBVIOUS
  <2> QED
    BY <2>1
<1>2. PICK least \in T : \A y \in T : least <= y
  <2> HIDE DEF T
  <2> QED
    BY <1>1, LeastNumber
<1>3. PICK m \in s : least = n - m
  BY <1>2
<1>4. \A x \in s : x <= m
  BY <1>2, <1>3
<1> QED
  BY <1>3, <1>4 DEF Max

\* A fold over 1..n, and a function that computes it on every part of 1..n.
FoldsOn(V, n, base, op) == n \in Nat /\ base \in V /\ op \in [V \X (1..n) -> V]

SolvesFold(h, V, n, base, op) ==
  \A s \in SUBSET (1..n) :
    /\ h[s] = IF s = {} THEN base ELSE op[<<h[s \ {Max(s)}], Max(s)>>]
    /\ s # {} => Max(s) \in 1..n /\ h[s \ {Max(s)}] \in V

LEMMA FoldExists ==
  ASSUME NEW V, NEW n, NEW base, NEW op, FoldsOn(V, n, base, op)
  PROVE  \E h : SolvesFold(h, V, n, base, op)
<1> DEFINE D == SUBSET (1..n)
           pred == [s \in D |-> IF s = {} THEN {} ELSE {s \ {Max(s)}}]
           Step == [a \in D \X [D -> V] |-> IF a[1] = {} THEN base ELSE op[<<a[2][a[1] \ {Max(a[1])}], Max(a[1])>>]]
<1>0. n \in Nat /\ base \in V /\ op \in [V \X (1..n) -> V]
  BY DEF FoldsOn
<1>1. pred \in [D -> SUBSET D]
  OBVIOUS
<1>2. ASSUME NEW s \in D, NEW g \in [D -> V]
      PROVE  Step[<<s, g>>] \in V /\ Step[<<s, g>>] = IF s = {} THEN base ELSE op[<<g[s \ {Max(s)}], Max(s)>>]
  <2>1. s # {} => Max(s) \in 1..n /\ s \ {Max(s)} \in D
    BY <1>0, Maximum
  <2> QED
    BY <1>0, <2>1
<1>3. Step \in [D \X [D -> V] -> V]
  BY <1>2
<1>4. ASSUME NEW T \in SUBSET D, T # {} PROVE \E x \in T : pred[x] \cap T = {}
  <2>1. T \subseteq FiniteSubsetsOf(1..n)
    <3>1. IsFiniteSet(1..n)
      BY <1>0, FS_Interval
    <3> QED
      BY <3>1, FS_FiniteSubsetsOfFinite
  <2>2. PICK x \in T : \A y \in T : y \subseteq x => y = x
    <3>1. T # {}
      BY <1>4
    <3> HIDE DEF D
    <3> QED
      BY <2>1, <3>1, MinimalSet
  <2>3. x \in D /\ (x # {} => Max(x) \in x)
    BY <1>0, Maximum
  <2> QED
    BY <2>2, <2>3
<1>5. ASSUME NEW s \in D, NEW g \in [D -> V], NEW h \in [D -> V], \A y \in pred[s] : g[y] = h[y]
      PROVE  Step[<<s, g>>] = Step[<<s, h>>]
  <2>1. s # {} => g[s \ {Max(s)}] = h[s \ {Max(s)}]
    BY <1>5
  <2> HIDE DEF Step
  <2> QED
    BY <1>2, <2>1
<1>6. \E f \in [D -> V] : \A x \in D : f[x] = Step[<<x, f>>]
  <2> HIDE DEF pred, Step, D
  <2>1. Founded(D, pred)
    BY <1>1, <1>4 DEF Founded
  <2>2. Recurses(D, V, pred, Step)
    BY <1>0, <1>3, <1>5 DEF Recurses
  <2> QED
    BY <2>1, <2>2, RecursionExists
<1> QED
  <2>1. PICK f \in [D -> V] : \A x \in D : f[x] = Step[<<x, f>>]
    BY <1>6
  <2>2. \A s \in D : f[s] = IF s = {} THEN base ELSE op[<<f[s \ {Max(s)}], Max(s)>>]
    <3> HIDE DEF Step
    <3> QED
      BY <1>2, <2>1
  <2>3. \A s \in D : s # {} => Max(s) \in 1..n /\ f[s \ {Max(s)}] \in V
    BY <1>0, <2>1, Maximum
  <2> QED
    BY <2>2, <2>3 DEF SolvesFold

\* The initial segments on which such a fold works.
LEMMA InitialSegments ==
  ASSUME NEW n \in Nat, NEW k \in 1..n
  PROVE  /\ 1..k \in SUBSET (1..n) /\ 1..k # {} /\ 1..(k - 1) \in SUBSET (1..n)
         /\ (1..k) \ {Max(1..k)} = 1..(k - 1) /\ Max(1..k) = k
<1>1. 1..k \in SUBSET (1..n) /\ 1..k # {} /\ k \in 1..k
  OBVIOUS
<1>2. Max(1..k) \in 1..k /\ \A x \in 1..k : x <= Max(1..k)
  BY <1>1, Maximum, Zenon
<1>3. Max(1..k) = k
  BY <1>1, <1>2
<1>4. (1..k) \ {k} = 1..(k - 1) /\ 1..(k - 1) \in SUBSET (1..n)
  OBVIOUS
<1>5. (1..k) \ {Max(1..k)} = 1..(k - 1)
  BY <1>3, <1>4
<1> QED
  BY <1>1, <1>3, <1>4, <1>5

\* Induction over a number, on the set of those that have a property.
LEMMA Induction ==
  ASSUME NEW n \in Nat, NEW T, 0 \in T, \A k \in 1..n : k - 1 \in T => k \in T
  PROVE  0..n \subseteq T
<1> DEFINE U == (0..n) \ T
<1> SUFFICES ASSUME U # {} PROVE FALSE
  OBVIOUS
<1>1. U \in SUBSET Nat
  OBVIOUS
<1>2. PICK k \in U : \A i \in U : k <= i
  <2> HIDE DEF U
  <2> QED
    BY <1>1, LeastNumber
<1>3. k \in 1..n /\ k - 1 \in 0..n /\ ~(k <= k - 1)
  BY <1>2
<1> QED
  BY <1>2, <1>3

----
(* Go paths                                                                *)

\* A walk over a path from type t: the places that FieldIndex goes through.
Walks(g, types, t, path) ==
  /\ g[0] = [type |-> t, index |-> <<>>]
  /\ \A k \in 1..Len(path) : g[k] = Enter(types, g[k - 1], path[k])

LEMMA EnterTyped ==
  ASSUME NEW m \in Models, NEW at, at.type \in DOMAIN m.types, at.index \in Seq(STRING), NEW part
  PROVE  Enter(m.types, at, part) \in [type : DOMAIN m.types, index : Seq(STRING)]
<1> DEFINE found == {f \in Visible(m.types, at.type, part) : f.exported}
<1>1. CASE found = {}
  <2>1. <<>> \in Seq(STRING) /\ NoType \in DOMAIN m.types
    BY StructAssumption
  <2> QED
    BY <1>1, <2>1 DEF Enter, Lost
<1>2. CASE found # {}
  <2> DEFINE f == CHOOSE g \in found : TRUE
  <2>1. f \in m.types[at.type].visible
    BY <1>2 DEF Visible
  <2>2. f.type \in DOMAIN m.types /\ f.index \in Seq(STRING)
    BY <2>1, StructAssumption
  <2> HIDE DEF f
  <2>3. at.index \o f.index \in Seq(STRING)
    BY <2>2
  <2>4. Enter(m.types, at, part) = [type |-> f.type, index |-> at.index \o f.index]
    BY <1>2 DEF Enter, f
  <2> QED
    BY <2>2, <2>3, <2>4
<1> QED
  BY <1>1, <1>2

\* The fold of FieldIndex goes through the path from its first name.
LEMMA IndexUnrolls ==
  ASSUME NEW m \in Models, NEW t \in DOMAIN m.types, NEW path \in Seq(STRING)
  PROVE  \E g : Walks(g, m.types, t, path) /\ FieldIndex(m.types, t, path) = g[Len(path)].index
<1> DEFINE V == [type : DOMAIN m.types, index : Seq(STRING)]
           n == Len(path)
           start == [type |-> t, index |-> <<>>]
           op == [a \in V \X (1..n) |-> Enter(m.types, a[1], path[a[2]])]
           Eq(f) == f = [s \in SUBSET DOMAIN path |->
                           IF s = {} THEN start ELSE Enter(m.types, f[s \ {Max(s)}], path[Max(s)])]
           fold == CHOOSE f : Eq(f)
           g == [k \in 0..n |-> fold[1..k]]
<1>1. n \in Nat /\ DOMAIN path = 1..n /\ start \in V
  OBVIOUS
<1>2. ASSUME NEW v \in V, NEW k \in 1..n
      PROVE  op[<<v, k>>] = Enter(m.types, v, path[k]) /\ Enter(m.types, v, path[k]) \in V
  BY EnterTyped
<1>3. FoldsOn(V, n, start, op)
  <2>1. ASSUME NEW a \in V \X (1..n) PROVE Enter(m.types, a[1], path[a[2]]) \in V
    <3>1. a[1] \in V /\ a[2] \in 1..n
      OBVIOUS
    <3> QED
      BY <1>2, <3>1
  <2> QED
    BY <1>1, <2>1 DEF FoldsOn
<1> HIDE DEF V, op, n, start
<1>4. PICK h : SolvesFold(h, V, n, start, op)
  BY <1>3, FoldExists
<1>5. Eq([s \in SUBSET (1..n) |-> h[s]])
  BY <1>1, <1>2, <1>4 DEF SolvesFold
<1>6. Eq(fold)
  <2> HIDE DEF Eq
  <2> QED
    BY <1>5
<1>7. FieldIndex(m.types, t, path) = fold[DOMAIN path].index
  BY DEF FoldLeft, MapThenFoldSet, FieldIndex, start
<1> HIDE DEF fold
<1>8. fold[{}] = start /\ \A k \in 1..n : fold[1..k] = Enter(m.types, fold[1..(k - 1)], path[k])
  <2>1. \A s \in SUBSET (1..n) : fold[s] = IF s = {} THEN start ELSE Enter(m.types, fold[s \ {Max(s)}], path[Max(s)])
    BY <1>1, <1>6
  <2>2. ASSUME NEW k \in 1..n PROVE fold[1..k] = Enter(m.types, fold[1..(k - 1)], path[k])
    <3>1. /\ 1..k \in SUBSET (1..n) /\ 1..k # {}
          /\ (1..k) \ {Max(1..k)} = 1..(k - 1) /\ Max(1..k) = k
      BY <1>1, InitialSegments
    <3>2. fold[1..k] = Enter(m.types, fold[(1..k) \ {Max(1..k)}], path[Max(1..k)])
      BY <2>1, <3>1
    <3> QED
      BY <3>1, <3>2
  <2> QED
    BY <2>1, <2>2
<1>9. 1..0 = {}
  OBVIOUS
<1> QED
  <2>1. g[0] = start
    BY <1>1, <1>8, <1>9
  <2>2. \A k \in 1..n : g[k] = Enter(m.types, g[k - 1], path[k])
    BY <1>1, <1>8
  <2>3. g[n].index = fold[DOMAIN path].index
    BY <1>1
  <2> HIDE DEF g
  <2> QED
    BY <1>7, <2>1, <2>2, <2>3 DEF n, start, Walks

\* Flattening appends one sequence after the other.
LEMMA Flattens ==
  ASSUME NEW seqs \in Seq(Seq(STRING))
  PROVE  \E h : /\ h[0] = <<>> /\ FlattenSeq(seqs) = h[Len(seqs)]
                /\ \A k \in 1..Len(seqs) : h[k] = h[k - 1] \o seqs[k]
<1> DEFINE n == Len(seqs)
           D == 1..n
           V == Seq(STRING)
           pred == [i \in D |-> D \cap {i - 1}]
           Flat(i, f) == IF i = 1 THEN seqs[i] ELSE f[i - 1] \o seqs[i]
           Step == [a \in D \X [D -> V] |-> Flat(a[1], a[2])]
           Eq(f) == f = [i \in D |-> Flat(i, f)]
           flatten == CHOOSE f : Eq(f)
<1>1. n \in Nat /\ \A i \in D : seqs[i] \in V
  OBVIOUS
<1>2. ASSUME NEW i \in D, NEW f \in [D -> V] PROVE Step[<<i, f>>] = Flat(i, f) /\ Flat(i, f) \in V
  <2>1. i # 1 => i - 1 \in D
    BY <1>1
  <2>2. Flat(i, f) \in V
    <3>1. CASE i = 1
      BY <1>1, <3>1
    <3>2. CASE i # 1
      <4>1. f[i - 1] \in V /\ seqs[i] \in V
        BY <1>1, <2>1, <3>2
      <4> HIDE DEF D
      <4>2. f[i - 1] \o seqs[i] \in V
        BY <4>1
      <4> QED
        BY <3>2, <4>2
    <3> QED
      BY <3>1, <3>2
  <2> HIDE DEF Flat
  <2> QED
    BY <2>2
<1>3. Founded(D, pred)
  <2>1. pred \in [D -> SUBSET D]
    OBVIOUS
  <2>2. ASSUME NEW T \in SUBSET D, T # {} PROVE \E x \in T : pred[x] \cap T = {}
    <3>1. T \in SUBSET Nat
      BY <1>1
    <3>2. PICK x \in T : \A y \in T : x <= y
      BY <2>2, <3>1, LeastNumber
    <3>3. x \in Nat /\ x - 1 \notin T
      BY <3>1, <3>2
    <3> QED
      BY <3>2, <3>3
  <2> QED
    BY <2>1, <2>2 DEF Founded
<1>4. Recurses(D, V, pred, Step)
  <2>1. Step \in [D \X [D -> V] -> V]
    <3> HIDE DEF Flat, D, V
    <3>1. \A a \in D \X [D -> V] : Flat(a[1], a[2]) \in V
      BY <1>2
    <3> QED
      BY <3>1
  <2>2. ASSUME NEW i \in D, NEW g \in [D -> V], NEW h \in [D -> V], \A y \in pred[i] : g[y] = h[y]
        PROVE  Step[<<i, g>>] = Step[<<i, h>>]
    <3>1. i # 1 => i - 1 \in pred[i]
      BY <1>1
    <3>2. Flat(i, g) = Flat(i, h)
      BY <2>2, <3>1
    <3> HIDE DEF Flat, Step
    <3> QED
      BY <1>2, <3>2
  <2>3. V # {}
    OBVIOUS
  <2> HIDE DEF Step, pred, D, V
  <2> QED
    BY <2>1, <2>2, <2>3 DEF Recurses
<1>5. PICK f \in [D -> V] : \A i \in D : f[i] = Step[<<i, f>>]
  <2> HIDE DEF Step, pred, D, V
  <2> QED
    BY <1>3, <1>4, RecursionExists
<1>6. Eq(f)
  <2>1. \A i \in D : f[i] = Flat(i, f)
    <3> HIDE DEF Flat, Step, D, V
    <3> QED
      BY <1>2, <1>5
  <2> HIDE DEF Flat
  <2> QED
    BY <1>5, <2>1
<1>7. Eq(flatten)
  <2> HIDE DEF Eq
  <2> QED
    BY <1>6
<1>8. n # 0 => FlattenSeq(seqs) = flatten[n]
  BY DEF FlattenSeq
<1>9. n = 0 => FlattenSeq(seqs) = <<>>
  BY DEF FlattenSeq
<1> DEFINE h == [k \in 0..n |-> IF k = 0 THEN <<>> ELSE flatten[k]]
<1> HIDE DEF flatten
<1>10. \A i \in D : flatten[i] = Flat(i, flatten)
  BY <1>7
<1>11. h[0] = <<>> /\ FlattenSeq(seqs) = h[n]
  BY <1>1, <1>8, <1>9
<1>12. ASSUME NEW k \in D PROVE h[k] = h[k - 1] \o seqs[k]
  <2>1. CASE k = 1
    <3>1. h[1] = seqs[1] /\ h[0] = <<>> /\ seqs[1] \in V
      BY <1>1, <1>10, <2>1
    <3> HIDE DEF h
    <3>2. <<>> \o seqs[1] = seqs[1]
      BY <3>1
    <3>3. k - 1 = 0
      BY <2>1
    <3>4. h[k - 1] = <<>> /\ h[k] = seqs[k] /\ seqs[k] = seqs[1]
      BY <2>1, <3>1, <3>3
    <3> QED
      BY <3>2, <3>4
  <2>2. CASE k # 1
    <3>1. flatten[k] = flatten[k - 1] \o seqs[k]
      BY <1>10, <2>2
    <3>2. h[k] = flatten[k] /\ h[k - 1] = flatten[k - 1]
      <4>1. k \in 0..n /\ k # 0 /\ k - 1 \in 0..n /\ k - 1 # 0
        BY <1>1, <2>2
      <4> QED
        BY <4>1
    <3> HIDE DEF h
    <3> QED
      BY <3>1, <3>2
  <2> QED
    BY <2>1, <2>2
<1> HIDE DEF h
<1> QED
  BY <1>11, <1>12

\* The selectors that go through exported fields only.
Exported(types, t, path) == {s \in Selectors(types, t, path) : \A i \in DOMAIN s : s[i].exported}

\* The type that a selector has reached after k names.
Reached(t, s, k) == IF k = 0 THEN t ELSE s[k].type

\* FieldIndex finds the place of a selector ...
LEMMA SelectorIsFound ==
  ASSUME NEW m \in Models, NEW t \in DOMAIN m.types, NEW path \in Seq(STRING), NEW s \in Exported(m.types, t, path)
  PROVE  FieldIndex(m.types, t, path) = Place(s)
<1> DEFINE n == Len(path)
           seqs == [i \in DOMAIN s |-> s[i].index]
<1>1. n \in Nat /\ DOMAIN path = 1..n /\ DOMAIN s = 1..n
  BY DEF Exported, Selectors
<1>2. ASSUME NEW k \in 1..n
      PROVE  /\ s[k].name = path[k] /\ s[k].exported
             /\ Reached(t, s, k - 1) \in DOMAIN m.types /\ s[k] \in m.types[Reached(t, s, k - 1)].visible
             /\ s[k].index \in Seq(STRING) /\ s[k].type \in DOMAIN m.types
  <2>1. \A i \in 1..n : s[i] \in UNION {m.types[u].visible : u \in DOMAIN m.types}
    BY <1>1 DEF Exported, Selectors
  <2>2. \A i \in 1..n : s[i].index \in Seq(STRING) /\ s[i].type \in DOMAIN m.types
    BY <2>1, StructAssumption
  <2>3. k = 1 \/ k - 1 \in 1..n
    BY <1>1
  <2>4. s[k].name = path[k] /\ s[k].exported /\ s[k] \in m.types[IF k = 1 THEN t ELSE s[k - 1].type].visible
    BY <1>1 DEF Exported, Selectors
  <2> QED
    BY <1>1, <2>2, <2>3, <2>4 DEF Reached
<1>3. PICK g : Walks(g, m.types, t, path) /\ FieldIndex(m.types, t, path) = g[n].index
  BY IndexUnrolls
<1>4. seqs \in Seq(Seq(STRING)) /\ Len(seqs) = n
  BY <1>1, <1>2
<1>5. PICK h : h[0] = <<>> /\ FlattenSeq(seqs) = h[n] /\ \A k \in 1..n : h[k] = h[k - 1] \o seqs[k]
  <2> HIDE DEF seqs
  <2> QED
    BY <1>4, Flattens
<1> DEFINE T == {k \in 0..n : g[k] = [type |-> Reached(t, s, k), index |-> h[k]]}
<1>6. 0 \in T
  BY <1>1, <1>3, <1>5 DEF Walks, Reached
<1>7. ASSUME NEW k \in 1..n, k - 1 \in T PROVE k \in T
  <2> DEFINE at == g[k - 1]
             found == {f \in Visible(m.types, at.type, path[k]) : f.exported}
  <2>1. at = [type |-> Reached(t, s, k - 1), index |-> h[k - 1]] /\ k \in 0..n /\ k # 0
    BY <1>1, <1>7
  <2>2. s[k] \in found
    BY <1>2, <2>1 DEF Visible
  <2>3. \A f \in found : f = s[k]
    <3>1. \A f \in found : f \in m.types[Reached(t, s, k - 1)].visible /\ f.name = path[k]
      BY <2>1 DEF Visible
    <3>2. \A u \in DOMAIN m.types : \A e, f \in m.types[u].visible : e.name = f.name => e = f
      BY StructAssumption
    <3>3. /\ Reached(t, s, k - 1) \in DOMAIN m.types
          /\ s[k] \in m.types[Reached(t, s, k - 1)].visible /\ s[k].name = path[k]
      BY <1>2
    <3> HIDE DEF found
    <3> TAKE f \in found
    <3>4. f \in m.types[Reached(t, s, k - 1)].visible /\ f.name = s[k].name
      BY <3>1, <3>3
    <3> QED
      BY <3>2, <3>3, <3>4
  <2>4. (CHOOSE f \in found : TRUE) = s[k] /\ found # {}
    <3> HIDE DEF found
    <3> QED
      BY <2>2, <2>3
  <2>5. g[k] = [type |-> s[k].type, index |-> at.index \o s[k].index]
    BY <1>3, <2>4 DEF Walks, Enter
  <2>6. seqs[k] = s[k].index
    BY <1>1
  <2>7. h[k] = at.index \o s[k].index /\ Reached(t, s, k) = s[k].type
    <3> HIDE DEF seqs, found
    <3> HIDE DEF at, n
    <3>1. h[k] = h[k - 1] \o seqs[k]
      BY <1>5
    <3>2. at.index = h[k - 1]
      BY <2>1
    <3> QED
      BY <2>1, <2>6, <3>1, <3>2 DEF Reached
  <2> HIDE DEF at
  <2> QED
    BY <2>1, <2>5, <2>7
<1>8. n \in T
  <2> HIDE DEF T
  <2>1. 0..n \subseteq T
    BY <1>1, <1>6, <1>7, Induction
  <2> QED
    BY <1>1, <2>1
<1> QED
  BY <1>3, <1>5, <1>8 DEF Place

\* ... and nothing else.
LEMMA NoSelectorNoIndex ==
  ASSUME NEW m \in Models, NEW t \in DOMAIN m.types, NEW path \in Seq(STRING), Exported(m.types, t, path) = {}
  PROVE  FieldIndex(m.types, t, path) = <<>>
<1> DEFINE n == Len(path)
           Fields == UNION {m.types[u].visible : u \in DOMAIN m.types}
           Part(s, k) == \A i \in 1..k : /\ s[i].name = path[i] /\ s[i].exported
                                         /\ s[i] \in m.types[IF i = 1 THEN t ELSE s[i - 1].type].visible
<1>1. n \in Nat /\ DOMAIN path = 1..n
  OBVIOUS
<1>2. PICK g : Walks(g, m.types, t, path) /\ FieldIndex(m.types, t, path) = g[n].index
  BY IndexUnrolls
<1> DEFINE T == {k \in 0..n : \/ g[k] = Lost
                              \/ \E s \in [1..k -> Fields] : Part(s, k) /\ g[k].type = Reached(t, s, k)}
<1>3. 0 \in T
  <2>1. <<>> \in [1..0 -> Fields] /\ Part(<<>>, 0) /\ g[0].type = Reached(t, <<>>, 0)
    BY <1>2 DEF Walks, Reached
  <2>2. 0 \in 0..n /\ \E s \in [1..0 -> Fields] : Part(s, 0) /\ g[0].type = Reached(t, s, 0)
    <3> HIDE DEF Part, Fields
    <3>1. 0 \in 0..n
      BY <1>1
    <3>2. \E s \in [1..0 -> Fields] : Part(s, 0) /\ g[0].type = Reached(t, s, 0)
      <4> WITNESS <<>> \in [1..0 -> Fields]
      <4> QED
        BY <2>1
    <3> QED
      BY <3>1, <3>2
  <2> HIDE DEF Part, Fields
  <2> QED
    BY <2>2
<1>4. ASSUME NEW k \in 1..n, k - 1 \in T PROVE k \in T
  <2> DEFINE found == {f \in Visible(m.types, g[k - 1].type, path[k]) : f.exported}
             f == CHOOSE e \in found : TRUE
  <2>0. k \in 0..n /\ k - 1 \in Nat
    BY <1>1
  <2>1. g[k] = IF found = {} THEN Lost ELSE [type |-> f.type, index |-> g[k - 1].index \o f.index]
    BY <1>2 DEF Walks, Enter
  <2>2. CASE found = {}
    BY <2>0, <2>1, <2>2
  <2>3. CASE found # {}
    <3>1. f \in m.types[g[k - 1].type].visible /\ f.name = path[k] /\ f.exported
      BY <2>3 DEF Visible
    <3>2. g[k - 1] # Lost
      BY <3>1, StructAssumption DEF Lost
    <3>3. PICK s \in [1..(k - 1) -> Fields] : Part(s, k - 1) /\ g[k - 1].type = Reached(t, s, k - 1)
      BY <1>4, <3>2
    <3> DEFINE r == [i \in 1..k |-> IF i = k THEN f ELSE s[i]]
    <3>4. g[k - 1].type \in DOMAIN m.types
      <4>1. CASE k = 1
        BY <3>3, <4>1 DEF Reached
      <4>2. CASE k # 1
        <5>1. s[k - 1] \in Fields
          BY <2>0, <3>3, <4>2
        <5> QED
          BY <2>0, <3>3, <4>2, <5>1, StructAssumption DEF Reached
      <4> QED
        BY <4>1, <4>2
    <3> HIDE DEF f
    <3>5. r \in [1..k -> Fields]
      <4>1. f \in Fields
        BY <3>1, <3>4
      <4>2. \A i \in 1..k : i # k => i \in 1..(k - 1)
        OBVIOUS
      <4> HIDE DEF Fields
      <4> QED
        BY <3>3, <4>1, <4>2
    <3>6. ASSUME NEW i \in 1..k
          PROVE  /\ r[i].name = path[i] /\ r[i].exported
                 /\ r[i] \in m.types[IF i = 1 THEN t ELSE r[i - 1].type].visible
      <4>1. CASE i = k
        <5>1. r[i] = f /\ (i # 1 => r[i - 1] = s[i - 1])
          BY <4>1
        <5> HIDE DEF r
        <5> QED
          BY <3>1, <3>3, <4>1, <5>1 DEF Reached
      <4>2. CASE i # k
        <5>1. i \in 1..(k - 1) /\ r[i] = s[i] /\ (i # 1 => r[i - 1] = s[i - 1])
          BY <4>2
        <5> HIDE DEF r
        <5> QED
          BY <3>3, <5>1
      <4> QED
        BY <4>1, <4>2
    <3>7. g[k].type = Reached(t, r, k)
      <4>1. r[k] = f /\ k # 0
        OBVIOUS
      <4> HIDE DEF r
      <4> QED
        BY <2>1, <2>3, <4>1 DEF Reached
    <3> HIDE DEF r, found, Fields
    <3>8. Part(r, k)
      BY <3>6
    <3> HIDE DEF Part
    <3> QED
      BY <2>0, <3>5, <3>7, <3>8
  <2> QED
    BY <2>2, <2>3
<1>5. n \in T
  <2> HIDE DEF T
  <2>1. 0..n \subseteq T
    BY <1>1, <1>3, <1>4, Induction
  <2> QED
    BY <1>1, <2>1
<1>6. ASSUME NEW s \in [1..n -> Fields], Part(s, n) PROVE FALSE
  <2>1. DOMAIN s = DOMAIN path
    BY <1>1
  <2>2. s \in Exported(m.types, t, path)
    BY <1>1, <1>6, <2>1 DEF Exported, Selectors
  <2> QED
    BY <2>2
<1>7. g[n] = Lost
  <2> HIDE DEF Part, Fields
  <2> QED
    BY <1>5, <1>6
<1> QED
  BY <1>2, <1>7 DEF Lost

\* The columns that a path selects are the one that FieldIndex leads to, or none.
LEMMA ColumnIsFound ==
  ASSUME NEW m \in Models, NEW t \in DOMAIN m.types, NEW path \in Seq(STRING)
  PROVE  LET index == FieldIndex(m.types, t, path)
             columns == m.types[t].columns
         IN SelectedColumns(m.types, t, path) =
              {c \in {columns[x] : x \in DOMAIN columns \cap {index}} : c.scalar /\ c.plain}
<1> DEFINE index == FieldIndex(m.types, t, path)
           columns == m.types[t].columns
           places == {Place(s) : s \in Exported(m.types, t, path)}
<1>1. SelectedColumns(m.types, t, path) = {c \in {columns[x] : x \in DOMAIN columns \cap places} : c.scalar /\ c.plain}
  BY DEF SelectedColumns, Exported
<1>2. <<>> \notin DOMAIN columns
  BY StructAssumption
<1>3. DOMAIN columns \cap places = DOMAIN columns \cap {index}
  <2>1. CASE Exported(m.types, t, path) = {}
    BY <1>2, <2>1, NoSelectorNoIndex
  <2>2. CASE Exported(m.types, t, path) # {}
    <3>1. places = {index}
      BY <2>2, SelectorIsFound
    <3> QED
      BY <3>1
  <2> QED
    BY <2>1, <2>2
<1> QED
  BY <1>1, <1>3

\* NamesRelation tells an association from a field that shadows it.
LEMMA AssociationIsSelected ==
  ASSUME NEW m \in Models, NEW t \in DOMAIN m.types, NEW name
  PROVE  NamesRelation(m.types, t, name) <=> SelectsAssociation(m.types, t, name)
<1> DEFINE Members == UNION {m.types[u].visible : u \in DOMAIN m.types}
<1>1. ASSUME NEW f \in Members PROVE Place(<<f>>) = f.index
  <2> DEFINE seqs == <<f.index>>
  <2>1. f.index \in Seq(STRING)
    BY StructAssumption
  <2>2. seqs \in Seq(Seq(STRING)) /\ Len(seqs) = 1 /\ seqs[1] = f.index
    BY <2>1
  <2>3. Place(<<f>>) = FlattenSeq(seqs)
    <3>1. [i \in DOMAIN <<f>> |-> <<f>>[i].index] = seqs
      OBVIOUS
    <3> QED
      BY <3>1 DEF Place
  <2> HIDE DEF seqs
  <2>4. PICK h : h[0] = <<>> /\ FlattenSeq(seqs) = h[Len(seqs)] /\ \A k \in 1..Len(seqs) : h[k] = h[k - 1] \o seqs[k]
    BY <2>2, Flattens
  <2>5. h[1] = <<>> \o f.index
    <3>1. 1 \in 1..Len(seqs) /\ 1 - 1 = 0
      BY <2>2
    <3>2. h[1] = h[1 - 1] \o seqs[1]
      BY <2>4, <3>1
    <3> QED
      BY <2>2, <2>4, <3>1, <3>2
  <2>6. <<>> \o f.index = f.index
    BY <2>1
  <2> QED
    BY <2>2, <2>3, <2>4, <2>5, <2>6
<1>2. ASSUME NEW s \in Selectors(m.types, t, <<name>>)
      PROVE  /\ s[1] \in m.types[t].visible /\ s[1].name = name
             /\ s = <<s[1]>>
  BY DEF Selectors
<1>3. ASSUME NEW f \in m.types[t].visible, f.name = name PROVE <<f>> \in Selectors(m.types, t, <<name>>)
  <2>1. f \in Members
    OBVIOUS
  <2> HIDE DEF Members
  <2>2. <<f>> \in [DOMAIN <<name>> -> Members]
    BY <2>1
  <2> QED
    BY <1>3, <2>2 DEF Selectors, Members
<1>4. m.types[t].visible \subseteq Members
  OBVIOUS
<1> HIDE DEF Members
<1>5. ASSUME NEW index
      PROVE  (\E f \in Visible(m.types, t, name) : f.index = index)
               <=> \E s \in Selectors(m.types, t, <<name>>) : Place(s) = index
  <2>1. ASSUME NEW f \in Visible(m.types, t, name), f.index = index
        PROVE  \E s \in Selectors(m.types, t, <<name>>) : Place(s) = index
    <3>1. f \in m.types[t].visible /\ f.name = name
      BY DEF Visible
    <3> QED
      BY <1>1, <1>3, <1>4, <2>1, <3>1
  <2>2. ASSUME NEW s \in Selectors(m.types, t, <<name>>), Place(s) = index
        PROVE  \E f \in Visible(m.types, t, name) : f.index = index
    <3>1. s[1] \in m.types[t].visible /\ s[1].name = name /\ s = <<s[1]>>
      BY <1>2
    <3>2. Place(s) = s[1].index
      BY <1>1, <1>4, <3>1
    <3> QED
      BY <2>2, <3>1, <3>2 DEF Visible
  <2> QED
    BY <2>1, <2>2
<1> QED
  BY <1>5 DEF NamesRelation, SelectsAssociation

\* What GoPath answers for a path is what the path denotes, if anything.
IsDenoted(field, denoted) ==
  /\ field = Unmapped => denoted = {}
  /\ field # Unmapped => denoted = {field}

\* The same of the columns of one type: ok says what else the path must satisfy.
LEMMA ScalarIsSelected ==
  ASSUME NEW m \in Models, NEW t \in DOMAIN m.types, NEW path \in Seq(STRING), NEW relation \in STRING \cup {Base},
         NEW ok, ok => (relation = Base => m.types[t].plain)
  PROVE  IsDenoted(IF ok THEN MappedScalar(m.types, t, path, relation) ELSE Unmapped,
                 {[relation |-> relation, column |-> c.name] : c \in {d \in SelectedColumns(m.types, t, path) : ok}})
<1> DEFINE index == FieldIndex(m.types, t, path)
           columns == m.types[t].columns
           column == columns[index]
           field == [relation |-> relation, column |-> column.name]
<1>1. SelectedColumns(m.types, t, path) = {c \in {columns[x] : x \in DOMAIN columns \cap {index}} : c.scalar /\ c.plain}
  BY ColumnIsFound
<1>2. CASE index \in DOMAIN columns /\ column.scalar /\ column.plain /\ ok
  <2>1. MappedScalar(m.types, t, path, relation) = field
    BY <1>2 DEF MappedScalar, MappedField, IsScalar
  <2>2. field # Unmapped
    <3>1. column.name \in STRING
      BY <1>2, StructAssumption
    <3>2. field \in [relation : STRING \cup {Base}, column : STRING]
      BY <3>1
    <3> QED
      BY <3>2, StructAssumption
  <2>3. SelectedColumns(m.types, t, path) = {column}
    BY <1>1, <1>2
  <2> QED
    BY <1>2, <2>1, <2>2, <2>3 DEF IsDenoted
<1>3. CASE ~(index \in DOMAIN columns /\ column.scalar /\ column.plain /\ ok)
  <2>1. ok => MappedScalar(m.types, t, path, relation) = Unmapped
    BY <1>3 DEF MappedScalar, MappedField, IsScalar
  <2>2. ok => SelectedColumns(m.types, t, path) = {}
    BY <1>1, <1>3
  <2> QED
    BY <2>1, <2>2 DEF IsDenoted
<1> QED
  BY <1>2, <1>3

LEMMA PathIsDenoted ==
  ASSUME NEW m \in Models, NEW t \in DOMAIN m.types, NEW path \in Seq(STRING)
  PROVE  IsDenoted(GoPath(m.types, t, path), Denoted(m.types, t, path))
<1>1. CASE path # <<>> /\ SelectsAssociation(m.types, t, Head(path))
  <2> DEFINE relation == m.types[t].relations[Head(path)]
             related == relation.related
             ok == relation.toOne /\ relation.plain /\ m.types[t].keyed /\ m.types[related].keyed
             joinable == Len(path) >= 2 /\ related # NoType /\ ok
  <2>1. Head(path) \in STRING /\ Tail(path) \in Seq(STRING) /\ Len(path) \in Nat
    BY <1>1
  <2>2. related \in DOMAIN m.types
    BY <1>1, StructAssumption DEF SelectsAssociation
  <2>3. GoPath(m.types, t, path) = IF joinable THEN MappedScalar(m.types, related, Tail(path), Head(path)) ELSE Unmapped
    BY <1>1, AssociationIsSelected DEF GoPath, RelationPath
  <2>4. Denoted(m.types, t, path) =
          {[relation |-> Head(path), column |-> c.name] : c \in {d \in SelectedColumns(m.types, related, Tail(path)) : ok}}
    BY <1>1 DEF Denoted
  <2>5. CASE Len(path) >= 2 /\ related # NoType
    <3>1. GoPath(m.types, t, path) = IF ok THEN MappedScalar(m.types, related, Tail(path), Head(path)) ELSE Unmapped
      BY <2>3, <2>5
    <3>2. Head(path) \in STRING \cup {Base} /\ Head(path) # Base
      BY <2>1, StructAssumption
    <3> HIDE DEF ok, related
    <3>3. IsDenoted(IF ok THEN MappedScalar(m.types, related, Tail(path), Head(path)) ELSE Unmapped,
                  {[relation |-> Head(path), column |-> c.name] :
                     c \in {d \in SelectedColumns(m.types, related, Tail(path)) : ok}})
      BY <2>1, <2>2, <3>2, ScalarIsSelected
    <3> QED
      BY <2>4, <3>1, <3>3
  <2>6. CASE ~(Len(path) >= 2 /\ related # NoType)
    <3>1. Exported(m.types, related, Tail(path)) = {} \/ Tail(path) = <<>>
      <4>1. CASE Tail(path) # <<>>
        <5>1. related = NoType /\ 1 \in DOMAIN Tail(path)
          BY <1>1, <2>1, <2>6, <4>1
        <5>2. m.types[NoType].visible = {}
          BY StructAssumption
        <5> HIDE DEF related
        <5> QED
          BY <5>1, <5>2 DEF Exported, Selectors
      <4> QED
        BY <4>1
    <3>2. FieldIndex(m.types, related, Tail(path)) = <<>>
      <4>1. CASE Tail(path) = <<>>
        <5>1. PICK g : /\ Walks(g, m.types, related, Tail(path))
                       /\ FieldIndex(m.types, related, Tail(path)) = g[Len(Tail(path))].index
          BY <2>1, <2>2, IndexUnrolls
        <5>2. Len(Tail(path)) = 0
          <6>1. Len(<<>>) = 0
            OBVIOUS
          <6> QED
            BY <4>1, <6>1, Zenon
        <5> QED
          BY <5>1, <5>2 DEF Walks
      <4> HIDE DEF related
      <4> QED
        BY <2>1, <2>2, <3>1, <4>1, NoSelectorNoIndex
    <3>3. SelectedColumns(m.types, related, Tail(path)) = {}
      <4> HIDE DEF related
      <4>1. <<>> \notin DOMAIN m.types[related].columns
        BY <2>2, StructAssumption
      <4> DEFINE columns == m.types[related].columns
                 index == FieldIndex(m.types, related, Tail(path))
      <4>2. SelectedColumns(m.types, related, Tail(path)) =
              {c \in {columns[x] : x \in DOMAIN columns \cap {index}} : c.scalar /\ c.plain}
        BY <2>1, <2>2, ColumnIsFound
      <4>3. DOMAIN columns \cap {index} = {}
        BY <3>2, <4>1
      <4> HIDE DEF columns, index
      <4> QED
        BY <4>2, <4>3
    <3>4. GoPath(m.types, t, path) = Unmapped
      BY <2>3, <2>6
    <3> HIDE DEF related, ok
    <3>5. Denoted(m.types, t, path) = {}
      BY <2>4, <3>3
    <3> QED
      BY <3>4, <3>5 DEF IsDenoted
  <2> QED
    BY <2>5, <2>6
<1>2. CASE ~(path # <<>> /\ SelectsAssociation(m.types, t, Head(path)))
  <2> DEFINE ok == m.types[t].plain
  <2>1. GoPath(m.types, t, path) = MappedScalar(m.types, t, path, Base)
    BY <1>2, AssociationIsSelected DEF GoPath
  <2>2. ~ok => MappedScalar(m.types, t, path, Base) = Unmapped
    BY DEF MappedScalar, MappedField
  <2>3. Denoted(m.types, t, path) =
          {[relation |-> Base, column |-> c.name] : c \in {d \in SelectedColumns(m.types, t, path) : ok}}
    BY <1>2 DEF Denoted
  <2>0. Base \in STRING \cup {Base} /\ \A relation : ok => (relation = Base => m.types[t].plain)
    OBVIOUS
  <2> HIDE DEF ok
  <2>4. IsDenoted(IF ok THEN MappedScalar(m.types, t, path, Base) ELSE Unmapped,
                {[relation |-> Base, column |-> c.name] : c \in {d \in SelectedColumns(m.types, t, path) : ok}})
    BY <2>0, ScalarIsSelected
  <2> QED
    BY <2>1, <2>2, <2>3, <2>4
<1> QED
  BY <1>1, <1>2

----
(* The resolver                                                            *)

\* What has been added so far is declared, has a column, and owns its key.
FieldsInv ==
  /\ model \in Models /\ pending \subseteq Declared
  /\ fieldStatus \in {"building", "serving", "refused"}
  /\ DOMAIN fields = {Fold(e.name) : e \in Declared \ pending}
  /\ \A e \in Declared \ pending : e.field # Unmapped /\ fields[Fold(e.name)] = e.field
  /\ \A d, e \in Declared \ pending : Fold(d.name) = Fold(e.name) => d = e
  /\ fieldStatus = "serving" => pending = {}
  /\ fieldStatus = "refused" => ~Declarable

LEMMA DeclaredNames ==
  ASSUME model \in Models
  PROVE  \A e \in Declared : e.name \in Seq(CodePoints)
<1>1. CASE model.configured = Nil
  BY <1>1, NamesAssumption DEF Declared, DeclaredBy, Automatic
<1>2. CASE model.configured # Nil
  BY <1>2, NamesAssumption DEF Declared, DeclaredBy, Configured
<1> QED
  BY <1>1, <1>2

\* Two declared names have the same key if they are equal up to case.
LEMMA DeclaredKeys ==
  ASSUME model \in Models
  PROVE  \A d, e \in Declared : Fold(d.name) = Fold(e.name) <=> EqualFold(d.name, e.name)
BY DeclaredNames, FoldingIsEqualFold

LEMMA FieldsInvInit == FieldsInit => FieldsInv
<1> SUFFICES ASSUME FieldsInit PROVE FieldsInv
  OBVIOUS
<1>1. Declared \ pending = {}
  BY DEF FieldsInit
<1>2. DOMAIN fields = {}
  BY DEF FieldsInit
<1>3. DOMAIN fields = {Fold(e.name) : e \in Declared \ pending}
  BY <1>1, <1>2
<1> QED
  BY <1>1, <1>3 DEF FieldsInit, FieldsInv

LEMMA FieldsInvAdds ==
  ASSUME FieldsInv, NEW e \in pending, Adds(e)
  PROVE  FieldsInv'
<1> DEFINE added == Declared \ pending
           key == Fold(e.name)
<1>1. /\ model' = model /\ fieldStatus' = "building" /\ fieldStatus = "building"
      /\ e \in Declared /\ e \in pending /\ pending \subseteq Declared
  BY DEF Adds, FieldsInv
<1>2. Declared' = Declared
  BY <1>1 DEF Declared
<1>3. pending' = pending \ {e} /\ (Declared \ pending)' = added \cup {e}
  BY <1>1, <1>2 DEF Adds
<1>4. /\ DOMAIN fields' = DOMAIN fields \cup {key}
      /\ fields'[key] = e.field
      /\ \A k \in DOMAIN fields : k # key => fields'[k] = fields[k]
  BY DEF Adds
<1>5. e.field # Unmapped /\ key \notin DOMAIN fields
  BY DEF Adds
<1>6. /\ DOMAIN fields = {Fold(d.name) : d \in added}
      /\ \A d \in added : d.field # Unmapped /\ fields[Fold(d.name)] = d.field
      /\ \A c, d \in added : Fold(c.name) = Fold(d.name) => c = d
  BY DEF FieldsInv
<1>7. \A d \in added : Fold(d.name) \in DOMAIN fields /\ Fold(d.name) # key
  BY <1>5, <1>6
<1> HIDE DEF added, key
<1>8. DOMAIN fields' = {Fold(d.name) : d \in added \cup {e}}
  BY <1>4, <1>6 DEF key
<1>9. \A d \in added \cup {e} : d.field # Unmapped /\ fields'[Fold(d.name)] = d.field
  BY <1>4, <1>5, <1>6, <1>7 DEF key
<1>10. \A c, d \in added \cup {e} : Fold(c.name) = Fold(d.name) => c = d
  BY <1>6, <1>7 DEF key
<1>11. model' \in Models /\ pending' \subseteq Declared'
  BY <1>1, <1>2, <1>3 DEF FieldsInv
<1> QED
  BY <1>1, <1>3, <1>8, <1>9, <1>10, <1>11 DEF FieldsInv

LEMMA FieldsInvStep == FieldsInv /\ [FieldsNext]_fieldVars => FieldsInv'
<1> SUFFICES ASSUME FieldsInv, [FieldsNext]_fieldVars PROVE FieldsInv'
  OBVIOUS
<1> USE DEF Declarable
<1>1. ASSUME model' = model PROVE Declared' = Declared
  BY <1>1 DEF Declared
<1>2. ASSUME NEW e \in pending, Adds(e) PROVE FieldsInv'
  BY <1>2, FieldsInvAdds
<1>3. ASSUME NEW e \in pending, Refuses(e) PROVE FieldsInv'
  <2>1. model' = model /\ pending' = pending /\ fields' = fields /\ fieldStatus' = "refused"
    BY <1>3 DEF Refuses
  <2>2. Declared' = Declared
    BY <1>1, <2>1
  <2>3. e \in Declared
    BY DEF FieldsInv
  <2>4. CASE e.field = Unmapped
    BY <2>1, <2>2, <2>3, <2>4 DEF FieldsInv
  <2>5. CASE Fold(e.name) \in DOMAIN fields
    <3>1. PICK d \in Declared \ pending : Fold(d.name) = Fold(e.name)
      BY <2>5 DEF FieldsInv
    <3>2. d # e /\ EqualFold(d.name, e.name)
      BY <2>3, <3>1, DeclaredKeys DEF FieldsInv
    <3> QED
      BY <2>1, <2>2, <2>3, <3>1, <3>2 DEF FieldsInv
  <2> QED
    BY <1>3, <2>4, <2>5 DEF Refuses
<1>4. CASE Completes
  <2>1. model' = model /\ pending' = pending /\ fields' = fields /\ fieldStatus' = "serving" /\ pending = {}
    BY <1>4 DEF Completes
  <2> QED
    BY <1>1, <2>1 DEF FieldsInv
<1>5. CASE UNCHANGED fieldVars
  <2>1. model' = model /\ pending' = pending /\ fields' = fields /\ fieldStatus' = fieldStatus
    BY <1>5 DEF fieldVars
  <2> QED
    BY <1>1, <2>1 DEF FieldsInv
<1> QED
  BY <1>2, <1>3, <1>4, <1>5 DEF FieldsNext

LEMMA FieldsInvSuffices == FieldsInv => FieldsAsDeclared
<1> SUFFICES ASSUME FieldsInv PROVE FieldsAsDeclared
  OBVIOUS
<1>1. \A d, e \in Declared : Fold(d.name) = Fold(e.name) <=> EqualFold(d.name, e.name)
  BY DeclaredKeys DEF FieldsInv
<1>2. ASSUME fieldStatus = "serving"
      PROVE  /\ DOMAIN fields = {Fold(e.name) : e \in Declared}
             /\ \A e \in Declared : e.field # Unmapped /\ fields[Fold(e.name)] = e.field
             /\ \A d, e \in Declared : Fold(d.name) = Fold(e.name) => d = e
  <2>1. Declared \ pending = Declared
    BY <1>2 DEF FieldsInv
  <2> QED
    BY <2>1 DEF FieldsInv
<1>3. fieldStatus = "serving" => Declarable
  BY <1>1, <1>2 DEF Declarable
<1>4. ASSUME fieldStatus = "serving", NEW name \in Asked
      PROVE  /\ Known(name) <=> \E e \in Declared : EqualFold(e.name, name)
             /\ \A e \in Declared : EqualFold(e.name, name) => Resolved(name) = e.field
  <2>1. \A e \in Declared : Fold(e.name) = Fold(name) <=> EqualFold(e.name, name)
    BY DeclaredNames, FoldingIsEqualFold, NamesAssumption DEF FieldsInv
  <2>2. Known(name) <=> \E e \in Declared : Fold(e.name) = Fold(name)
    BY <1>2, <1>4 DEF Known
  <2> QED
    BY <1>2, <1>4, <2>1, <2>2 DEF Resolved
<1> QED
  BY <1>3, <1>4 DEF FieldsAsDeclared, FieldsInv

(* A resource is served exactly when its declared names are valid and      *)
(* differ under case folding, and then resolves them as they are declared. *)
THEOREM NamesResolveAsDeclared == FieldsSpec => []FieldsAsDeclared
<1>1. FieldsSpec => []FieldsInv
  BY FieldsInvInit, FieldsInvStep, PTL DEF FieldsSpec
<1> QED
  BY <1>1, FieldsInvSuffices, PTL

LEMMA PathsAreFollowed == FieldsInv => PathsSelectColumns
<1> SUFFICES ASSUME FieldsInv, model.configured # Nil PROVE PathsSelectColumns
  BY DEF PathsSelectColumns
<1> DEFINE names == DOMAIN model.configured
           path(p) == model.configured[p]
           denoted(p) == Denoted(model.types, model.entity, path(p))
           entry(p) == [name |-> p, path |-> path(p), field |-> GoPath(model.types, model.entity, path(p))]
<1>1. Declared = {entry(p) : p \in names}
  BY DEF Declared, DeclaredBy, Configured
<1>2. ASSUME NEW p \in names PROVE IsDenoted(entry(p).field, denoted(p))
  <2>1. model \in Models /\ model.entity \in DOMAIN model.types /\ path(p) \in Seq(STRING)
    BY StructAssumption DEF FieldsInv
  <2> QED
    BY <2>1, PathIsDenoted
<1>3. FieldsAsDeclared
  BY FieldsInvSuffices
<1>4. ASSUME fieldStatus = "serving", NEW p \in names PROVE Known(p) /\ denoted(p) = {Resolved(p)}
  <2>1. Declared \ pending = Declared
    BY <1>4 DEF FieldsInv
  <2>2. entry(p) \in Declared /\ entry(p).name = p
    BY <1>1
  <2> HIDE DEF entry, denoted
  <2>3. Fold(p) \in DOMAIN fields /\ fields[Fold(p)] = entry(p).field /\ entry(p).field # Unmapped
    BY <2>1, <2>2 DEF FieldsInv
  <2> QED
    BY <1>2, <2>3 DEF Known, Resolved, IsDenoted
<1>5. ASSUME fieldStatus = "refused" PROVE \E p, q \in names : denoted(p) = {} \/ (p # q /\ EqualFold(p, q))
  <2>1. ~Declarable
    BY <1>5 DEF FieldsInv
  <2>2. PICK d \in Declared : d.field = Unmapped \/ \E e \in Declared : EqualFold(d.name, e.name) /\ d # e
    BY <2>1 DEF Declarable
  <2>3. PICK p \in names : d = entry(p)
    BY <1>1
  <2>4. CASE d.field = Unmapped
    BY <1>2, <2>3, <2>4 DEF IsDenoted
  <2>5. CASE \E e \in Declared : EqualFold(d.name, e.name) /\ d # e
    <3>1. PICK e \in Declared : EqualFold(d.name, e.name) /\ d # e
      BY <2>5
    <3>2. PICK q \in names : e = entry(q)
      BY <1>1
    <3>3. p # q /\ d.name = p /\ e.name = q
      BY <2>3, <3>1, <3>2
    <3> QED
      BY <3>1, <3>3
  <2> QED
    BY <2>2, <2>4, <2>5
<1> QED
  BY <1>4, <1>5 DEF PathsSelectColumns

(* A served mapping leads every name to the column that its Go path        *)
(* selects, through embedded structs, shadowing fields and associations,   *)
(* and is refused only if some path selects none or two names collide.     *)
THEOREM PathsLeadToColumns == FieldsSpec => []PathsSelectColumns
<1>1. FieldsSpec => []FieldsInv
  BY FieldsInvInit, FieldsInvStep, PTL DEF FieldsSpec
<1> QED
  BY <1>1, PathsAreFollowed, PTL
====
