---- MODULE ListPlanProofs ----
(***************************************************************************)
(* Proofs about ListPlan, for every entity, request and database: names    *)
(* keep resolving as they are declared while requests are served, requests *)
(* are refused exactly if they are malformed, statements join what they    *)
(* need, and totals and pages are of the rows that a request is about.     *)
(*                                                                         *)
(* Filters are trees of any depth and orderings of any length, so that     *)
(* the operators on them are recursive functions and folds.                *)
(***************************************************************************)
EXTENDS ListPlan, QueryFieldsProofs

----
(* Joins                                                                   *)

\* Relations that are joined, none twice.
Joins(R) == {joins \in Seq(R) : IsInjective(joins)}

\* One relation more, if it is not the base and not yet joined.
LEMMA UniqueAppends ==
  ASSUME NEW R, NEW joins \in Joins(R), NEW relation \in R
  PROVE  /\ AppendUnique(joins, relation) \in Joins(R)
         /\ Range(AppendUnique(joins, relation)) = Range(joins) \cup ({relation} \ {Base})
<1>1. CASE relation = Base \/ relation \in Range(joins)
  BY <1>1 DEF AppendUnique
<1>2. CASE relation # Base /\ relation \notin Range(joins)
  <2> DEFINE more == Append(joins, relation)
  <2>1. joins \in Seq(R) /\ IsInjective(joins) /\ more \in Seq(R)
    BY DEF Joins
  <2>2. /\ DOMAIN joins = 1..Len(joins) /\ DOMAIN more = 1..(Len(joins) + 1) /\ Len(joins) \in Nat
        /\ more[Len(joins) + 1] = relation /\ \A i \in 1..Len(joins) : more[i] = joins[i]
    BY <2>1
  <2>3. \A i \in 1..Len(joins) : joins[i] \in Range(joins)
    BY <2>2 DEF Range
  <2> HIDE DEF more
  <2>4. Range(more) = Range(joins) \cup {relation}
    BY <2>2 DEF Range
  <2>5. IsInjective(more)
    BY <1>2, <2>1, <2>2, <2>3 DEF IsInjective
  <2>6. AppendUnique(joins, relation) = more
    BY <1>2 DEF AppendUnique, more
  <2> QED
    BY <1>2, <2>1, <2>4, <2>5, <2>6 DEF Joins
<1> QED
  BY <1>1, <1>2

\* The fold of AppendUnique goes through the sequence from its first element.
LEMMA UniqueUnrolls ==
  ASSUME NEW R, NEW joins \in Joins(R), NEW more \in Seq(R)
  PROVE  \E g : /\ g[0] = joins
                /\ \A k \in 1..Len(more) : g[k] = AppendUnique(g[k - 1], more[k])
                /\ AppendAll(joins, more) = g[Len(more)]
<1> DEFINE V == Joins(R)
           n == Len(more)
           op == [a \in V \X (1..n) |-> AppendUnique(a[1], more[a[2]])]
           Eq(f) == f = [s \in SUBSET DOMAIN more |->
                           IF s = {} THEN joins ELSE AppendUnique(f[s \ {Max(s)}], more[Max(s)])]
           fold == CHOOSE f : Eq(f)
           g == [k \in 0..n |-> fold[1..k]]
<1>1. n \in Nat /\ DOMAIN more = 1..n /\ joins \in V
  BY DEF Joins
<1>2. ASSUME NEW v \in V, NEW k \in 1..n
      PROVE  op[<<v, k>>] = AppendUnique(v, more[k]) /\ AppendUnique(v, more[k]) \in V
  BY UniqueAppends
<1>3. FoldsOn(V, n, joins, op)
  <2>1. ASSUME NEW a \in V \X (1..n) PROVE AppendUnique(a[1], more[a[2]]) \in V
    <3>1. a[1] \in V /\ a[2] \in 1..n
      OBVIOUS
    <3> QED
      BY <1>2, <3>1
  <2> QED
    BY <1>1, <2>1 DEF FoldsOn
<1> HIDE DEF V, op, n
<1>4. PICK h : SolvesFold(h, V, n, joins, op)
  BY <1>3, FoldExists
<1>5. Eq([s \in SUBSET (1..n) |-> h[s]])
  BY <1>1, <1>2, <1>4 DEF SolvesFold
<1>6. Eq(fold)
  <2> HIDE DEF Eq
  <2> QED
    BY <1>5
<1>7. AppendAll(joins, more) = fold[DOMAIN more]
  BY DEF FoldLeft, MapThenFoldSet, AppendAll
<1> HIDE DEF fold
<1>8. fold[{}] = joins /\ \A k \in 1..n : fold[1..k] = AppendUnique(fold[1..(k - 1)], more[k])
  <2>1. \A s \in SUBSET (1..n) : fold[s] = IF s = {} THEN joins ELSE AppendUnique(fold[s \ {Max(s)}], more[Max(s)])
    BY <1>1, <1>6
  <2>2. ASSUME NEW k \in 1..n PROVE fold[1..k] = AppendUnique(fold[1..(k - 1)], more[k])
    <3>1. /\ 1..k \in SUBSET (1..n) /\ 1..k # {}
          /\ (1..k) \ {Max(1..k)} = 1..(k - 1) /\ Max(1..k) = k
      BY <1>1, InitialSegments
    <3>2. fold[1..k] = AppendUnique(fold[(1..k) \ {Max(1..k)}], more[Max(1..k)])
      BY <2>1, <3>1
    <3> QED
      BY <3>1, <3>2
  <2> QED
    BY <2>1, <2>2
<1>9. 1..0 = {}
  OBVIOUS
<1> QED
  <2>1. g[0] = joins
    BY <1>1, <1>8, <1>9
  <2>2. \A k \in 1..n : g[k] = AppendUnique(g[k - 1], more[k])
    BY <1>1, <1>8
  <2>3. g[n] = fold[DOMAIN more]
    BY <1>1
  <2> HIDE DEF g
  <2> QED
    BY <1>7, <2>1, <2>2, <2>3 DEF n

\* A fold of AppendUnique joins what it meets.
LEMMA AllAppends ==
  ASSUME NEW R, NEW joins \in Joins(R), NEW more \in Seq(R)
  PROVE  /\ AppendAll(joins, more) \in Joins(R)
         /\ Range(AppendAll(joins, more)) = Range(joins) \cup (Range(more) \ {Base})
<1> DEFINE n == Len(more)
<1>1. PICK g : /\ g[0] = joins
               /\ \A k \in 1..n : g[k] = AppendUnique(g[k - 1], more[k])
               /\ AppendAll(joins, more) = g[n]
  BY UniqueUnrolls
<1>2. n \in Nat /\ DOMAIN more = 1..n /\ \A k \in 1..n : more[k] \in R
  OBVIOUS
<1> DEFINE Met(k) == {more[i] : i \in 1..k}
           T == {k \in 0..n : g[k] \in Joins(R) /\ Range(g[k]) = Range(joins) \cup (Met(k) \ {Base})}
<1>3. 0 \in T
  BY <1>1, <1>2
<1>4. ASSUME NEW k \in 1..n, k - 1 \in T PROVE k \in T
  <2>1. /\ g[k - 1] \in Joins(R) /\ Range(g[k - 1]) = Range(joins) \cup (Met(k - 1) \ {Base})
        /\ g[k] = AppendUnique(g[k - 1], more[k]) /\ more[k] \in R /\ k \in 0..n
    BY <1>1, <1>2, <1>4
  <2>2. Met(k) = Met(k - 1) \cup {more[k]}
    <3>1. 1..k = 1..(k - 1) \cup {k}
      BY <1>2
    <3> QED
      BY <3>1
  <2> HIDE DEF Met
  <2>3. /\ g[k] \in Joins(R)
        /\ Range(g[k]) = Range(g[k - 1]) \cup ({more[k]} \ {Base})
    BY <2>1, UniqueAppends
  <2>4. Range(g[k]) = Range(joins) \cup (Met(k) \ {Base})
    BY <2>1, <2>2, <2>3
  <2> QED
    BY <2>1, <2>3, <2>4
<1>5. n \in T
  <2> HIDE DEF T
  <2>1. 0..n \subseteq T
    BY <1>2, <1>3, <1>4, Induction
  <2> QED
    BY <1>2, <2>1
<1> QED
  BY <1>1, <1>2, <1>5 DEF Range

\* So does the fold of AppendAll.
LEMMA AllUnrolls ==
  ASSUME NEW R, NEW parts \in Seq(Joins(R))
  PROVE  \E g : /\ g[0] = <<>>
                /\ \A k \in 1..Len(parts) : g[k] = AppendAll(g[k - 1], parts[k])
                /\ FoldLeft(AppendAll, <<>>, parts) = g[Len(parts)]
<1> DEFINE V == Joins(R)
           n == Len(parts)
           op == [a \in V \X (1..n) |-> AppendAll(a[1], parts[a[2]])]
           Eq(f) == f = [s \in SUBSET DOMAIN parts |->
                           IF s = {} THEN <<>> ELSE AppendAll(f[s \ {Max(s)}], parts[Max(s)])]
           fold == CHOOSE f : Eq(f)
           g == [k \in 0..n |-> fold[1..k]]
<1>1. n \in Nat /\ DOMAIN parts = 1..n /\ <<>> \in V
  BY DEF Joins, IsInjective
<1>2. ASSUME NEW v \in V, NEW k \in 1..n
      PROVE  op[<<v, k>>] = AppendAll(v, parts[k]) /\ AppendAll(v, parts[k]) \in V
  <2>1. parts[k] \in Joins(R) /\ Joins(R) \subseteq Seq(R)
    BY DEF Joins
  <2> QED
    BY <2>1, AllAppends
<1>3. FoldsOn(V, n, <<>>, op)
  <2>1. ASSUME NEW a \in V \X (1..n) PROVE AppendAll(a[1], parts[a[2]]) \in V
    <3>1. a[1] \in V /\ a[2] \in 1..n
      OBVIOUS
    <3> QED
      BY <1>2, <3>1
  <2> QED
    BY <1>1, <2>1 DEF FoldsOn
<1> HIDE DEF V, op, n
<1>4. PICK h : SolvesFold(h, V, n, <<>>, op)
  BY <1>3, FoldExists
<1>5. Eq([s \in SUBSET (1..n) |-> h[s]])
  BY <1>1, <1>2, <1>4 DEF SolvesFold
<1>6. Eq(fold)
  <2> HIDE DEF Eq
  <2> QED
    BY <1>5
<1>7. FoldLeft(AppendAll, <<>>, parts) = fold[DOMAIN parts]
  BY DEF FoldLeft, MapThenFoldSet
<1> HIDE DEF fold
<1>8. fold[{}] = <<>> /\ \A k \in 1..n : fold[1..k] = AppendAll(fold[1..(k - 1)], parts[k])
  <2>1. \A s \in SUBSET (1..n) : fold[s] = IF s = {} THEN <<>> ELSE AppendAll(fold[s \ {Max(s)}], parts[Max(s)])
    BY <1>1, <1>6
  <2>2. ASSUME NEW k \in 1..n PROVE fold[1..k] = AppendAll(fold[1..(k - 1)], parts[k])
    <3>1. /\ 1..k \in SUBSET (1..n) /\ 1..k # {}
          /\ (1..k) \ {Max(1..k)} = 1..(k - 1) /\ Max(1..k) = k
      BY <1>1, InitialSegments
    <3>2. fold[1..k] = AppendAll(fold[(1..k) \ {Max(1..k)}], parts[Max(1..k)])
      BY <2>1, <3>1
    <3> QED
      BY <3>1, <3>2
  <2> QED
    BY <2>1, <2>2
<1>9. 1..0 = {}
  OBVIOUS
<1> QED
  <2>1. g[0] = <<>>
    BY <1>1, <1>8, <1>9
  <2>2. \A k \in 1..n : g[k] = AppendAll(g[k - 1], parts[k])
    BY <1>1, <1>8
  <2>3. g[n] = fold[DOMAIN parts]
    BY <1>1
  <2> HIDE DEF g
  <2> QED
    BY <1>7, <2>1, <2>2, <2>3 DEF n

\* A fold of AppendAll joins what its parts join.
LEMMA PartsAppend ==
  ASSUME NEW R, NEW parts \in Seq(Joins(R))
  PROVE  /\ FoldLeft(AppendAll, <<>>, parts) \in Joins(R)
         /\ Range(FoldLeft(AppendAll, <<>>, parts)) = (UNION {Range(parts[i]) : i \in DOMAIN parts}) \ {Base}
<1> DEFINE n == Len(parts)
<1>1. PICK g : /\ g[0] = <<>>
               /\ \A k \in 1..n : g[k] = AppendAll(g[k - 1], parts[k])
               /\ FoldLeft(AppendAll, <<>>, parts) = g[n]
  BY AllUnrolls
<1>2. n \in Nat /\ DOMAIN parts = 1..n /\ \A k \in 1..n : parts[k] \in Joins(R) /\ parts[k] \in Seq(R)
  BY DEF Joins
<1> DEFINE Met(k) == UNION {Range(parts[i]) : i \in 1..k}
           T == {k \in 0..n : g[k] \in Joins(R) /\ Range(g[k]) = Met(k) \ {Base}}
<1>3. 0 \in T
  <2>1. <<>> \in Joins(R) /\ Range(<<>>) = {}
    BY DEF Joins, IsInjective, Range
  <2> QED
    BY <1>1, <1>2, <2>1
<1>4. ASSUME NEW k \in 1..n, k - 1 \in T PROVE k \in T
  <2>1. /\ g[k - 1] \in Joins(R) /\ Range(g[k - 1]) = Met(k - 1) \ {Base}
        /\ g[k] = AppendAll(g[k - 1], parts[k]) /\ parts[k] \in Seq(R) /\ k \in 0..n
    BY <1>1, <1>2, <1>4
  <2>2. Met(k) = Met(k - 1) \cup Range(parts[k])
    <3>1. 1..k = 1..(k - 1) \cup {k}
      BY <1>2
    <3> QED
      BY <3>1
  <2> HIDE DEF Met
  <2>3. g[k] \in Joins(R) /\ Range(g[k]) = Range(g[k - 1]) \cup (Range(parts[k]) \ {Base})
    BY <2>1, AllAppends
  <2> QED
    BY <2>1, <2>2, <2>3
<1>5. n \in T
  <2> HIDE DEF T
  <2>1. 0..n \subseteq T
    BY <1>2, <1>3, <1>4, Induction
  <2> QED
    BY <1>2, <2>1
<1> QED
  BY <1>1, <1>2, <1>5

\* What an order key adds to the joins of the ordering.
AppendOrder(joins, key, filterJoins) ==
  IF Resolved(key.field).relation \in Range(filterJoins) THEN joins
  ELSE AppendUnique(joins, Resolved(key.field).relation)

\* An ordering whose keys lead to relations of R.
OrdersOver(R, orderBy) ==
  /\ orderBy \in Seq([field : Asked, direction : STRING])
  /\ \A i \in DOMAIN orderBy : Resolved(orderBy[i].field).relation \in R

\* OrderJoins goes through the keys from the first one.
OrderUnrolled(orderBy, filterJoins) ==
  \E g : /\ g[0] = <<>>
         /\ \A k \in 1..Len(orderBy) : g[k] = AppendOrder(g[k - 1], orderBy[k], filterJoins)
         /\ OrderJoins(orderBy, filterJoins) = g[Len(orderBy)]

LEMMA OrderUnrolls ==
  ASSUME NEW R, NEW orderBy, NEW filterJoins, OrdersOver(R, orderBy)
  PROVE  OrderUnrolled(orderBy, filterJoins)
<1> DEFINE V == Joins(R)
           n == Len(orderBy)
           op == [a \in V \X (1..n) |-> AppendOrder(a[1], orderBy[a[2]], filterJoins)]
           Eq(f) == f = [s \in SUBSET DOMAIN orderBy |->
                           IF s = {} THEN <<>> ELSE AppendOrder(f[s \ {Max(s)}], orderBy[Max(s)], filterJoins)]
           fold == CHOOSE f : Eq(f)
           g == [k \in 0..n |-> fold[1..k]]
<1>1. n \in Nat /\ DOMAIN orderBy = 1..n /\ <<>> \in V
  BY DEF Joins, IsInjective, OrdersOver
<1>2. ASSUME NEW v \in V, NEW k \in 1..n
      PROVE  op[<<v, k>>] = AppendOrder(v, orderBy[k], filterJoins) /\ AppendOrder(v, orderBy[k], filterJoins) \in V
  <2>1. Resolved(orderBy[k].field).relation \in R
    BY <1>1 DEF OrdersOver
  <2> QED
    BY <2>1, UniqueAppends DEF AppendOrder
<1>3. FoldsOn(V, n, <<>>, op)
  <2>1. ASSUME NEW a \in V \X (1..n) PROVE AppendOrder(a[1], orderBy[a[2]], filterJoins) \in V
    <3>1. a[1] \in V /\ a[2] \in 1..n
      OBVIOUS
    <3> QED
      BY <1>2, <3>1
  <2> QED
    BY <1>1, <2>1 DEF FoldsOn
<1> HIDE DEF V, op, n
<1>4. PICK h : SolvesFold(h, V, n, <<>>, op)
  BY <1>3, FoldExists
<1>5. Eq([s \in SUBSET (1..n) |-> h[s]])
  BY <1>1, <1>2, <1>4 DEF SolvesFold
<1>6. Eq(fold)
  <2> HIDE DEF Eq
  <2> QED
    BY <1>5
<1>7. OrderJoins(orderBy, filterJoins) = fold[DOMAIN orderBy]
  BY DEF FoldLeft, MapThenFoldSet, OrderJoins, AppendOrder
<1> HIDE DEF fold
<1>8. fold[{}] = <<>> /\ \A k \in 1..n : fold[1..k] = AppendOrder(fold[1..(k - 1)], orderBy[k], filterJoins)
  <2>1. \A s \in SUBSET (1..n) : fold[s] = IF s = {} THEN <<>> ELSE AppendOrder(fold[s \ {Max(s)}], orderBy[Max(s)], filterJoins)
    BY <1>1, <1>6
  <2>2. ASSUME NEW k \in 1..n PROVE fold[1..k] = AppendOrder(fold[1..(k - 1)], orderBy[k], filterJoins)
    <3>1. /\ 1..k \in SUBSET (1..n) /\ 1..k # {}
          /\ (1..k) \ {Max(1..k)} = 1..(k - 1) /\ Max(1..k) = k
      BY <1>1, InitialSegments
    <3>2. fold[1..k] = AppendOrder(fold[(1..k) \ {Max(1..k)}], orderBy[Max(1..k)], filterJoins)
      BY <2>1, <3>1
    <3> QED
      BY <3>1, <3>2
  <2> QED
    BY <2>1, <2>2
<1>9. 1..0 = {}
  OBVIOUS
<1> QED
  <2>1. g[0] = <<>>
    BY <1>1, <1>8, <1>9
  <2>2. \A k \in 1..n : g[k] = AppendOrder(g[k - 1], orderBy[k], filterJoins)
    BY <1>1, <1>8
  <2>3. g[n] = fold[DOMAIN orderBy]
    BY <1>1
  <2> HIDE DEF g
  <2> QED
    BY <1>7, <2>1, <2>2, <2>3 DEF n, OrderUnrolled

\* The relations of an ordering's keys, but for the given ones.
KeyRelations(orderBy, others) == {Resolved(orderBy[i].field).relation : i \in DOMAIN orderBy} \ others

\* The ordering joins the relations of its keys that the filter does not join.
LEMMA OrdersAppend ==
  ASSUME NEW R, NEW orderBy, NEW filterJoins, OrdersOver(R, orderBy)
  PROVE  /\ OrderJoins(orderBy, filterJoins) \in Joins(R)
         /\ Range(OrderJoins(orderBy, filterJoins)) = KeyRelations(orderBy, Range(filterJoins) \cup {Base})
<1> DEFINE n == Len(orderBy)
<1>0. OrderUnrolled(orderBy, filterJoins)
  BY OrderUnrolls
<1>1. PICK g : /\ g[0] = <<>>
               /\ \A k \in 1..n : g[k] = AppendOrder(g[k - 1], orderBy[k], filterJoins)
               /\ OrderJoins(orderBy, filterJoins) = g[n]
  BY <1>0 DEF OrderUnrolled
<1> DEFINE relation(k) == Resolved(orderBy[k].field).relation
<1>2. n \in Nat /\ DOMAIN orderBy = 1..n /\ \A k \in 1..n : relation(k) \in R
  BY DEF OrdersOver
<1> DEFINE Met(k) == {relation(i) : i \in 1..k}
           Others(k) == Met(k) \ (Range(filterJoins) \cup {Base})
           T == {k \in 0..n : g[k] \in Joins(R) /\ Range(g[k]) = Others(k)}
<1>3. 0 \in T
  <2>1. <<>> \in Joins(R) /\ Range(<<>>) = {}
    BY DEF Joins, IsInjective, Range
  <2> QED
    BY <1>1, <1>2, <2>1
<1>4. ASSUME NEW k \in 1..n, k - 1 \in T PROVE k \in T
  <2>1. /\ g[k - 1] \in Joins(R) /\ Range(g[k - 1]) = Others(k - 1)
        /\ g[k] = IF relation(k) \in Range(filterJoins) THEN g[k - 1] ELSE AppendUnique(g[k - 1], relation(k))
        /\ relation(k) \in R /\ k \in 0..n
    BY <1>1, <1>2, <1>4 DEF AppendOrder
  <2>2. Met(k) = Met(k - 1) \cup {relation(k)}
    <3>1. 1..k = 1..(k - 1) \cup {k}
      BY <1>2
    <3> QED
      BY <3>1
  <2>3. Others(k) = Others(k - 1) \cup ({relation(k)} \ (Range(filterJoins) \cup {Base}))
    <3> HIDE DEF Met, relation
    <3> QED
      BY <2>2
  <2> HIDE DEF Others, Met, relation
  <2>4. CASE relation(k) \in Range(filterJoins)
    BY <2>1, <2>3, <2>4
  <2>5. CASE relation(k) \notin Range(filterJoins)
    <3>1. g[k] \in Joins(R) /\ Range(g[k]) = Range(g[k - 1]) \cup ({relation(k)} \ {Base})
      BY <2>1, <2>5, UniqueAppends
    <3> QED
      BY <2>1, <2>3, <2>5, <3>1
  <2> QED
    BY <2>4, <2>5
<1>5. n \in T
  <2> HIDE DEF T
  <2>1. 0..n \subseteq T
    BY <1>2, <1>3, <1>4, Induction
  <2> QED
    BY <1>2, <2>1
<1> QED
  BY <1>1, <1>2, <1>5 DEF KeyRelations

----
(* Filters                                                                 *)

\* The children of a filter, on which what is computed for it depends.
Below == [f \in Filters |-> Range(f.fields)]

LEMMA FiltersFounded == Founded(Filters, Below)
<1>1. Below \in [Filters -> SUBSET Filters]
  <2>1. \A f \in Filters : f.fields \in Seq(Filters)
    BY FilterAssumption
  <2>2. \A f \in Filters : Range(f.fields) \in SUBSET Filters
    BY <2>1 DEF Range
  <2> QED
    BY <2>2 DEF Below
<1>2. ASSUME NEW S \in SUBSET Filters, S # {} PROVE \E f \in S : Below[f] \cap S = {}
  <2>1. PICK f \in S : \A i \in DOMAIN f.fields : f.fields[i] \notin S
    BY <1>2, FilterAssumption
  <2> QED
    BY <2>1 DEF Below, Range
<1> QED
  BY <1>1, <1>2 DEF Founded

\* Induction over filters, on the set of those that have a property.
LEMMA FilterInduction ==
  ASSUME NEW T, \A f \in Filters : (\A i \in DOMAIN f.fields : f.fields[i] \in T) => f \in T
  PROVE  Filters \subseteq T
<1> SUFFICES ASSUME Filters \ T # {} PROVE FALSE
  OBVIOUS
<1>1. PICK f \in Filters \ T : \A i \in DOMAIN f.fields : f.fields[i] \notin Filters \ T
  BY FilterAssumption
<1>2. \A i \in DOMAIN f.fields : f.fields[i] \in Filters
  <2>1. f.fields \in Seq(Filters)
    BY FilterAssumption
  <2> QED
    BY <2>1
<1> QED
  BY <1>1, <1>2

\* Nodes satisfies its recursive definition.
LEMMA NodesUnfold ==
  /\ Nodes \in [Filters -> SUBSET Filters]
  /\ \A f \in Filters : Nodes[f] = {f} \cup UNION {Nodes[f.fields[i]] : i \in DOMAIN f.fields}
<1> DEFINE V == SUBSET Filters
           Under(f, nodes) == {f} \cup UNION {nodes[f.fields[i]] : i \in DOMAIN f.fields}
           Step == [a \in Filters \X [Filters -> V] |-> Under(a[1], a[2])]
           Eq(nodes) == nodes = [f \in Filters |-> Under(f, nodes)]
<1>1. ASSUME NEW f \in Filters, NEW i \in DOMAIN f.fields PROVE f.fields[i] \in Filters /\ f.fields[i] \in Below[f]
  <2>1. f.fields \in Seq(Filters)
    BY FilterAssumption
  <2> QED
    BY <2>1 DEF Below, Range
<1>2. ASSUME NEW f \in Filters, NEW nodes \in [Filters -> V]
      PROVE  Step[<<f, nodes>>] = Under(f, nodes) /\ Under(f, nodes) \in V
  BY <1>1
<1>3. Recurses(Filters, V, Below, Step)
  <2>1. V # {} /\ Step \in [Filters \X [Filters -> V] -> V]
    BY <1>2
  <2>2. ASSUME NEW f \in Filters, NEW g \in [Filters -> V], NEW h \in [Filters -> V],
               \A c \in Below[f] : g[c] = h[c]
        PROVE  Step[<<f, g>>] = Step[<<f, h>>]
    <3>1. \A i \in DOMAIN f.fields : g[f.fields[i]] = h[f.fields[i]]
      BY <1>1, <2>2
    <3>2. Under(f, g) = Under(f, h)
      BY <3>1
    <3> HIDE DEF Step, Under, V
    <3> QED
      BY <1>2, <3>2
  <2> HIDE DEF Step, V
  <2> QED
    BY <2>1, <2>2 DEF Recurses
<1>4. PICK nodes \in [Filters -> V] : \A f \in Filters : nodes[f] = Step[<<f, nodes>>]
  <2> HIDE DEF Step, V
  <2> QED
    BY <1>3, FiltersFounded, RecursionExists
<1>5. Eq(nodes)
  <2>1. \A f \in Filters : nodes[f] = Under(f, nodes)
    <3> HIDE DEF Step, Under, V
    <3> QED
      BY <1>2, <1>4
  <2> HIDE DEF Under
  <2> QED
    BY <1>4, <2>1
<1>6. Eq(Nodes)
  <2>1. Nodes = CHOOSE n : Eq(n)
    BY DEF Nodes
  <2> HIDE DEF Eq
  <2> QED
    BY <1>5, <2>1
<1>7. \A f \in Filters : Nodes[f] = Under(f, Nodes)
  BY <1>6
<1>8. DOMAIN Nodes = Filters /\ Nodes = [f \in Filters |-> Nodes[f]]
  BY <1>6
<1> DEFINE T == {f \in Filters : Nodes[f] \subseteq Filters}
<1>9. \A f \in Filters : (\A i \in DOMAIN f.fields : f.fields[i] \in T) => f \in T
  BY <1>7
<1>10. Filters \subseteq T
  <2> HIDE DEF T
  <2> QED
    BY <1>9, FilterInduction
<1> QED
  BY <1>7, <1>8, <1>10

\* The relations of the fields that names lead to.
Named == {Resolved(name).relation : name \in Asked}

\* What convertFilter joins for f, given what it joins for the children.
JoinsFrom(f, joins) ==
  IF f.type = "" THEN <<>>
  ELSE IF Leaf(f) THEN AppendUnique(<<>>, Resolved(f.field).relation)
  ELSE FoldLeft(AppendAll, <<>>, [i \in DOMAIN f.fields |-> joins[f.fields[i]]])

LEMMA NoJoins == <<>> \in Joins(Named) /\ Range(<<>>) = {}
BY DEF Joins, IsInjective, Range

\* FilterJoins satisfies its recursive definition, and joins nothing twice.
LEMMA FilterJoinsUnfold ==
  /\ FilterJoins \in [Filters -> Joins(Named)]
  /\ \A f \in Filters : FilterJoins[f] = JoinsFrom(f, FilterJoins)
<1> DEFINE V == Joins(Named)
           Step == [a \in Filters \X [Filters -> V] |-> JoinsFrom(a[1], a[2])]
           Eq(joins) == joins = [f \in Filters |-> JoinsFrom(f, joins)]
<1>1. ASSUME NEW f \in Filters
      PROVE  /\ f.field \in Asked /\ f.fields \in Seq(Filters)
             /\ \A i \in DOMAIN f.fields : f.fields[i] \in Filters /\ f.fields[i] \in Below[f]
  BY FilterAssumption DEF Below, Range
<1>2. ASSUME NEW f \in Filters, NEW joins, \A i \in DOMAIN f.fields : joins[f.fields[i]] \in V
      PROVE  JoinsFrom(f, joins) \in V
  <2> DEFINE parts == [i \in DOMAIN f.fields |-> joins[f.fields[i]]]
  <2>1. parts \in Seq(V)
    BY <1>1, <1>2
  <2>2. FoldLeft(AppendAll, <<>>, parts) \in V
    <3> HIDE DEF parts
    <3> QED
      BY <2>1, PartsAppend
  <2>3. Resolved(f.field).relation \in Named
    BY <1>1 DEF Named
  <2>4. AppendUnique(<<>>, Resolved(f.field).relation) \in V
    BY <2>3, NoJoins, UniqueAppends
  <2> HIDE DEF V
  <2> QED
    BY <2>2, <2>4, NoJoins DEF JoinsFrom, V
<1> HIDE DEF V
<1>3. ASSUME NEW f \in Filters, NEW joins \in [Filters -> V]
      PROVE  Step[<<f, joins>>] = JoinsFrom(f, joins) /\ JoinsFrom(f, joins) \in V
  BY <1>1, <1>2
<1>4. Recurses(Filters, V, Below, Step)
  <2>1. V # {}
    BY NoJoins DEF V
  <2>2. Step \in [Filters \X [Filters -> V] -> V]
    BY <1>3
  <2>3. ASSUME NEW f \in Filters, NEW g \in [Filters -> V], NEW h \in [Filters -> V],
               \A c \in Below[f] : g[c] = h[c]
        PROVE  Step[<<f, g>>] = Step[<<f, h>>]
    <3>1. \A i \in DOMAIN f.fields : g[f.fields[i]] = h[f.fields[i]]
      BY <1>1, <2>3
    <3>2. [i \in DOMAIN f.fields |-> g[f.fields[i]]] = [i \in DOMAIN f.fields |-> h[f.fields[i]]]
      BY <3>1
    <3>3. JoinsFrom(f, g) = JoinsFrom(f, h)
      BY <3>2 DEF JoinsFrom
    <3> HIDE DEF Step
    <3> QED
      BY <1>3, <3>3
  <2> HIDE DEF Step
  <2> QED
    BY <2>1, <2>2, <2>3 DEF Recurses
<1>5. PICK joins \in [Filters -> V] : \A f \in Filters : joins[f] = Step[<<f, joins>>]
  <2> HIDE DEF Step
  <2> QED
    BY <1>4, FiltersFounded, RecursionExists
<1>6. Eq(joins)
  <2>1. \A f \in Filters : joins[f] = JoinsFrom(f, joins)
    <3> HIDE DEF Step
    <3> QED
      BY <1>3, <1>5
  <2> QED
    BY <1>5, <2>1
<1>7. Eq(FilterJoins)
  <2>1. FilterJoins = CHOOSE j : Eq(j)
    BY DEF FilterJoins, JoinsFrom
  <2> HIDE DEF Eq
  <2> QED
    BY <1>6, <2>1
<1>8. /\ \A f \in Filters : FilterJoins[f] = JoinsFrom(f, FilterJoins)
      /\ FilterJoins = [f \in Filters |-> FilterJoins[f]]
  BY <1>7
<1> DEFINE T == {f \in Filters : FilterJoins[f] \in V}
<1>9. \A f \in Filters : (\A i \in DOMAIN f.fields : f.fields[i] \in T) => f \in T
  <2> TAKE f \in Filters
  <2> HAVE \A i \in DOMAIN f.fields : f.fields[i] \in T
  <2>1. \A i \in DOMAIN f.fields : FilterJoins[f.fields[i]] \in V
    OBVIOUS
  <2>2. JoinsFrom(f, FilterJoins) \in V
    BY <1>2, <2>1
  <2> QED
    BY <1>8, <2>2
<1>10. Filters \subseteq T
  <2> HIDE DEF T
  <2> QED
    BY <1>9, FilterInduction
<1> QED
  BY <1>8, <1>10 DEF V

\* A node of a filter that is not empty, as the documentation describes it.
NodeWell(f) ==
  \/ f.type = "eq" /\ f.fields = <<>> /\ Declares(f.field)
  \/ f.type \in {"and", "or"} /\ f.field = <<>> /\ f.fields # <<>>
  \/ f.type = "not" /\ f.field = <<>> /\ Len(f.fields) = 1

\* A filter is empty, or every node of it is as documented.
Sound(f) == IF f.type = "" THEN EmptyFilter(f) ELSE \A g \in Nodes[f] : NodeWell(g)

\* What convertFilter and ToExpression answer for f, given their answers for the children.
ConvertsFrom(f, answers) ==
  /\ Expressible(f)
  /\ CASE f.type = "" -> EmptyFilter(f)
       [] Leaf(f) -> f.fields = <<>> /\ Known(f.field)
       [] OTHER -> /\ f.field = <<>>
                   /\ \A i \in DOMAIN f.fields : f.fields[i].type # "" /\ answers[f.fields[i]]

\* convertFilter and ToExpression succeed on the sound filters, if the resolver
\* knows the declared names.
LEMMA ConvertsDecides ==
  ASSUME \A name \in Asked : Known(name) <=> Declares(name)
  PROVE  \A f \in Filters : Converts[f] <=> Sound(f)
<1> DEFINE Eq(answers) == answers = [f \in Filters |-> ConvertsFrom(f, answers)]
<1>1. ASSUME NEW f \in Filters, NEW answers, \A i \in DOMAIN f.fields : answers[f.fields[i]] <=> Sound(f.fields[i])
      PROVE  ConvertsFrom(f, answers) <=> Sound(f)
  <2>1. /\ f.field \in Asked /\ f.fields \in Seq(Filters)
        /\ \A i \in DOMAIN f.fields : f.fields[i] \in Filters
    BY FilterAssumption
  <2>2. Nodes[f] = {f} \cup UNION {Nodes[f.fields[i]] : i \in DOMAIN f.fields}
    BY NodesUnfold
  <2>3. \A i \in DOMAIN f.fields : f.fields[i] \in Nodes[f.fields[i]]
    BY <2>1, NodesUnfold
  <2>4. CASE f.type = ""
    <3>1. Expressible(f) /\ ~Leaf(f)
      BY <2>4 DEF Expressible, Leaf
    <3>2. ConvertsFrom(f, answers) <=> EmptyFilter(f)
      BY <2>4, <3>1 DEF ConvertsFrom
    <3> QED
      BY <2>4, <3>2 DEF Sound
  <2>5. CASE Leaf(f)
    <3>1. ConvertsFrom(f, answers) <=> f.type = "eq" /\ f.fields = <<>> /\ Declares(f.field)
      BY <2>1, <2>5 DEF ConvertsFrom, Expressible, Leaf
    <3>2. NodeWell(f) <=> f.type = "eq" /\ f.fields = <<>> /\ Declares(f.field)
      BY <2>5 DEF NodeWell, Leaf
    <3>3. f.fields = <<>> => Nodes[f] = {f}
      BY <2>2
    <3>4. Sound(f) <=> \A g \in Nodes[f] : NodeWell(g)
      BY <2>5 DEF Sound, Leaf
    <3>5. f \in Nodes[f]
      BY <2>2
    <3> QED
      BY <3>1, <3>2, <3>3, <3>4, <3>5
  <2>6. CASE f.type \in {"and", "or", "not"}
    <3>1. ConvertsFrom(f, answers) <=>
            /\ Expressible(f) /\ f.field = <<>>
            /\ \A i \in DOMAIN f.fields : f.fields[i].type # "" /\ answers[f.fields[i]]
      BY <2>6 DEF ConvertsFrom, Leaf
    <3>2. NodeWell(f) <=> Expressible(f) /\ f.field = <<>>
      BY <2>6 DEF NodeWell, Expressible
    <3>3. ASSUME NEW i \in DOMAIN f.fields
          PROVE  (f.fields[i].type # "" /\ answers[f.fields[i]]) <=> \A g \in Nodes[f.fields[i]] : NodeWell(g)
      <4>1. CASE f.fields[i].type = ""
        <5>1. ~NodeWell(f.fields[i])
          BY <4>1 DEF NodeWell
        <5> QED
          BY <2>3, <4>1, <5>1
      <4>2. CASE f.fields[i].type # ""
        BY <1>1, <4>2 DEF Sound
      <4> QED
        BY <4>1, <4>2
    <3>4. Sound(f) <=> \A g \in Nodes[f] : NodeWell(g)
      BY <2>6 DEF Sound
    <3>5. (\A g \in Nodes[f] : NodeWell(g)) <=>
            NodeWell(f) /\ \A i \in DOMAIN f.fields : \A g \in Nodes[f.fields[i]] : NodeWell(g)
      BY <2>2
    <3> QED
      BY <3>1, <3>2, <3>3, <3>4, <3>5
  <2> QED
    BY <2>4, <2>5, <2>6 DEF Leaf
<1>2. Eq([f \in Filters |-> Sound(f)])
  <2> DEFINE answers == [f \in Filters |-> Sound(f)]
  <2>1. ASSUME NEW f \in Filters PROVE ConvertsFrom(f, answers) <=> Sound(f)
    <3>1. \A i \in DOMAIN f.fields : answers[f.fields[i]] <=> Sound(f.fields[i])
      BY FilterAssumption
    <3> HIDE DEF answers
    <3> QED
      BY <1>1, <3>1
  <2>2. ASSUME NEW f \in Filters
        PROVE  ConvertsFrom(f, answers) \in BOOLEAN /\ Sound(f) \in BOOLEAN
    <3>1. ConvertsFrom(f, answers) \in BOOLEAN
      BY DEF ConvertsFrom
    <3>2. EmptyFilter(f) \in BOOLEAN
      BY DEF EmptyFilter
    <3> QED
      BY <3>1, <3>2 DEF Sound
  <2>3. ASSUME NEW f \in Filters PROVE ConvertsFrom(f, answers) = Sound(f)
    BY <2>1, <2>2
  <2> QED
    BY <2>3
<1>3. Eq(Converts)
  <2>1. Converts = CHOOSE a : Eq(a)
    BY DEF Converts, ConvertsFrom
  <2> HIDE DEF Eq
  <2> QED
    BY <1>2, <2>1
<1>4. \A f \in Filters : Converts[f] = ConvertsFrom(f, Converts)
  BY <1>3
<1> DEFINE T == {f \in Filters : Converts[f] <=> Sound(f)}
<1>5. \A f \in Filters : (\A i \in DOMAIN f.fields : f.fields[i] \in T) => f \in T
  BY <1>1, <1>4
<1>6. Filters \subseteq T
  <2> HIDE DEF T
  <2> QED
    BY <1>5, FilterInduction
<1> QED
  BY <1>6

\* The filters below f whose field a leaf compares.
Leaves(f) == {g \in Nodes[f] : Leaf(g)}

\* A sound filter joins the relations of its leaves, each once.
LEMMA FilterJoinsCollect ==
  ASSUME NEW filter \in Filters, Sound(filter)
  PROVE  /\ FilterJoins[filter] \in Joins(Named)
         /\ Range(FilterJoins[filter]) = {Resolved(g.field).relation : g \in Leaves(filter)} \ {Base}
<1> DEFINE Collected(f) == {Resolved(g.field).relation : g \in Leaves(f)} \ {Base}
           T == {f \in Filters : Sound(f) => Range(FilterJoins[f]) = Collected(f)}
<1>1. ASSUME NEW f \in Filters, \A i \in DOMAIN f.fields : f.fields[i] \in T, Sound(f)
      PROVE  Range(FilterJoins[f]) = Collected(f)
  <2>1. /\ f.field \in Asked /\ f.fields \in Seq(Filters)
        /\ \A i \in DOMAIN f.fields : f.fields[i] \in Filters
    BY FilterAssumption
  <2>2. Nodes[f] = {f} \cup UNION {Nodes[f.fields[i]] : i \in DOMAIN f.fields}
    BY NodesUnfold
  <2>3. FilterJoins[f] = JoinsFrom(f, FilterJoins)
    BY FilterJoinsUnfold
  <2>4. CASE f.type = ""
    <3>0. f.fields = <<>> /\ ~Leaf(f)
      BY <1>1, <2>4 DEF Sound, EmptyFilter, Leaf
    <3>1. Nodes[f] = {f} /\ ~Leaf(f)
      BY <2>2, <3>0
    <3>2. Collected(f) = {}
      BY <3>1 DEF Leaves
    <3>3. FilterJoins[f] = <<>>
      BY <2>3, <2>4 DEF JoinsFrom
    <3> QED
      BY <3>2, <3>3, NoJoins
  <2>5. CASE Leaf(f)
    <3>1. f.fields = <<>>
      BY <1>1, <2>2, <2>5 DEF Sound, NodeWell, Leaf
    <3>2. Nodes[f] = {f}
      BY <2>2, <3>1
    <3>3. Collected(f) = {Resolved(f.field).relation} \ {Base}
      BY <2>5, <3>2 DEF Leaves
    <3>4. FilterJoins[f] = AppendUnique(<<>>, Resolved(f.field).relation)
      BY <2>3, <2>5 DEF JoinsFrom, Leaf
    <3>5. Resolved(f.field).relation \in Named
      BY <2>1 DEF Named
    <3> QED
      BY <3>3, <3>4, <3>5, NoJoins, UniqueAppends
  <2>6. CASE f.type \in {"and", "or", "not"}
    <3> DEFINE parts == [i \in DOMAIN f.fields |-> FilterJoins[f.fields[i]]]
    <3>1. FilterJoins[f] = FoldLeft(AppendAll, <<>>, parts)
      BY <2>3, <2>6 DEF JoinsFrom, Leaf
    <3>2. parts \in Seq(Joins(Named))
      BY <2>1, FilterJoinsUnfold
    <3>3. Range(FilterJoins[f]) = (UNION {Range(parts[i]) : i \in DOMAIN parts}) \ {Base}
      <4> HIDE DEF parts
      <4> QED
        BY <3>1, <3>2, PartsAppend
    <3>4. ASSUME NEW i \in DOMAIN f.fields PROVE Range(parts[i]) = Collected(f.fields[i])
      <4> DEFINE c == f.fields[i]
      <4>1. c \in Nodes[c] /\ Nodes[c] \subseteq Nodes[f]
        BY <2>1, <2>2, NodesUnfold
      <4>2. \A g \in Nodes[c] : NodeWell(g)
        BY <1>1, <2>6, <4>1 DEF Sound
      <4>3. c.type # ""
        BY <4>1, <4>2 DEF NodeWell
      <4>4. Sound(c)
        BY <4>2, <4>3 DEF Sound
      <4> QED
        BY <1>1, <4>4
    <3>5. Leaves(f) = UNION {Leaves(f.fields[i]) : i \in DOMAIN f.fields}
      <4>1. ~Leaf(f)
        BY <2>6 DEF Leaf
      <4>2. \A x : x \in Leaves(f) <=> \E i \in DOMAIN f.fields : x \in Leaves(f.fields[i])
        BY <2>2, <4>1 DEF Leaves
      <4> QED
        BY <4>2
    <3>6. DOMAIN parts = DOMAIN f.fields
      OBVIOUS
    <3> HIDE DEF parts
    <3>7. \A x : x \in Range(FilterJoins[f]) <=> x # Base /\ \E i \in DOMAIN f.fields : x \in Collected(f.fields[i])
      BY <3>3, <3>4, <3>6
    <3>8. \A x : x \in Collected(f) <=> x # Base /\ \E i \in DOMAIN f.fields : x \in Collected(f.fields[i])
      BY <3>5
    <3> HIDE DEF Collected
    <3> QED
      BY <3>7, <3>8
  <2> QED
    BY <2>4, <2>5, <2>6 DEF Leaf
<1>2. Filters \subseteq T
  <2>1. \A f \in Filters : (\A i \in DOMAIN f.fields : f.fields[i] \in T) => f \in T
    BY <1>1
  <2> HIDE DEF T
  <2> QED
    BY <2>1, FilterInduction
<1> QED
  BY <1>2, FilterJoinsUnfold

----
(* Pages                                                                   *)

\* A page p of the rows of a set, as the documentation describes it.
PageGood(d, p, rows, order, limit, offset) ==
  LET rest == Cardinality(rows) - offset
  IN /\ Range(p) \subseteq rows /\ \A i, j \in DOMAIN p : p[i] = p[j] => i = j
     /\ Len(p) = IF rest <= 0 THEN 0 ELSE IF limit \in 1..rest THEN limit ELSE rest
     /\ \A i \in DOMAIN p :
          /\ Cardinality({k \in rows : Before(d, k, p[i], order)}) < offset + i
          /\ Cardinality({k \in rows : ~Before(d, p[i], k, order)}) >= offset + i
     /\ \A i, j \in DOMAIN p : i < j => ~Before(d, p[j], p[i], order)

\* A set listed without repetitions, no later row before an earlier one.
Lists(d, s, rows, order) ==
  /\ IsFiniteSet(rows) /\ s \in SetToSeqs(rows)
  /\ \A i, j \in DOMAIN s : i < j => ~Before(d, s[j], s[i], order)
  /\ \A k \in rows : ~Before(d, k, k, order)

\* A listing holds every row of its set once.
LEMMA ListingFacts ==
  ASSUME NEW d, NEW s, NEW rows, NEW order, Lists(d, s, rows, order)
  PROVE  /\ Cardinality(rows) \in Nat /\ s \in Seq(rows) /\ Len(s) = Cardinality(rows)
         /\ DOMAIN s = 1..Len(s)
         /\ \A i, j \in DOMAIN s : s[i] = s[j] => i = j
         /\ \A k \in rows : \E i \in DOMAIN s : s[i] = k
<1> DEFINE n == Cardinality(rows)
<1>1. n \in Nat
  BY FS_CardinalityType DEF Lists
<1>2. s \in [1..n -> rows] /\ \A i, j \in 1..n : i # j => s[i] # s[j]
  BY DEF Lists, SetToSeqs
<1>3. IsFiniteSet(1..n) /\ Cardinality(1..n) = n
  BY <1>1, FS_Interval
<1>4. s \in Injection(1..n, rows)
  BY <1>2 DEF Injection, IsInjective
<1>5. s \in Surjection(1..n, rows)
  <2> HIDE DEF n
  <2>1. Cardinality(1..n) = Cardinality(rows)
    BY <1>3 DEF n
  <2> QED
    BY <1>4, <2>1, FS_Injection DEF Lists
<1>6. \A k \in rows : \E i \in 1..n : s[i] = k
  BY <1>5 DEF Surjection
<1> HIDE DEF n
<1>7. s \in Seq(rows) /\ Len(s) = n
  BY <1>1, <1>2
<1> QED
  BY <1>1, <1>2, <1>6, <1>7 DEF n

\* The rows of a listing that stand up to the place m: there are m of them.
First(s, m) == {s[j] : j \in 1..m}

LEMMA FirstRows ==
  ASSUME NEW d, NEW s, NEW rows, NEW order, Lists(d, s, rows, order), NEW m \in 0..Len(s)
  PROVE  First(s, m) \in SUBSET rows /\ IsFiniteSet(First(s, m)) /\ Cardinality(First(s, m)) = m
<1> DEFINE first == First(s, m)
           f == [j \in 1..m |-> s[j]]
<1>1. /\ Len(s) \in Nat /\ s \in Seq(rows) /\ DOMAIN s = 1..Len(s)
      /\ \A i, j \in DOMAIN s : s[i] = s[j] => i = j
  BY ListingFacts
<1>2. IsFiniteSet(1..m) /\ Cardinality(1..m) = m
  BY <1>1, FS_Interval
<1>3. first \in SUBSET rows
  BY <1>1 DEF First
<1>4. f \in Bijection(1..m, first)
  BY <1>1 DEF First, Bijection, Injection, Surjection, IsInjective
<1>5. IsFiniteSet(first) /\ Cardinality(first) = Cardinality(1..m)
  <2> HIDE DEF f, first
  <2> QED
    BY <1>2, <1>4, FS_Bijection DEF ExistsBijection
<1> QED
  BY <1>2, <1>3, <1>5

\* LIMIT and OFFSET cut a page as it is documented out of any listing.
LEMMA SlicesAreGood ==
  ASSUME NEW d, NEW s, NEW rows, NEW order, Lists(d, s, rows, order),
         NEW limit \in Nat, NEW offset \in Nat, limit = 0 => offset = 0
  PROVE  PageGood(d, Slice(s, limit, offset), rows, order, limit, offset)
<1> DEFINE n == Cardinality(rows)
           end == IF limit = 0 \/ offset + limit > Len(s) THEN Len(s) ELSE offset + limit
           p == Slice(s, limit, offset)
<1>1. /\ n \in Nat /\ s \in Seq(rows) /\ Len(s) = n /\ DOMAIN s = 1..n
      /\ \A i, j \in 1..n : s[i] = s[j] => i = j
      /\ \A k \in rows : \E i \in 1..n : s[i] = k
  BY ListingFacts
<1>2. end \in Nat /\ end <= n /\ p = SubSeq(s, offset + 1, end)
  BY <1>1 DEF Slice
<1>3. Len(p) = IF n - offset <= 0 THEN 0 ELSE IF limit \in 1..(n - offset) THEN limit ELSE n - offset
  <2>1. Len(p) = IF offset + 1 <= end THEN end - (offset + 1) + 1 ELSE 0
    BY <1>1, <1>2
  <2> QED
    BY <1>1, <2>1
<1> HIDE DEF n, end, p
<1>4. DOMAIN p = 1..Len(p) /\ Len(p) \in Nat /\ \A i \in 1..Len(p) : offset + i \in 1..n /\ p[i] = s[offset + i]
  <2>1. Len(p) = (IF offset + 1 <= end THEN end - offset ELSE 0) /\ DOMAIN p = 1..Len(p)
    BY <1>1, <1>2
  <2>2. Len(p) \in Nat /\ \A i \in 1..Len(p) : offset + i \in 1..n /\ offset + i <= end
    BY <1>1, <1>2, <2>1
  <2>3. \A i \in 1..Len(p) : p[i] = s[offset + i]
    BY <1>1, <1>2, <2>1, <2>2
  <2> QED
    BY <2>1, <2>2, <2>3
<1>5. Range(p) \subseteq rows /\ \A i, j \in DOMAIN p : p[i] = p[j] => i = j
  <2>1. \A i \in DOMAIN p : p[i] \in rows
    BY <1>1, <1>4
  <2>2. \A i, j \in DOMAIN p : p[i] = p[j] => offset + i = offset + j
    BY <1>1, <1>4
  <2> QED
    BY <1>4, <2>1, <2>2 DEF Range
<1>6. \A i, j \in 1..n : i < j => ~Before(d, s[j], s[i], order)
  BY <1>1 DEF Lists
<1>7. ASSUME NEW i \in DOMAIN p
      PROVE  /\ Cardinality({k \in rows : Before(d, k, p[i], order)}) < offset + i
             /\ Cardinality({k \in rows : ~Before(d, p[i], k, order)}) >= offset + i
  <2> DEFINE at == offset + i
             smaller == {k \in rows : Before(d, k, p[i], order)}
             others == {k \in rows : ~Before(d, p[i], k, order)}
  <2>1. at \in 1..n /\ p[i] = s[at] /\ at - 1 \in 0..Len(s) /\ at \in 0..Len(s)
    BY <1>1, <1>4
  <2>2. \A m \in 0..Len(s) : IsFiniteSet(First(s, m)) /\ Cardinality(First(s, m)) = m
    BY FirstRows
  <2> HIDE DEF at
  <2>3. smaller \subseteq First(s, at - 1)
    <3> SUFFICES ASSUME NEW k \in rows, Before(d, k, s[at], order) PROVE k \in First(s, at - 1)
      BY <2>1
    <3>1. PICK j \in 1..n : s[j] = k
      BY <1>1
    <3>2. ~(at < j)
      BY <1>6, <2>1, <3>1
    <3>3. j # at
      BY <3>1 DEF Lists
    <3>4. j \in 1..(at - 1)
      BY <1>1, <2>1, <3>2, <3>3
    <3> QED
      BY <3>1, <3>4 DEF First
  <2>4. First(s, at) \subseteq others
    <3> SUFFICES ASSUME NEW j \in 1..at PROVE s[j] \in rows /\ ~Before(d, s[at], s[j], order)
      BY <2>1 DEF First
    <3>1. j \in 1..n /\ (j < at \/ j = at)
      BY <1>1, <2>1
    <3>2. s[j] \in rows /\ s[at] \in rows
      BY <1>1, <2>1, <3>1
    <3> QED
      BY <1>6, <2>1, <3>1, <3>2 DEF Lists
  <2>5. IsFiniteSet(others) /\ Cardinality(others) \in Nat
    <3>1. IsFiniteSet(others)
      BY FS_Subset DEF Lists
    <3> QED
      BY <3>1, FS_CardinalityType
  <2> HIDE DEF smaller, others
  <2>6. Cardinality(smaller) <= at - 1 /\ Cardinality(smaller) \in Nat
    <3>1. IsFiniteSet(First(s, at - 1)) /\ Cardinality(First(s, at - 1)) = at - 1
      BY <2>1, <2>2
    <3>2. IsFiniteSet(smaller) /\ Cardinality(smaller) <= at - 1
      BY <2>3, <3>1, FS_Subset
    <3> QED
      BY <3>2, FS_CardinalityType
  <2>7. at <= Cardinality(others)
    <3>1. Cardinality(First(s, at)) = at
      BY <2>1, <2>2
    <3> QED
      BY <2>4, <2>5, <3>1, FS_Subset
  <2>8. at \in Nat
    BY <1>1, <2>1
  <2>9. Cardinality(smaller) < at /\ Cardinality(others) >= at
    BY <2>5, <2>6, <2>7, <2>8
  <2> QED
    BY <2>9 DEF at, smaller, others
<1>8. \A i, j \in DOMAIN p : i < j => ~Before(d, p[j], p[i], order)
  <2> SUFFICES ASSUME NEW i \in DOMAIN p, NEW j \in DOMAIN p, i < j
               PROVE  ~Before(d, p[j], p[i], order)
    OBVIOUS
  <2>1. offset + i < offset + j /\ offset + i \in 1..n /\ offset + j \in 1..n
    BY <1>4
  <2> QED
    BY <1>4, <1>6, <2>1
<1> QED
  BY <1>3, <1>5, <1>7, <1>8 DEF PageGood, p, n

----
(* Requests                                                                *)

\* What the resolver knows of the asked names is what they mean.
NamesAgree ==
  \A name \in Asked :
    /\ Known(name) <=> Declares(name)
    /\ Declares(name) => /\ Resolved(name) = Meaning(name)
                         /\ \E e \in Declared : e.field # Unmapped /\ e.field = Meaning(name)

LEMMA ServingAgrees ==
  ASSUME FieldsInv, fieldStatus = "serving"
  PROVE  NamesAgree
<1>1. /\ \A e \in Declared : e.field # Unmapped
      /\ \A name \in Asked : /\ Known(name) <=> \E e \in Declared : EqualFold(e.name, name)
                             /\ \A e \in Declared : EqualFold(e.name, name) => Resolved(name) = e.field
  BY FieldsInvSuffices DEF FieldsAsDeclared, Declarable
<1>2. ASSUME NEW name \in Asked, Declares(name)
      PROVE  \E e \in Declared : EqualFold(e.name, name) /\ Meaning(name) = e.field
  <2> DEFINE meant == CHOOSE e \in Declared : EqualFold(e.name, name)
  <2>1. Meaning(name) = meant.field
    BY <1>2 DEF Meaning, MeaningsIn, Declares
  <2>2. meant \in Declared /\ EqualFold(meant.name, name)
    BY <1>2 DEF Declares
  <2> QED
    BY <2>1, <2>2
<1>3. \A name \in Asked : Known(name) <=> Declares(name)
  BY <1>1 DEF Declares
<1>4. ASSUME NEW name \in Asked, Declares(name)
      PROVE  /\ Resolved(name) = Meaning(name)
             /\ \E e \in Declared : e.field # Unmapped /\ e.field = Meaning(name)
  <2>1. PICK e \in Declared : EqualFold(e.name, name) /\ Meaning(name) = e.field
    BY <1>2, <1>4
  <2>2. e.field # Unmapped /\ Resolved(name) = e.field
    BY <1>1, <2>1
  <2> QED
    BY <2>1, <2>2
<1> QED
  BY <1>3, <1>4 DEF NamesAgree

\* The types of a request's parts.
LEMMA RequestParts ==
  ASSUME NEW r \in Requests
  PROVE  /\ r.filter \in Filters /\ r.limit \in Int /\ r.offset \in Int
         /\ r.orderBy \in Seq([field : Asked, direction : STRING])
         /\ r.sorts \in Seq([field : [relation : {Base}, column : STRING], direction : {"asc", "desc"}])
<1>1. r \in RequestSet
  BY RequestAssumption
<1> QED
  BY <1>1 DEF RequestSet

LEMMA KeysAsk ==
  ASSUME NEW orderBy \in Seq([field : Asked, direction : STRING]), NEW i \in DOMAIN orderBy
  PROVE  orderBy[i].field \in Asked
<1> DEFINE K == [field : Asked, direction : STRING]
<1>1. orderBy \in Seq(K)
  OBVIOUS
<1>2. orderBy[i] \in K
  <2> HIDE DEF K
  <2> QED
    BY <1>1
<1> QED
  BY <1>2

LEMMA SortsAreBase ==
  ASSUME NEW sorts \in Seq([field : [relation : {Base}, column : STRING], direction : {"asc", "desc"}]),
         NEW i \in DOMAIN sorts
  PROVE  sorts[i].field.relation = Base
<1> DEFINE K == [field : [relation : {Base}, column : STRING], direction : {"asc", "desc"}]
<1>1. sorts \in Seq(K)
  OBVIOUS
<1>2. sorts[i] \in K
  <2> HIDE DEF K
  <2> QED
    BY <1>1
<1> QED
  BY <1>2

\* The documented filters are the sound ones.
LEMMA WellFormedIsSound ==
  ASSUME NEW filter \in Filters
  PROVE  WellFormed(filter) <=> Sound(filter)
<1>1. filter \in Nodes[filter]
  BY NodesUnfold
<1>2. WellFormed(filter) <=> (filter.type = "" /\ EmptyFilter(filter)) \/ \A f \in Nodes[filter] : NodeWell(f)
  BY DEF WellFormed, NodeWell
<1>3. filter.type = "" => ~NodeWell(filter)
  BY DEF NodeWell
<1> QED
  BY <1>1, <1>2, <1>3 DEF Sound

\* The three validations accept what the documentation admits.
LEMMA ValidIsAdmissible ==
  ASSUME FieldsInv, fieldStatus = "serving", request \in Requests
  PROVE  Valid <=> Admissible(request)
<1>1. /\ request.filter \in Filters /\ request.limit \in Int /\ request.offset \in Int
      /\ request.orderBy \in Seq([field : Asked, direction : STRING])
  BY RequestParts
<1>2. \A name \in Asked : Known(name) <=> Declares(name)
  BY ServingAgrees DEF NamesAgree
<1>3. Converts[request.filter] <=> WellFormed(request.filter)
  BY <1>1, <1>2, ConvertsDecides, WellFormedIsSound
<1>4. \A i \in DOMAIN request.orderBy : request.orderBy[i].field \in Asked
  BY <1>1, KeysAsk
<1>5. ValidPage(request) <=> (request.limit > 0 /\ request.offset >= 0) \/ (request.limit = 0 /\ request.offset = 0)
  BY <1>1 DEF ValidPage
<1> DEFINE keys == \A i \in DOMAIN request.orderBy :
                     Declares(request.orderBy[i].field) /\ request.orderBy[i].direction \in {"", "asc", "desc"}
<1>6. (ValidModifiers(request) /\ Resolves(request)) <=> (WellFormed(request.filter) /\ keys)
  BY <1>2, <1>3, <1>4 DEF ValidModifiers, Resolves, ValidDirection
<1> QED
  BY <1>5, <1>6 DEF Valid, Admissible

----
(* The plan                                                                *)

\* The relations and the ordering that the request's names mean.
FilterRelations == {Meaning(g.field).relation : g \in Leaves(request.filter)} \ {Base}
OrderRelations == {Meaning(request.orderBy[i].field).relation : i \in DOMAIN request.orderBy} \ {Base}
OrderMeant ==
  [i \in DOMAIN request.orderBy |->
     [field |-> Meaning(request.orderBy[i].field),
      direction |-> IF request.orderBy[i].direction = "desc" THEN "desc" ELSE "asc"]]

\* A plan joins each of them once, the ordering's only if the filter does not.
PlanRight(p) ==
  /\ p.filterJoins \in Joins(Named) /\ Range(p.filterJoins) = FilterRelations
  /\ p.orderJoins \in Joins(Named) /\ Range(p.orderJoins) = OrderRelations \ FilterRelations
  /\ p.order = OrderMeant

\* The leaves of a sound filter ask for declared fields.
LEMMA LeavesDeclare ==
  ASSUME NEW filter \in Filters, Sound(filter), NEW g \in Leaves(filter)
  PROVE  g.field \in Asked /\ Declares(g.field)
<1>1. g \in Nodes[filter] /\ Leaf(g) /\ g \in Filters
  BY NodesUnfold DEF Leaves
<1>2. g.field \in Asked
  BY <1>1, FilterAssumption
<1>3. CASE filter.type # ""
  <2>1. NodeWell(g)
    BY <1>1, <1>3 DEF Sound
  <2> QED
    BY <1>1, <1>2, <2>1 DEF NodeWell, Leaf
<1>4. CASE filter.type = ""
  <2>1. filter.fields = <<>>
    BY <1>4 DEF Sound, EmptyFilter
  <2>2. Nodes[filter] = {filter}
    BY <2>1, NodesUnfold
  <2> QED
    BY <1>1, <1>4, <2>2 DEF Leaf
<1> QED
  BY <1>3, <1>4

\* resolve plans what the request means.
LEMMA ResolutionIsRight ==
  ASSUME FieldsInv, fieldStatus = "serving", request \in Requests, Admissible(request)
  PROVE  PlanRight(Resolution(request))
<1> DEFINE filter == request.filter
           orderBy == request.orderBy
           joins == FilterJoins[filter]
<1>1. NamesAgree
  BY ServingAgrees
<1>2. filter \in Filters /\ orderBy \in Seq([field : Asked, direction : STRING])
  BY RequestParts
<1>3. Sound(filter)
  BY <1>2, WellFormedIsSound DEF Admissible
<1>4. \A i \in DOMAIN orderBy :
        orderBy[i].field \in Asked /\ Declares(orderBy[i].field) /\ orderBy[i].direction \in {"", "asc", "desc"}
  BY <1>2, KeysAsk DEF Admissible
<1>5. joins \in Joins(Named) /\ Range(joins) = {Resolved(g.field).relation : g \in Leaves(filter)} \ {Base}
  BY <1>2, <1>3, FilterJoinsCollect
<1>6. \A g \in Leaves(filter) : Resolved(g.field) = Meaning(g.field)
  BY <1>1, <1>2, <1>3, LeavesDeclare DEF NamesAgree
<1>7. Range(joins) = FilterRelations
  BY <1>5, <1>6 DEF FilterRelations
<1>8. \A i \in DOMAIN orderBy : Resolved(orderBy[i].field) = Meaning(orderBy[i].field)
  BY <1>1, <1>4 DEF NamesAgree
<1>9. OrdersOver(Named, orderBy)
  BY <1>2, <1>4 DEF OrdersOver, Named
<1>10. /\ OrderJoins(orderBy, joins) \in Joins(Named)
       /\ Range(OrderJoins(orderBy, joins)) = KeyRelations(orderBy, Range(joins) \cup {Base})
  <2> HIDE DEF orderBy, joins
  <2> QED
    BY <1>9, OrdersAppend
<1>11. {Resolved(orderBy[i].field).relation : i \in DOMAIN orderBy} = {Meaning(orderBy[i].field).relation : i \in DOMAIN orderBy}
  BY <1>8
<1>12. Range(OrderJoins(orderBy, joins)) = OrderRelations \ FilterRelations
  <2> DEFINE all == {Meaning(orderBy[i].field).relation : i \in DOMAIN orderBy}
  <2>1. OrderRelations = all \ {Base}
    BY DEF OrderRelations
  <2>2. Range(OrderJoins(orderBy, joins)) = all \ (FilterRelations \cup {Base})
    BY <1>7, <1>10, <1>11 DEF KeyRelations
  <2> HIDE DEF all
  <2> QED
    BY <2>1, <2>2
<1>13. [i \in DOMAIN orderBy |->
          [field |-> Resolved(orderBy[i].field), direction |-> Direction(orderBy[i].direction)]] = OrderMeant
  BY <1>4, <1>8 DEF OrderMeant, Direction
<1> HIDE DEF joins
<1>14. /\ Resolution(request).filterJoins = joins
       /\ Resolution(request).orderJoins = OrderJoins(orderBy, joins)
       /\ Resolution(request).order = OrderMeant
  BY <1>13 DEF Resolution, joins
<1> QED
  BY <1>5, <1>7, <1>10, <1>12, <1>14 DEF PlanRight

----
(* The statements                                                          *)

\* What a statement for the rows and a statement for the count consist of.
LEMMA QueryParts ==
  LET st == QueryStatement
  IN /\ st.live = SoftDelete /\ st.owners = request.owners /\ st.filter = request.filter
     /\ st.explicit = request.joins \cup request.modifiers
     /\ st.defaults = (<<>> \o plan.filterJoins) \o plan.orderJoins
     /\ st.order = IF plan.order = <<>> THEN request.sorts ELSE plan.order
     /\ st.limit = IF request.limit > 0 THEN request.limit ELSE 0
     /\ st.offset = IF request.offset > 0 THEN request.offset ELSE 0
<1> DEFINE scoped == ApplyScope(Builder)
           modified == ApplyQueryModifiers(scoped)
<1>1. /\ DOMAIN scoped = DOMAIN Builder
      /\ scoped.live = SoftDelete /\ scoped.owners = request.owners /\ scoped.filter = request.filter
      /\ scoped.explicit = {} \cup request.joins /\ scoped.defaults = <<>> \o plan.filterJoins
      /\ scoped.limit = 0 /\ scoped.offset = 0
  BY DEF ApplyScope, Builder
<1>2. DOMAIN Builder = {"live", "owners", "filter", "explicit", "defaults", "order", "limit", "offset"}
  BY DEF Builder
<1> HIDE DEF scoped
<1>3. /\ DOMAIN modified = DOMAIN Builder
      /\ modified.live = SoftDelete /\ modified.owners = request.owners /\ modified.filter = request.filter
      /\ modified.explicit = ({} \cup request.joins) \cup request.modifiers
      /\ modified.defaults = (<<>> \o plan.filterJoins) \o plan.orderJoins
      /\ modified.order = IF plan.order = <<>> THEN request.sorts ELSE plan.order
      /\ modified.limit = 0 /\ modified.offset = 0
  BY <1>1, <1>2 DEF ApplyQueryModifiers
<1>4. QueryStatement = ApplyPagination(modified)
  BY DEF QueryStatement, scoped
<1>5. ({} \cup request.joins) \cup request.modifiers = request.joins \cup request.modifiers
  OBVIOUS
<1> HIDE DEF modified
<1> QED
  BY <1>2, <1>3, <1>4, <1>5 DEF ApplyPagination

LEMMA CountParts ==
  LET st == CountStatement
  IN /\ st.live = SoftDelete /\ st.owners = request.owners /\ st.filter = request.filter
     /\ st.explicit = request.joins
     /\ st.defaults = <<>> \o plan.filterJoins
     /\ st.order = <<>>
BY DEF CountStatement, ApplyScope, Builder

\* The joins of the filter, then those that only the ordering needs.
LEMMA JoinsConcatenate ==
  ASSUME NEW R, NEW a \in Joins(R), NEW b \in Joins(R), Range(a) \cap Range(b) = {}
  PROVE  /\ <<>> \o a = a
         /\ Range(a \o b) = Range(a) \cup Range(b)
         /\ \A i, j \in DOMAIN (a \o b) : (a \o b)[i] = (a \o b)[j] => i = j
<1> DEFINE c == a \o b
           m == Len(a)
           n == Len(b)
<1>1. a \in Seq(R) /\ b \in Seq(R)
  BY DEF Joins
<1>2. <<>> \o a = a
  BY <1>1
<1>3. /\ m \in Nat /\ n \in Nat /\ DOMAIN a = 1..m /\ DOMAIN b = 1..n
      /\ DOMAIN c = 1..(m + n)
      /\ \A i \in 1..(m + n) : c[i] = IF i <= m THEN a[i] ELSE b[i - m]
  BY <1>1
<1>4. /\ \A i, j \in 1..m : a[i] = a[j] => i = j
      /\ \A i, j \in 1..n : b[i] = b[j] => i = j
  BY <1>3 DEF Joins, IsInjective
<1> HIDE DEF c, m, n
<1>5. \A i \in 1..m : i \in 1..(m + n) /\ c[i] = a[i]
  BY <1>3
<1>6. \A i \in 1..n : m + i \in 1..(m + n) /\ c[m + i] = b[i]
  BY <1>3
<1>7. \A i \in 1..(m + n) : (i \in 1..m /\ c[i] = a[i]) \/ (i - m \in 1..n /\ c[i] = b[i - m])
  BY <1>3
<1>8. Range(c) = Range(a) \cup Range(b)
  <2>1. \A x \in Range(a) : x \in Range(c)
    BY <1>3, <1>5 DEF Range
  <2>2. \A x \in Range(b) : x \in Range(c)
    BY <1>3, <1>6 DEF Range
  <2>3. \A x \in Range(c) : x \in Range(a) \/ x \in Range(b)
    BY <1>3, <1>7 DEF Range
  <2> QED
    BY <2>1, <2>2, <2>3
<1>9. ASSUME NEW i \in DOMAIN c, NEW j \in DOMAIN c, c[i] = c[j] PROVE i = j
  <2>1. \A k \in 1..m : a[k] \in Range(a)
    BY <1>3 DEF Range
  <2>2. \A k \in 1..n : b[k] \in Range(b)
    BY <1>3 DEF Range
  <2>3. CASE i \in 1..m /\ c[i] = a[i]
    <3>1. ~(j - m \in 1..n /\ c[j] = b[j - m])
      BY <1>9, <2>1, <2>2, <2>3
    <3> QED
      BY <1>3, <1>4, <1>7, <1>9, <2>3, <3>1
  <2>4. CASE i - m \in 1..n /\ c[i] = b[i - m]
    <3>1. ~(j \in 1..m /\ c[j] = a[j])
      BY <1>9, <2>1, <2>2, <2>4
    <3>2. j - m \in 1..n /\ b[i - m] = b[j - m]
      BY <1>3, <1>7, <1>9, <2>4, <3>1
    <3>3. i - m = j - m
      BY <1>4, <2>4, <3>2
    <3> QED
      BY <1>3, <1>9, <3>3
  <2> QED
    BY <1>3, <1>7, <2>3, <2>4
<1> QED
  BY <1>2, <1>8, <1>9 DEF c

\* A statement joins what it filters and sorts by, once, and nothing else.
WellJoined(st) ==
  /\ Needs(st) \ {Base} \subseteq Range(st.defaults) \cup {j.relation : j \in st.explicit}
  /\ \A i, j \in DOMAIN st.defaults : st.defaults[i] = st.defaults[j] => i = j
  /\ Range(st.defaults) \subseteq Needs(st)

LEMMA StatementNeeds ==
  ASSUME NEW st
  PROVE  Needs(st) = {Meaning(g.field).relation : g \in Leaves(st.filter)}
                     \cup {st.order[i].field.relation : i \in DOMAIN st.order}
BY DEF Needs, Leaves

\* Both statements of a right plan are.
LEMMA CountWellJoined ==
  ASSUME PlanRight(plan)
  PROVE  WellJoined(CountStatement)
<1> DEFINE st == CountStatement
           a == plan.filterJoins
           filtered == {Meaning(g.field).relation : g \in Leaves(request.filter)}
<1>1. st.filter = request.filter /\ st.defaults = <<>> \o a /\ st.order = <<>>
  BY CountParts
<1>2. a \in Joins(Named) /\ Range(a) = filtered \ {Base}
  BY DEF PlanRight, FilterRelations
<1>3. st.defaults = a /\ \A i, j \in DOMAIN a : a[i] = a[j] => i = j
  <2>1. a \in Seq(Named) /\ IsInjective(a)
    BY <1>2 DEF Joins
  <2>2. <<>> \o a = a
    BY <2>1
  <2> QED
    BY <1>1, <2>1, <2>2 DEF IsInjective
<1>4. Needs(st) = filtered
  <2>1. {st.order[i].field.relation : i \in DOMAIN st.order} = {}
    BY <1>1
  <2> QED
    BY <1>1, <2>1, StatementNeeds
<1> HIDE DEF st, a, filtered
<1> QED
  BY <1>2, <1>3, <1>4 DEF WellJoined, st

LEMMA QueryWellJoined ==
  ASSUME PlanRight(plan), request \in Requests
  PROVE  WellJoined(QueryStatement)
<1> DEFINE st == QueryStatement
           a == plan.filterJoins
           b == plan.orderJoins
           orderBy == request.orderBy
           filtered == {Meaning(g.field).relation : g \in Leaves(request.filter)}
           ordered == {Meaning(orderBy[i].field).relation : i \in DOMAIN orderBy}
           sorted == {st.order[i].field.relation : i \in DOMAIN st.order}
<1>1. /\ st.filter = request.filter /\ st.defaults = (<<>> \o a) \o b
      /\ st.order = IF plan.order = <<>> THEN request.sorts ELSE plan.order
  BY QueryParts
<1>2. /\ a \in Joins(Named) /\ Range(a) = filtered \ {Base}
      /\ b \in Joins(Named) /\ Range(b) = (ordered \ {Base}) \ (filtered \ {Base})
  BY DEF PlanRight, FilterRelations, OrderRelations
<1>3. plan.order = OrderMeant
  BY DEF PlanRight
<1>4. /\ st.defaults = a \o b /\ Range(a \o b) = Range(a) \cup Range(b)
      /\ \A i, j \in DOMAIN (a \o b) : (a \o b)[i] = (a \o b)[j] => i = j
  <2>1. Range(a) \cap Range(b) = {}
    BY <1>2
  <2> HIDE DEF st, a, b, filtered, ordered
  <2> QED
    BY <1>1, <1>2, <2>1, JoinsConcatenate
<1>5. orderBy \in Seq([field : Asked, direction : STRING])
      /\ request.sorts \in Seq([field : [relation : {Base}, column : STRING], direction : {"asc", "desc"}])
  BY RequestParts
<1>6. ordered \subseteq sorted /\ sorted \subseteq ordered \cup {Base}
  <2>1. CASE plan.order = <<>>
    <3>1. DOMAIN orderBy = {}
      BY <1>3, <2>1 DEF OrderMeant
    <3>2. \A i \in DOMAIN request.sorts : request.sorts[i].field.relation = Base
      BY <1>5, SortsAreBase
    <3> QED
      BY <1>1, <2>1, <3>1, <3>2
  <2>2. CASE plan.order # <<>>
    <3>1. st.order = OrderMeant
      BY <1>1, <1>3, <2>2
    <3>2. DOMAIN OrderMeant = DOMAIN orderBy
          /\ \A i \in DOMAIN orderBy : OrderMeant[i].field = Meaning(orderBy[i].field)
      BY DEF OrderMeant
    <3> QED
      BY <3>1, <3>2
  <2> QED
    BY <2>1, <2>2
<1>7. Needs(st) = filtered \cup sorted
  BY <1>1, StatementNeeds
<1> HIDE DEF st, a, b, filtered, ordered, sorted
<1> QED
  BY <1>2, <1>4, <1>6, <1>7 DEF WellJoined, st

----
(* The answers                                                             *)

\* The rows that an answer's page is taken from.
Wanted == {k \in Matches : Joined(db, k, request.modifiers)}

\* What the resolver answers for the asked names is what they mean.
LEMMA NamesMean ==
  ASSUME FieldsInv, fieldStatus = "serving"
  PROVE  [name \in {n \in Asked : Known(n)} |-> Resolved(name)] = MeaningsIn(Declared)
<1>1. \A name \in Asked : /\ Known(name) <=> \E e \in Declared : EqualFold(e.name, name)
                          /\ \A e \in Declared : EqualFold(e.name, name) => Resolved(name) = e.field
  BY FieldsInvSuffices DEF FieldsAsDeclared
<1>2. {n \in Asked : Known(n)} = {n \in Asked : \E e \in Declared : EqualFold(e.name, n)}
  BY <1>1
<1>3. ASSUME NEW name \in {n \in Asked : Known(n)}
      PROVE  Resolved(name) = (CHOOSE e \in Declared : EqualFold(e.name, name)).field
  <2>1. \E e \in Declared : EqualFold(e.name, name)
    BY <1>1, <1>3
  <2> DEFINE meant == CHOOSE e \in Declared : EqualFold(e.name, name)
  <2>2. meant \in Declared /\ EqualFold(meant.name, name)
    BY <2>1
  <2> QED
    BY <1>1, <1>3, <2>2
<1> QED
  BY <1>2, <1>3 DEF MeaningsIn

\* The statements select the rows that the request is about.
LEMMA CountSelectsMatches ==
  ASSUME FieldsInv, fieldStatus = "serving"
  PROVE  Selected(CountStatement) = Matches
BY CountParts, NamesMean DEF Selected, Matches

LEMMA QuerySelectsWanted ==
  ASSUME FieldsInv, fieldStatus = "serving"
  PROVE  Selected(QueryStatement) = Wanted
<1> DEFINE st == QueryStatement
           names == MeaningsIn(Declared)
<1>1. /\ st.live = SoftDelete /\ st.owners = request.owners /\ st.filter = request.filter
      /\ st.explicit = request.joins \cup request.modifiers
  BY QueryParts
<1>2. Selected(st) = Rows(db, SoftDelete, request.owners, request.joins \cup request.modifiers, request.filter, names)
  BY <1>1, NamesMean DEF Selected
<1>3. \A k : Joined(db, k, request.joins \cup request.modifiers) <=>
               Joined(db, k, request.joins) /\ Joined(db, k, request.modifiers)
  BY DEF Joined
<1> HIDE DEF names
<1>4. Rows(db, SoftDelete, request.owners, request.joins \cup request.modifiers, request.filter, names)
        = {k \in Rows(db, SoftDelete, request.owners, request.joins, request.filter, names) :
             Joined(db, k, request.modifiers)}
  BY <1>3 DEF Rows
<1> QED
  BY <1>2, <1>4 DEF Wanted, Matches, names

\* An order whose keys have numbered values on the rows of d.
Comparable(d, rows, order) ==
  \A k \in rows : \A i \in DOMAIN order : Column(d, k, order[i].field) \in Nat

LEMMA NoneBeforeItself ==
  ASSUME NEW d, NEW rows, NEW order, Comparable(d, rows, order), NEW k \in rows
  PROVE  ~Before(d, k, k, order)
<1> SUFFICES ASSUME NEW i \in DOMAIN order,
                    Column(d, k, order[i].field) < Column(d, k, order[i].field)
             PROVE  FALSE
  BY DEF Before
<1>1. Column(d, k, order[i].field) \in Nat
  BY DEF Comparable
<1> QED
  BY <1>1

\* A request orders by declared columns, or by those of the trusted modifiers.
LEMMA OrderingCompares ==
  ASSUME FieldsInv, fieldStatus = "serving", db \in Databases, request \in Requests, Admissible(request)
  PROVE  Comparable(db, DOMAIN db.rows, Ordering)
<1> SUFFICES ASSUME NEW k \in DOMAIN db.rows, NEW i \in DOMAIN Ordering
             PROVE  Column(db, k, Ordering[i].field) \in Nat
  BY DEF Comparable
<1>1. /\ \A e \in Declared : e.field # Unmapped => Column(db, k, e.field) \in Nat
      /\ \A j \in DOMAIN request.sorts : Column(db, k, request.sorts[j].field) \in Nat
  BY DatabaseAssumption DEF FieldsInv, Declared
<1>2. CASE request.orderBy = <<>>
  BY <1>1, <1>2 DEF Ordering
<1>3. CASE request.orderBy # <<>>
  <2>1. i \in DOMAIN request.orderBy /\ Ordering[i].field = Meaning(request.orderBy[i].field)
    BY <1>3 DEF Ordering
  <2>2. request.orderBy[i].field \in Asked /\ Declares(request.orderBy[i].field)
    BY <2>1, RequestParts, KeysAsk DEF Admissible
  <2>3. PICK e \in Declared : e.field # Unmapped /\ e.field = Meaning(request.orderBy[i].field)
    BY <2>2, ServingAgrees DEF NamesAgree
  <2> QED
    BY <1>1, <2>1, <2>3
<1> QED
  BY <1>2, <1>3

\* The page of an answer is right.
PageRight == PageGood(db, page, Wanted, Ordering, request.limit, request.offset)

\* Whichever listing the database chooses, the page cut from it is right.
LEMMA QueryAnswers ==
  ASSUME FieldsInv, fieldStatus = "serving", db \in Databases, request \in Requests, Admissible(request),
         PlanRight(plan), NEW s \in Listings(QueryStatement)
  PROVE  PageGood(db, Slice(s, QueryStatement.limit, QueryStatement.offset), Wanted, Ordering,
                  request.limit, request.offset)
<1> DEFINE st == QueryStatement
<1>1. /\ st.limit = IF request.limit > 0 THEN request.limit ELSE 0
      /\ st.offset = IF request.offset > 0 THEN request.offset ELSE 0
      /\ st.order = IF plan.order = <<>> THEN request.sorts ELSE plan.order
  BY QueryParts
<1>2. request.limit \in Nat /\ request.offset \in Nat /\ (request.limit = 0 => request.offset = 0)
  <2>1. request.limit \in Int /\ request.offset \in Int
    BY RequestParts
  <2>2. (request.limit > 0 /\ request.offset >= 0) \/ (request.limit = 0 /\ request.offset = 0)
    BY DEF Admissible
  <2> QED
    BY <2>1, <2>2
<1>3. st.limit = request.limit /\ st.offset = request.offset
  BY <1>1, <1>2
<1>4. st.order = Ordering
  <2>1. plan.order = OrderMeant
    BY DEF PlanRight
  <2>2. request.orderBy \in Seq([field : Asked, direction : STRING])
    BY RequestParts
  <2>3. CASE request.orderBy = <<>>
    <3>1. OrderMeant = <<>>
      BY <2>3 DEF OrderMeant
    <3> QED
      BY <1>1, <2>1, <2>3, <3>1 DEF Ordering
  <2>4. CASE request.orderBy # <<>>
    <3>1. DOMAIN request.orderBy # {}
      <4> DEFINE K == [field : Asked, direction : STRING]
      <4>1. request.orderBy \in Seq(K)
        BY <2>2
      <4>2. request.orderBy = [i \in DOMAIN request.orderBy |-> request.orderBy[i]]
        <5> HIDE DEF K
        <5> QED
          BY <4>1
      <4>3. DOMAIN request.orderBy = {} => request.orderBy = <<>>
        BY <4>2
      <4> QED
        BY <2>4, <4>3
    <3>2. OrderMeant # <<>>
      BY <3>1 DEF OrderMeant
    <3> QED
      BY <1>1, <2>1, <2>4, <3>2 DEF Ordering, OrderMeant
  <2> QED
    BY <2>3, <2>4
<1>5. Selected(st) = Wanted
  BY QuerySelectsWanted
<1>6. Wanted \in SUBSET DOMAIN db.rows /\ IsFiniteSet(Wanted)
  <2>1. Wanted \in SUBSET DOMAIN db.rows
    BY DEF Wanted, Matches, Rows
  <2>2. IsFiniteSet(DOMAIN db.rows)
    BY DatabaseAssumption
  <2> QED
    BY <2>1, <2>2, FS_Subset
<1> HIDE DEF st
<1>7. s \in SetToSeqs(Wanted) /\ \A i, j \in DOMAIN s : i < j => ~Before(db, s[j], s[i], Ordering)
  BY <1>4, <1>5 DEF Listings, st
<1>8. Comparable(db, Wanted, Ordering)
  BY <1>6, OrderingCompares DEF Comparable
<1>9. \A k \in Wanted : ~Before(db, k, k, Ordering)
  BY <1>8, NoneBeforeItself
<1>10. Lists(db, s, Wanted, Ordering)
  BY <1>6, <1>7, <1>9 DEF Lists
<1> QED
  BY <1>2, <1>3, <1>10, SlicesAreGood DEF st

----
(* The invariant                                                           *)

\* Before a statement is executed there is none that was.
Untouched ==
  /\ phase \in {"idle", "received", "refused", "planned"} => queried = None
  /\ phase \in {"idle", "received", "refused", "planned", "queried"} => counted = None

\* A request is admissible if it is planned, and not if it is refused.
Judged ==
  /\ phase = "refused" => ~Admissible(request)
  /\ phase \in {"planned", "queried", "counted", "answered"} => Admissible(request)

\* Requests are served by a complete resolver, a plan is what its request
\* means, and what has been executed or answered is final.
ListInv ==
  /\ FieldsInv /\ db \in Databases
  /\ phase # "idle" => fieldStatus = "serving" /\ request \in Requests
  /\ Untouched /\ Judged
  /\ phase \in {"planned", "queried"} => PlanRight(plan)
  /\ \A st \in {queried, counted} \ {None} : WellJoined(st)
  /\ phase \in {"queried", "counted", "answered"} => PageRight
  /\ phase \in {"counted", "answered"} => total = Cardinality(Matches)

\* What a request means does not change while it is served.
LEMMA MeaningStays ==
  ASSUME UNCHANGED <<fieldVars, db, request>>
  PROVE  /\ fieldStatus' = fieldStatus /\ db' = db /\ request' = request
         /\ Admissible(request)' = Admissible(request)
         /\ Matches' = Matches
         /\ \A p : PlanRight(p)' = PlanRight(p)
         /\ \A st : WellJoined(st)' = WellJoined(st)
         /\ \A p : PageGood(db, p, Wanted, Ordering, request.limit, request.offset)'
                     = PageGood(db, p, Wanted, Ordering, request.limit, request.offset)
<1>1. model' = model /\ fields' = fields /\ fieldStatus' = fieldStatus /\ db' = db /\ request' = request
  BY DEF fieldVars
<1>2. Declared' = Declared
  BY <1>1 DEF Declared
<1>3. \A name : Declares(name)' = Declares(name) /\ Meaning(name)' = Meaning(name)
  BY <1>2 DEF Declares, Meaning
<1>4. Admissible(request)' = Admissible(request)
  BY <1>1, <1>3 DEF Admissible, WellFormed
<1>5. Matches' = Matches
  BY <1>1, <1>2 DEF Matches
<1>6. Ordering' = Ordering /\ OrderMeant' = OrderMeant
  BY <1>1, <1>3 DEF Ordering, OrderMeant
<1>7. FilterRelations' = FilterRelations /\ OrderRelations' = OrderRelations /\ Named' = Named
  BY <1>1, <1>3 DEF FilterRelations, OrderRelations, Named, Resolved
<1>8. \A p : PlanRight(p)' = PlanRight(p)
  BY <1>6, <1>7 DEF PlanRight
<1>9. \A st : WellJoined(st)' = WellJoined(st)
  BY <1>3 DEF WellJoined, Needs
<1>10. Wanted' = Wanted
  BY <1>1, <1>5 DEF Wanted
<1> QED
  BY <1>1, <1>4, <1>5, <1>6, <1>8, <1>9, <1>10

\* A request that is being served keeps what holds of it.
LEMMA ServingStays ==
  ASSUME ListInv, UNCHANGED <<fieldVars, db, request>>, phase # "idle"
  PROVE  /\ FieldsInv' /\ db' \in Databases
         /\ fieldStatus' = "serving" /\ request' \in Requests
<1>1. FieldsInv'
  BY FieldsInvStep DEF ListInv
<1> QED
  BY <1>1, MeaningStays DEF ListInv

LEMMA ListInvStep == ListInv /\ [Next]_vars => ListInv'
<1> SUFFICES ASSUME ListInv, [Next]_vars PROVE ListInv'
  OBVIOUS
<1>1. CASE FieldsNext /\ UNCHANGED <<db, listVars>>
  <2>1. FieldsInv'
    BY <1>1, FieldsInvStep DEF ListInv
  <2>2. fieldStatus = "building"
    BY <1>1 DEF FieldsNext, Completes, Adds, Refuses
  <2>3. phase = "idle" /\ phase' = "idle" /\ queried' = None /\ counted' = None /\ db' \in Databases
    BY <1>1, <2>2 DEF ListInv, listVars, Untouched
  <2> QED
    BY <2>1, <2>3 DEF ListInv, Untouched, Judged
<1>2. CASE Receives
  <2>1. FieldsInv' /\ db' \in Databases
    BY <1>2, FieldsInvStep DEF Receives, ListInv
  <2>2. /\ fieldStatus' = "serving" /\ request' \in Requests /\ phase' = "received"
        /\ queried' = None /\ counted' = None
    BY <1>2 DEF Receives, fieldVars, ListInv, Untouched
  <2> QED
    BY <2>1, <2>2 DEF ListInv, Untouched, Judged
<1>3. CASE Returns
  <2>1. FieldsInv' /\ db' \in Databases
    BY <1>3, FieldsInvStep DEF Returns, ListInv
  <2>2. phase' = "idle" /\ queried' = None /\ counted' = None
    BY <1>3 DEF Returns
  <2> QED
    BY <2>1, <2>2 DEF ListInv, Untouched, Judged
<1>4. CASE Refused
  <2>1. UNCHANGED <<fieldVars, db, request>> /\ phase = "received" /\ phase' = "refused" /\ ~Valid
    BY <1>4 DEF Refused
  <2>2. queried' = None /\ counted' = None
    BY <1>4 DEF Refused, ListInv, Untouched
  <2>3. ~Admissible(request)
    BY <2>1, ValidIsAdmissible DEF ListInv
  <2>4. Judged'
    BY <2>1, <2>3, MeaningStays DEF Judged
  <2>5. FieldsInv' /\ db' \in Databases /\ fieldStatus' = "serving" /\ request' \in Requests
    BY <2>1, ServingStays
  <2> QED
    BY <2>1, <2>2, <2>4, <2>5 DEF ListInv, Untouched
<1>5. CASE Plans
  <2>1. /\ UNCHANGED <<fieldVars, db, request>> /\ phase = "received" /\ phase' = "planned" /\ Valid
        /\ plan' = Resolution(request)
    BY <1>5 DEF Plans
  <2>2. queried' = None /\ counted' = None
    BY <1>5 DEF Plans, ListInv, Untouched
  <2>3. fieldStatus = "serving" /\ request \in Requests /\ FieldsInv
    BY <2>1 DEF ListInv
  <2>4. Admissible(request)
    BY <2>1, <2>3, ValidIsAdmissible
  <2>5. PlanRight(Resolution(request))
    BY <2>3, <2>4, ResolutionIsRight
  <2>6. PlanRight(plan)'
    BY <2>1, <2>5, MeaningStays
  <2>7. Judged'
    BY <2>1, <2>4, MeaningStays DEF Judged
  <2>8. FieldsInv' /\ db' \in Databases /\ fieldStatus' = "serving" /\ request' \in Requests
    BY <2>1, ServingStays
  <2> QED
    BY <2>1, <2>2, <2>6, <2>7, <2>8 DEF ListInv, Untouched
<1>6. CASE Query
  <2>1. /\ UNCHANGED <<fieldVars, db, request>> /\ phase = "planned" /\ phase' = "queried"
        /\ queried' = QueryStatement /\ plan' = plan /\ counted' = counted
        /\ \E s \in Listings(QueryStatement) : page' = Slice(s, QueryStatement.limit, QueryStatement.offset)
    BY <1>6 DEF Query
  <2>2. /\ fieldStatus = "serving" /\ request \in Requests /\ FieldsInv /\ db \in Databases
        /\ Admissible(request) /\ PlanRight(plan) /\ counted = None
    BY <2>1 DEF ListInv, Judged, Untouched
  <2>3. PageRight'
    <3>1. PICK s \in Listings(QueryStatement) : page' = Slice(s, QueryStatement.limit, QueryStatement.offset)
      BY <2>1
    <3>2. PageGood(db, page', Wanted, Ordering, request.limit, request.offset)
      BY <2>2, <3>1, QueryAnswers
    <3> QED
      BY <2>1, <3>2, MeaningStays DEF PageRight
  <2>4. \A st \in {queried', counted'} \ {None} : WellJoined(st)'
    <3>1. WellJoined(QueryStatement)
      BY <2>2, QueryWellJoined
    <3> QED
      BY <2>1, <2>2, <3>1, MeaningStays
  <2>5. PlanRight(plan)'
    BY <2>1, <2>2, MeaningStays
  <2>6. Judged'
    BY <2>1, <2>2, MeaningStays DEF Judged
  <2>7. FieldsInv' /\ db' \in Databases /\ fieldStatus' = "serving" /\ request' \in Requests
    BY <2>1, ServingStays
  <2> QED
    BY <2>1, <2>2, <2>3, <2>4, <2>5, <2>6, <2>7 DEF ListInv, Untouched
<1>7. CASE Count
  <2>1. /\ UNCHANGED <<fieldVars, db, request>> /\ phase = "queried" /\ phase' = "counted"
        /\ counted' = CountStatement /\ queried' = queried /\ page' = page
        /\ total' = Cardinality(Selected(CountStatement))
    BY <1>7 DEF Count
  <2>2. /\ fieldStatus = "serving" /\ FieldsInv /\ Admissible(request) /\ PlanRight(plan) /\ PageRight
        /\ \A st \in {queried, counted} \ {None} : WellJoined(st)
    BY <2>1 DEF ListInv, Judged
  <2>3. total' = Cardinality(Matches)'
    BY <2>1, <2>2, CountSelectsMatches, MeaningStays
  <2>4. PageRight'
    BY <2>1, <2>2, MeaningStays DEF PageRight
  <2>5. \A st \in {queried', counted'} \ {None} : WellJoined(st)'
    <3>1. WellJoined(CountStatement)
      BY <2>2, CountWellJoined
    <3> QED
      BY <2>1, <2>2, <3>1, MeaningStays
  <2>6. Judged'
    BY <2>1, <2>2, MeaningStays DEF Judged
  <2>7. FieldsInv' /\ db' \in Databases /\ fieldStatus' = "serving" /\ request' \in Requests
    BY <2>1, ServingStays
  <2> QED
    BY <2>1, <2>3, <2>4, <2>5, <2>6, <2>7 DEF ListInv, Untouched
<1>8. CASE Answers \/ Fails \/ UNCHANGED vars
  <2>1. /\ UNCHANGED <<fieldVars, db, request>> /\ UNCHANGED <<plan, queried, counted, page, total>>
        /\ \/ phase = "counted" /\ phase' = "answered"
           \/ phase \in {"planned", "queried", "counted"} /\ phase' = "failed"
           \/ phase' = phase
    BY <1>8 DEF Answers, Fails, vars, listVars
  <2>2. FieldsInv' /\ db' \in Databases /\ (phase' # "idle" => fieldStatus' = "serving" /\ request' \in Requests)
    <3>1. FieldsInv'
      BY <2>1, FieldsInvStep DEF ListInv
    <3> QED
      BY <2>1, <3>1, MeaningStays DEF ListInv
  <2>3. Untouched' /\ Judged'
    BY <2>1, MeaningStays DEF ListInv, Untouched, Judged
  <2>4. phase' \in {"planned", "queried"} => PlanRight(plan)'
    BY <2>1, MeaningStays DEF ListInv
  <2>5. \A st \in {queried', counted'} \ {None} : WellJoined(st)'
    BY <2>1, MeaningStays DEF ListInv
  <2>6. phase' \in {"queried", "counted", "answered"} => PageRight'
    BY <2>1, MeaningStays DEF ListInv, PageRight
  <2>7. phase' \in {"counted", "answered"} => total' = Cardinality(Matches)'
    BY <2>1, MeaningStays DEF ListInv
  <2> QED
    BY <2>2, <2>3, <2>4, <2>5, <2>6, <2>7 DEF ListInv
<1> QED
  BY <1>1, <1>2, <1>3, <1>4, <1>5, <1>6, <1>7, <1>8 DEF Next, List

LEMMA ListInvHolds == Spec => []ListInv
<1>1. Init => ListInv
  BY FieldsInvInit DEF Init, ListInv, Untouched, Judged
<1> QED
  BY <1>1, ListInvStep, PTL DEF Spec

(* While requests come and go, a served resource resolves every name as it *)
(* is declared.                                                            *)
THEOREM ServedNamesResolve == Spec => []FieldsAsDeclared
<1>1. ListInv => FieldsAsDeclared
  BY FieldsInvSuffices DEF ListInv
<1> QED
  BY <1>1, ListInvHolds, PTL

(* The same of what a served mapping's paths lead to.                      *)
THEOREM ServedPathsLeadToColumns == Spec => []PathsSelectColumns
<1>1. ListInv => PathsSelectColumns
  BY PathsAreFollowed DEF ListInv
<1> QED
  BY <1>1, ListInvHolds, PTL

(* The total of an answer counts exactly the rows that the request is      *)
(* about, on every database.                                               *)
THEOREM TotalsAreRight == Spec => []TotalCountsMatches
<1>1. ListInv => TotalCountsMatches
  BY DEF ListInv, TotalCountsMatches
<1> QED
  BY <1>1, ListInvHolds, PTL

(* Whatever the filters, names, directions and numbers of a request are,   *)
(* it is refused before any statement if it is malformed, and planned only *)
(* if it is not.                                                           *)
THEOREM RefusalsAreRight == Spec => []RefusedBeforeStatements
<1>1. ListInv => RefusedBeforeStatements
  BY DEF ListInv, Untouched, Judged, RefusedBeforeStatements
<1> QED
  BY <1>1, ListInvHolds, PTL

(* However deep a filter and however long an ordering is, a statement      *)
(* joins each relation they need exactly once, and a count no other.       *)
THEOREM StatementsAreWellFormed == Spec => []StatementsWellFormed
<1>1. ListInv => StatementsWellFormed
  BY DEF ListInv, WellJoined, StatementsWellFormed
<1> QED
  BY <1>1, ListInvHolds, PTL

(* On every database the page of an answer holds the rows asked for, each  *)
(* where the ordering, the limit and the offset put it.                    *)
THEOREM PagesAreRight == Spec => []PageAnswersRequest
<1>1. ListInv => PageAnswersRequest
  BY DEF ListInv, PageRight, PageGood, Wanted, PageAnswersRequest
<1> QED
  BY <1>1, ListInvHolds, PTL
====
