---- MODULE EntityTagsProofs ----
(***************************************************************************)
(* EntityTags for any entity: the walk collects exactly the tags of the    *)
(* chains of distinct types, fails exactly on a refused one, and recurses  *)
(* no deeper than there are types.                                         *)
(*                                                                         *)
(* The stack is itself a chain, and the walk visits the chains in          *)
(* lexicographic order: the invariant says that those behind it are        *)
(* collected.                                                              *)
(***************************************************************************)
EXTENDS EntityTags, FiniteSetTheorems, SequenceTheorems, TLAPS

HopSet == [type : Types, field : Nat \ {0}]

\* The call stack: every frame entered from the field before, no type twice.
Stacked ==
  /\ at[1].type = Root
  /\ \A k \in 1..(Len(at) - 1) :
       /\ at[k].field \in 1..Len(layout.fields[at[k].type])
       /\ Follows(layout, SubSeq(at, 1, k))
       /\ at[k + 1].type = FieldOf(layout, at[k]).target
  /\ Top.field \in 1..(Len(layout.fields[Top.type]) + 1)
  /\ \A j, k \in 1..Len(at) : j # k => at[j].type # at[k].type
  /\ visited = {at[k].type : k \in 1..Len(at)}

\* The walk has left the last field of c behind: c branches off to an earlier
\* field, or ends on the way to the top of the stack.
Behind(c, a) ==
  \E j \in 1..Len(a) :
    /\ j <= Len(c)
    /\ \A k \in 1..(j - 1) : c[k] = a[k]
    /\ c[j].type = a[j].type
    /\ \/ c[j].field < a[j].field
       \/ j < Len(a) /\ Len(c) = j /\ c[j] = a[j]

Sound == \A t \in tags : \E c \in Chains[layout] : t \in Tagged(layout, c)

Collected ==
  \A c \in Chains[layout] : Behind(c, at) => Tagged(layout, c) \subseteq tags /\ ~Refused(layout, c)

Ended ==
  /\ status = "done" => Len(at) = 1 /\ Top.field \notin 1..Len(layout.fields[Top.type])
  /\ status = "failed" => /\ Top.field \in 1..Len(layout.fields[Top.type])
                          /\ Refused(layout, at)

WalkInv == WalkTypeOK /\ Stacked /\ Sound /\ Collected /\ Ended

----
LEMMA LayoutTyped ==
  ASSUME NEW l \in Layouts, NEW t \in Types
  PROVE  Len(l.fields[t]) \in Nat
<1>1. l.fields[t] \in Seq(FieldSet)
  BY LayoutAssumption
<1> QED BY <1>1, LenProperties

LEMMA AtTyped ==
  ASSUME WalkTypeOK
  PROVE  /\ at \in Seq(HopSet) /\ Len(at) \in Nat \ {0} /\ at \in [1..Len(at) -> HopSet]
         /\ \A k \in 1..Len(at) : at[k] \in HopSet
         /\ Top \in HopSet
<1>1. at \in Seq(HopSet) /\ at # <<>>
  BY DEF WalkTypeOK, HopSet
<1>2. /\ Len(at) \in Nat \ {0} /\ at \in [1..Len(at) -> HopSet]
  BY <1>1, LenProperties, EmptySeq
<1> QED BY <1>1, <1>2 DEF Top

LEMMA HopTyped ==
  ASSUME NEW l \in Layouts, NEW h
  PROVE  h \in Hops(l) <=> h \in HopSet /\ h.field \in 1..Len(l.fields[h.type])
BY LayoutTyped DEF Hops, HopSet

\* What a chain is made of.
LEMMA ChainTyped ==
  ASSUME NEW l \in Layouts, NEW c \in Chains[l]
  PROVE  /\ c \in Seq(HopSet) /\ Len(c) \in Nat \ {0} /\ c \in [1..Len(c) -> HopSet]
         /\ \A k \in 1..Len(c) : c[k] \in HopSet
         /\ Chain(l, c)
<1>1. PICK n \in 1..Cardinality(Types) : c \in [1..n -> Hops(l)]
  BY DEF Chains
<1>2. Cardinality(Types) \in Nat
  BY LayoutAssumption, FS_CardinalityType
<1>3. n \in Nat \ {0}
  BY <1>1, <1>2
<1>4. c \in [1..n -> HopSet]
  BY <1>1, HopTyped
<1>5. c \in Seq(HopSet)
  BY <1>3, <1>4, SeqDef
<1>6. Len(c) = n
  BY <1>3, <1>4, <1>5, LenProperties
<1>7. Chain(l, c)
  BY DEF Chains
<1> QED BY <1>3, <1>4, <1>5, <1>6, <1>7

\* No type twice, hence no deeper than there are types.
LEMMA Pigeonhole ==
  ASSUME WalkTypeOK, Stacked
  PROVE  Len(at) <= Cardinality(Types)
<1> DEFINE typeOf == [k \in 1..Len(at) |-> at[k].type]
<1>1. typeOf \in Injection(1..Len(at), Types)
  <2>1. typeOf \in [1..Len(at) -> Types]
    BY AtTyped DEF HopSet
  <2>2. \A j, k \in 1..Len(at) : typeOf[j] = typeOf[k] => j = k
    BY DEF Stacked
  <2> QED BY <2>1, <2>2 DEF Injection, IsInjective
<1>2. Cardinality(1..Len(at)) <= Cardinality(Types)
  BY <1>1, LayoutAssumption, FS_Injection
<1>3. Cardinality(1..Len(at)) = Len(at)
  <2>1. Len(at) \in Nat
    BY AtTyped
  <2>. HIDE DEF typeOf
  <2> QED BY <2>1, FS_Interval
<1> QED BY <1>2, <1>3

LEMMA AtIsChain ==
  ASSUME WalkTypeOK, Stacked, Top.field \in 1..Len(layout.fields[Top.type])
  PROVE  at \in Chains[layout]
<1> USE AtTyped
<1>1. layout \in Layouts
  BY DEF WalkTypeOK
<1>2. \A k \in 1..Len(at) : at[k].field \in 1..Len(layout.fields[at[k].type])
  <2> TAKE k \in 1..Len(at)
  <2>1. CASE k = Len(at)
    BY <2>1 DEF Top
  <2>2. CASE k \in 1..(Len(at) - 1)
    BY <2>2 DEF Stacked
  <2> QED BY <2>1, <2>2
<1>3. at \in [1..Len(at) -> Hops(layout)]
  BY <1>1, <1>2, HopTyped
<1>4. Len(at) \in 1..Cardinality(Types)
  BY Pigeonhole, LayoutAssumption, FS_CardinalityType
<1>5. Chain(layout, at)
  BY <1>2 DEF Chain, Stacked
<1> QED BY <1>1, <1>3, <1>4, <1>5 DEF Chains

\* A chain that agrees with the stack up to its top, on hops.
LEMMA Agrees ==
  ASSUME WalkTypeOK, NEW c \in Chains[layout], Len(at) <= Len(c),
         \A k \in 1..Len(at) : c[k] = at[k]
  PROVE  /\ Len(c) = Len(at) => c = at
         /\ Len(c) > Len(at) => SubSeq(c, 1, Len(at)) = at
<1> USE AtTyped
<1>1. layout \in Layouts
  BY DEF WalkTypeOK
<1>2. c \in Seq(HopSet) /\ Len(c) \in Nat /\ \A k \in 1..Len(c) : c[k] \in HopSet
  BY <1>1, ChainTyped
<1>3. Len(c) = Len(at) => c = at
  BY <1>2, SeqEqual
<1>4. ASSUME Len(c) > Len(at)
      PROVE  SubSeq(c, 1, Len(at)) = at
  <2> DEFINE s == SubSeq(c, 1, Len(at))
  <2>1. /\ s \in Seq(HopSet) /\ Len(s) = Len(at)
        /\ \A i \in 1..Len(at) : s[i] = c[i]
    <3>1. \A i \in 1..Len(at) : c[i] \in HopSet
      BY <1>2
    <3>2. /\ s \in Seq(HopSet) /\ Len(s) = (IF 1 <= Len(at) THEN Len(at) - 1 + 1 ELSE 0)
          /\ \A i \in 1..(Len(at) - 1 + 1) : s[i] = c[1 + i - 1]
      BY <3>1, SubSeqProperties
    <3> QED BY <3>2
  <2>2. s = at
    BY <2>1, SeqEqual
  <2> QED BY <2>2
<1> QED BY <1>3, <1>4

----
LEMMA WalkInitInv ==
  ASSUME WalkInit
  PROVE  WalkInv
<1> USE LayoutAssumption DEF WalkInit
<1>1. /\ at = <<Frame(Root)>> /\ Len(at) = 1 /\ at[1] = Frame(Root) /\ Top = Frame(Root)
  BY DEF Top
<1>2. WalkTypeOK
  <2>1. at \in Seq([type : Types, field : Nat \ {0}]) /\ at # <<>>
    BY DEF Frame
  <2> QED BY <2>1 DEF WalkTypeOK
<1>3. Len(layout.fields[Root]) \in Nat
  BY LayoutTyped
<1>4. Stacked
  BY <1>1, <1>3 DEF Stacked, Frame
<1>5. Sound /\ Ended
  BY DEF Sound, Ended
<1>6. ASSUME NEW c \in Chains[layout]
      PROVE  ~Behind(c, at)
  <2>1. c[1] \in HopSet
    BY <1>6, ChainTyped
  <2> QED BY <1>1, <2>1 DEF Behind, Frame, HopSet
<1> QED BY <1>2, <1>4, <1>5, <1>6 DEF WalkInv, Collected

\* Moving the last frame on to its next field.
LEMMA AdvancedProperties ==
  ASSUME NEW c \in Seq(HopSet), Len(c) # 0
  PROVE  /\ Advanced(c) \in Seq(HopSet) /\ Len(Advanced(c)) = Len(c) /\ Advanced(c) # <<>>
         /\ \A k \in 1..(Len(c) - 1) : Advanced(c)[k] = c[k]
         /\ Advanced(c)[Len(c)].type = c[Len(c)].type
         /\ Advanced(c)[Len(c)].field = c[Len(c)].field + 1
<1>1. Len(c) \in Nat \ {0}
  BY LenProperties
<1>2. c[Len(c)] \in HopSet
  BY <1>1, ElementOfSeq
<1> DEFINE e == [c[Len(c)] EXCEPT !.field = @ + 1]
<1>3. e \in HopSet /\ e.type = c[Len(c)].type /\ e.field = c[Len(c)].field + 1
  BY <1>2 DEF HopSet
<1>4. Advanced(c) = [c EXCEPT ![Len(c)] = e]
  BY DEF Advanced
<1> HIDE DEF e
<1>5. /\ Advanced(c) \in Seq(HopSet) /\ Len(Advanced(c)) = Len(c)
      /\ \A j \in 1..Len(c) : Advanced(c)[j] = IF j = Len(c) THEN e ELSE c[j]
  BY <1>1, <1>3, <1>4, ExceptSeq
<1>6. Advanced(c) # <<>>
  BY <1>1, <1>5, EmptySeq
<1> QED BY <1>1, <1>3, <1>5, <1>6

LEMMA SamePrefix ==
  ASSUME NEW a \in Seq(HopSet), NEW b \in Seq(HopSet), NEW k \in Nat, k <= Len(a), k <= Len(b),
         \A i \in 1..k : a[i] = b[i]
  PROVE  SubSeq(a, 1, k) = SubSeq(b, 1, k)
<1>1. \A i \in 1..k : a[i] \in HopSet /\ b[i] \in HopSet
  BY LenProperties
<1>2. /\ SubSeq(a, 1, k) \in Seq(HopSet) /\ Len(SubSeq(a, 1, k)) = k
      /\ \A i \in 1..k : SubSeq(a, 1, k)[i] = a[i]
  BY <1>1, SubSeqProperties
<1>3. /\ SubSeq(b, 1, k) \in Seq(HopSet) /\ Len(SubSeq(b, 1, k)) = k
      /\ \A i \in 1..k : SubSeq(b, 1, k)[i] = b[i]
  BY <1>1, SubSeqProperties
<1> QED BY <1>2, <1>3, SeqEqual

\* The new field is behind, and it is the last one of its chain unless it was
\* entered.
LEMMA TaggedAtTop ==
  ASSUME WalkInv, AtField, ~Refused(layout, at), tags' = tags \cup Tagged(layout, at), layout' = layout
  PROVE  /\ Sound'
         /\ \A c \in Chains[layout] :
              Behind(c, at) \/ c = at => Tagged(layout, c) \subseteq tags' /\ ~Refused(layout, c)
<1>1. at \in Chains[layout]
  BY AtIsChain DEF WalkInv, AtField
<1>2. Sound'
  BY <1>1 DEF WalkInv, Sound
<1> QED BY <1>2 DEF WalkInv, Collected

LEMMA PassKeeps ==
  ASSUME WalkInv, Pass
  PROVE  WalkInv'
<1> USE DEF WalkInv
<1> DEFINE m == Len(at)
<1>1. layout \in Layouts /\ Top.type \in Types /\ Len(layout.fields[Top.type]) \in Nat
  BY AtTyped, LayoutTyped DEF WalkTypeOK, HopSet
<1>2. /\ at \in Seq(HopSet) /\ m \in Nat \ {0} /\ \A k \in 1..m : at[k] \in HopSet
      /\ AtField /\ layout' = layout /\ status' = status /\ visited' = visited /\ at' = Advanced(at)
      /\ status = "walking"
  BY AtTyped DEF Pass, AtField
<1>3. /\ at' \in Seq(HopSet) /\ Len(at') = m /\ at' # <<>>
      /\ \A k \in 1..(m - 1) : at'[k] = at[k]
      /\ at'[m].type = at[m].type /\ at'[m].field = at[m].field + 1
  BY <1>2, AdvancedProperties
<1>4. Top' = at'[m] /\ Top = at[m]
  BY <1>3 DEF Top
<1>5. WalkTypeOK'
  BY <1>2, <1>3 DEF WalkTypeOK, HopSet
<1>6. Stacked'
  <2>1. at'[1].type = Root
    BY <1>2, <1>3 DEF Stacked
  <2>2. \A k \in 1..m : at'[k].type = at[k].type
    BY <1>2, <1>3
  <2>3. ASSUME NEW k \in 1..(m - 1)
        PROVE  SubSeq(at', 1, k) = SubSeq(at, 1, k)
    BY <1>2, <1>3, <2>3, SamePrefix
  <2>4. ASSUME NEW k \in 1..(m - 1)
        PROVE  /\ at'[k].field \in 1..Len(layout.fields[at'[k].type])
               /\ Follows(layout, SubSeq(at', 1, k))
               /\ at'[k + 1].type = FieldOf(layout, at'[k]).target
    <3>1. at'[k] = at[k] /\ at'[k + 1].type = at[k + 1].type
      BY <1>2, <1>3, <2>2, <2>4
    <3>2. /\ at[k].field \in 1..Len(layout.fields[at[k].type])
          /\ Follows(layout, SubSeq(at, 1, k))
          /\ at[k + 1].type = FieldOf(layout, at[k]).target
      BY <2>4 DEF Stacked
    <3> QED BY <2>3, <3>1, <3>2
  <2>5. at'[m].field \in 1..(Len(layout.fields[at'[m].type]) + 1)
    BY <1>1, <1>2, <1>3, <1>4 DEF AtField
  <2>6. \A j, k \in 1..m : j # k => at'[j].type # at'[k].type
    BY <2>2 DEF Stacked
  <2>7. visited' = {at'[k].type : k \in 1..m}
    <3>1. visited = {at[k].type : k \in 1..m}
      BY DEF Stacked
    <3>2. {at'[k].type : k \in 1..m} = {at[k].type : k \in 1..m}
      BY <2>2
    <3> QED BY <1>2, <3>1, <3>2
  <2> QED BY <1>2, <1>3, <1>4, <2>1, <2>4, <2>5, <2>6, <2>7 DEF Stacked
<1>7. Sound' /\ \A c \in Chains[layout] :
        Behind(c, at) \/ c = at => Tagged(layout, c) \subseteq tags' /\ ~Refused(layout, c)
  BY TaggedAtTop DEF Pass
<1>8. ASSUME NEW c \in Chains[layout], Behind(c, at')
      PROVE  Behind(c, at) \/ c = at
  <2>1. /\ Len(c) \in Nat \ {0} /\ Chain(layout, c) /\ \A k \in 1..Len(c) : c[k] \in HopSet
    BY <1>1, <1>8, ChainTyped
  <2>2. PICK j \in 1..m :
          /\ j <= Len(c)
          /\ \A k \in 1..(j - 1) : c[k] = at'[k]
          /\ c[j].type = at'[j].type
          /\ \/ c[j].field < at'[j].field
             \/ j < m /\ Len(c) = j /\ c[j] = at'[j]
    BY <1>3, <1>8 DEF Behind
  <2>3. (\A k \in 1..(j - 1) : c[k] = at[k]) /\ c[j].type = at[j].type /\ c[j] \in HopSet /\ at[j] \in HopSet
    BY <1>2, <1>3, <2>1, <2>2
  <2>4. CASE c[j].field < at[j].field \/ j < m
    BY <1>2, <1>3, <2>2, <2>3, <2>4 DEF Behind
  <2>5. CASE ~(c[j].field < at[j].field) /\ j = m
    <3>1. c[m].field = at[m].field
      BY <1>2, <1>3, <2>2, <2>3, <2>5 DEF HopSet
    <3>2. c[m] = at[m]
      BY <3>1, <2>3, <2>5 DEF HopSet
    <3>3. \A k \in 1..m : c[k] = at[k]
      BY <2>3, <2>5, <3>2
    <3>4. Len(c) <= m
      <4> SUFFICES ASSUME Len(c) > m PROVE FALSE
        BY <1>2, <2>1
      <4>1. SubSeq(c, 1, m) = at
        BY <1>2, <2>1, <3>3, Agrees
      <4>2. Follows(layout, at) /\ c[m + 1].type = FieldOf(layout, at[m]).target
        <5>1. m \in 1..(Len(c) - 1)
          BY <1>2, <2>1
        <5>2. Follows(layout, SubSeq(c, 1, m)) /\ c[m + 1].type = FieldOf(layout, c[m]).target
          BY <5>1, <2>1 DEF Chain
        <5> QED BY <5>2, <4>1, <3>2
      <4>3. c[m + 1].type \in visited
        BY <4>2 DEF Pass, Field
      <4>4. PICK k \in 1..m : c[m + 1].type = at[k].type
        BY <4>3 DEF Stacked
      <4>5. c[k].type = c[m + 1].type /\ k # m + 1 /\ k \in 1..Len(c) /\ m + 1 \in 1..Len(c)
        BY <1>2, <2>1, <3>3, <4>4
      <4> QED BY <4>5, <2>1 DEF Chain
    <3> QED BY <1>2, <2>1, <2>2, <2>5, <3>3, <3>4, Agrees
  <2> QED BY <2>4, <2>5, <1>2, <2>2
<1>9. Collected'
  BY <1>2, <1>7, <1>8 DEF Collected
<1>10. Ended'
  BY <1>2 DEF Ended
<1> QED BY <1>5, <1>6, <1>7, <1>9, <1>10

LEMMA EnterKeeps ==
  ASSUME WalkInv, Enter
  PROVE  WalkInv'
<1> USE DEF WalkInv
<1> DEFINE m == Len(at)
<1> DEFINE t == Field(layout, at).target
<1>1. layout \in Layouts /\ t \in Types /\ Len(layout.fields[t]) \in Nat
  BY LayoutTyped DEF WalkTypeOK, Enter, Follows
<1>2. /\ at \in Seq(HopSet) /\ m \in Nat \ {0} /\ (\A k \in 1..m : at[k] \in HopSet) /\ Top = at[m]
      /\ AtField /\ layout' = layout /\ status' = status /\ status = "walking" /\ Frame(t) \in HopSet
      /\ visited' = visited \cup {t} /\ at' = Append(at, Frame(t)) /\ t \notin visited
  BY <1>1, AtTyped DEF Enter, AtField, Frame, HopSet, Top
<1>3. /\ at' \in Seq(HopSet) /\ Len(at') = m + 1 /\ at' # <<>>
      /\ \A k \in 1..m : at'[k] = at[k]
      /\ at'[m + 1] = Frame(t)
  BY <1>2, AppendProperties
<1>4. Top' = Frame(t)
  BY <1>3 DEF Top
<1>5. WalkTypeOK'
  BY <1>1, <1>2, <1>3 DEF WalkTypeOK, HopSet
<1>6. Stacked'
  <2>1. at'[1].type = Root
    BY <1>2, <1>3 DEF Stacked
  <2>2. ASSUME NEW k \in 1..m
        PROVE  /\ at'[k].field \in 1..Len(layout.fields[at'[k].type])
               /\ Follows(layout, SubSeq(at', 1, k))
               /\ at'[k + 1].type = FieldOf(layout, at'[k]).target
    <3>1. SubSeq(at', 1, k) = SubSeq(at, 1, k) /\ at'[k] = at[k]
      BY <1>2, <1>3, <2>2, SamePrefix
    <3>2. CASE k = m
      <4>1. SubSeq(at, 1, m) = at
        BY <1>2, SubSeqFull
      <4>2. Follows(layout, at) /\ at[m].field \in 1..Len(layout.fields[at[m].type])
        BY <1>2 DEF Enter, AtField
      <4>3. at'[m + 1].type = FieldOf(layout, at[m]).target
        BY <1>3 DEF Frame, Field
      <4> QED BY <3>1, <3>2, <4>1, <4>2, <4>3
    <3>3. CASE k \in 1..(m - 1)
      <4>1. at'[k + 1] = at[k + 1]
        BY <1>2, <1>3, <3>3
      <4>2. /\ at[k].field \in 1..Len(layout.fields[at[k].type])
            /\ Follows(layout, SubSeq(at, 1, k))
            /\ at[k + 1].type = FieldOf(layout, at[k]).target
        BY <3>3 DEF Stacked
      <4> QED BY <3>1, <4>1, <4>2
    <3> QED BY <3>2, <3>3, <2>2, <1>2
  <2>3. Top'.field \in 1..(Len(layout.fields[Top'.type]) + 1)
    BY <1>1, <1>4 DEF Frame
  <2>4. \A k \in 1..m : at'[k].type = at[k].type /\ at[k].type \in visited
    BY <1>3 DEF Stacked
  <2>5. at'[m + 1].type = t
    BY <1>3 DEF Frame
  <2>6. \A j, k \in 1..(m + 1) : j # k => at'[j].type # at'[k].type
    <3> TAKE j, k \in 1..(m + 1)
    <3> HAVE j # k
    <3>1. CASE j \in 1..m /\ k \in 1..m
      BY <2>4, <3>1 DEF Stacked
    <3>2. CASE j = m + 1 \/ k = m + 1
      BY <1>2, <2>4, <2>5, <3>2
    <3> QED BY <1>2, <3>1, <3>2
  <2>7. visited' = {at'[k].type : k \in 1..(m + 1)}
    <3>1. visited = {at'[k].type : k \in 1..m}
      <4>1. visited = {at[k].type : k \in 1..m}
        BY DEF Stacked
      <4>2. \A k \in 1..m : at'[k].type = at[k].type
        BY <2>4
      <4> QED BY <4>1, <4>2
    <3>2. \A k \in 1..(m + 1) : k \in 1..m \/ k = m + 1
      BY <1>2
    <3>3. 1..m \subseteq 1..(m + 1) /\ m + 1 \in 1..(m + 1)
      BY <1>2
    <3>4. {at'[k].type : k \in 1..(m + 1)} = {at'[k].type : k \in 1..m} \cup {at'[m + 1].type}
      BY <3>2, <3>3
    <3> HIDE DEF t
    <3> QED BY <1>2, <2>5, <3>1, <3>4
  <2>8. Len(at') - 1 = m
    BY <1>2, <1>3
  <2> HIDE DEF t
  <2>9. \A k \in 1..(Len(at') - 1) :
          /\ at'[k].field \in 1..Len(layout'.fields[at'[k].type])
          /\ Follows(layout', SubSeq(at', 1, k))
          /\ at'[k + 1].type = FieldOf(layout', at'[k]).target
    BY <1>2, <2>2, <2>8
  <2> QED BY <1>2, <1>3, <2>1, <2>3, <2>6, <2>7, <2>9 DEF Stacked
<1>7. Sound' /\ \A c \in Chains[layout] :
        Behind(c, at) \/ c = at => Tagged(layout, c) \subseteq tags' /\ ~Refused(layout, c)
  BY TaggedAtTop DEF Enter
<1>8. ASSUME NEW c \in Chains[layout], Behind(c, at')
      PROVE  Behind(c, at) \/ c = at
  <2>1. /\ Len(c) \in Nat \ {0} /\ \A k \in 1..Len(c) : c[k] \in HopSet
    BY <1>1, <1>8, ChainTyped
  <2>2. PICK j \in 1..(m + 1) :
          /\ j <= Len(c)
          /\ \A k \in 1..(j - 1) : c[k] = at'[k]
          /\ c[j].type = at'[j].type
          /\ \/ c[j].field < at'[j].field
             \/ j < m + 1 /\ Len(c) = j /\ c[j] = at'[j]
    BY <1>3, <1>8 DEF Behind
  <2>3. j # m + 1
    BY <1>2, <1>3, <2>1, <2>2 DEF Frame, HopSet
  <2>4. j \in 1..m /\ (\A k \in 1..(j - 1) : c[k] = at[k]) /\ at'[j] = at[j]
    BY <1>2, <1>3, <2>2, <2>3
  <2>5. CASE c[j].field < at[j].field \/ j < m
    BY <1>2, <2>2, <2>4, <2>5 DEF Behind
  <2>6. CASE ~(c[j].field < at[j].field) /\ j = m
    <3>1. \A k \in 1..m : c[k] = at[k]
      BY <1>2, <2>2, <2>4, <2>6
    <3> QED BY <1>2, <2>1, <2>2, <2>4, <2>6, <3>1, Agrees
  <2> QED BY <1>2, <2>4, <2>5, <2>6
<1>9. Collected'
  BY <1>2, <1>7, <1>8 DEF Collected
<1>10. Ended'
  BY <1>2 DEF Ended
<1> QED BY <1>5, <1>6, <1>7, <1>9, <1>10

LEMMA LeaveKeeps ==
  ASSUME WalkInv, Leave
  PROVE  WalkInv'
<1> USE DEF WalkInv
<1> DEFINE m == Len(at)
<1> DEFINE a == SubSeq(at, 1, m - 1)
<1>1. /\ at \in Seq(HopSet) /\ m \in Nat /\ m > 1 /\ (\A k \in 1..m : at[k] \in HopSet) /\ Top = at[m]
      /\ ~AtField /\ layout' = layout /\ status' = status /\ status = "walking" /\ tags' = tags
      /\ visited' = visited \ {at[m].type} /\ at' = Advanced(a) /\ layout \in Layouts
  BY AtTyped DEF Leave, Top, WalkTypeOK
<1>2. /\ a \in Seq(HopSet) /\ Len(a) = m - 1
      /\ \A k \in 1..(m - 1) : a[k] = at[k]
  <2>1. \A k \in 1..(m - 1) : at[k] \in HopSet
    BY <1>1
  <2> QED BY <2>1, <1>1, SubSeqProperties
<1> HIDE DEF a
<1>3. /\ at' \in Seq(HopSet) /\ Len(at') = m - 1 /\ at' # <<>>
      /\ \A k \in 1..(m - 2) : at'[k] = at[k]
      /\ at'[m - 1].type = at[m - 1].type /\ at'[m - 1].field = at[m - 1].field + 1
  <2>1. Len(a) # 0 /\ m - 1 \in 1..(m - 1) /\ (m - 1) - 1 = m - 2
    BY <1>1, <1>2
  <2>2. /\ at' \in Seq(HopSet) /\ Len(at') = Len(a) /\ at' # <<>>
        /\ \A k \in 1..(Len(a) - 1) : at'[k] = a[k]
        /\ at'[Len(a)].type = a[Len(a)].type /\ at'[Len(a)].field = a[Len(a)].field + 1
    BY <1>1, <1>2, <2>1, AdvancedProperties
  <2>3. a[m - 1] = at[m - 1] /\ \A k \in 1..(m - 2) : a[k] = at[k]
    BY <1>1, <1>2, <2>1
  <2> QED BY <1>2, <2>1, <2>2, <2>3
<1>4. Top' = at'[m - 1]
  BY <1>3 DEF Top
<1>5. WalkTypeOK'
  BY <1>1, <1>3 DEF WalkTypeOK, HopSet
<1>6. /\ at[m - 1].field \in 1..Len(layout.fields[at[m - 1].type])
      /\ at[m].type = FieldOf(layout, at[m - 1]).target
  <2>1. m - 1 \in 1..(m - 1) /\ (m - 1) + 1 = m
    BY <1>1
  <2> QED BY <2>1 DEF Stacked
<1>7. Len(layout.fields[at[m - 1].type]) \in Nat /\ Len(layout.fields[at[m].type]) \in Nat
  <2>1. m \in 1..m /\ m - 1 \in 1..m
    BY <1>1
  <2>2. at[m - 1].type \in Types /\ at[m].type \in Types
    BY <1>1, <2>1 DEF HopSet
  <2> QED BY <1>1, <2>2, LayoutTyped
<1>8. at[m].field > Len(layout.fields[at[m].type])
  BY <1>1, <1>7 DEF AtField, Stacked, HopSet
<1>9. Stacked'
  <2>1. at'[1].type = Root
    BY <1>1, <1>3 DEF Stacked
  <2>2. \A k \in 1..(m - 1) : at'[k].type = at[k].type
    BY <1>1, <1>3
  <2>3. ASSUME NEW k \in 1..(Len(at') - 1)
        PROVE  /\ at'[k].field \in 1..Len(layout'.fields[at'[k].type])
               /\ Follows(layout', SubSeq(at', 1, k))
               /\ at'[k + 1].type = FieldOf(layout', at'[k]).target
    <3>1. k \in 1..(m - 2) /\ k \in 1..(m - 1)
      BY <1>1, <1>3, <2>3
    <3>2. at'[k] = at[k] /\ at'[k + 1].type = at[k + 1].type
      BY <1>1, <1>3, <2>2, <3>1
    <3>3. SubSeq(at', 1, k) = SubSeq(at, 1, k)
      BY <1>1, <1>3, <3>1, SamePrefix
    <3>4. /\ at[k].field \in 1..Len(layout.fields[at[k].type])
          /\ Follows(layout, SubSeq(at, 1, k))
          /\ at[k + 1].type = FieldOf(layout, at[k]).target
      BY <3>1 DEF Stacked
    <3> QED BY <1>1, <3>2, <3>3, <3>4
  <2>4. Top'.field \in 1..(Len(layout'.fields[Top'.type]) + 1)
    <3>1. at[m - 1].field + 1 \in 1..(Len(layout.fields[at[m - 1].type]) + 1)
      BY <1>6, <1>7
    <3> QED BY <1>1, <1>3, <1>4, <3>1
  <2>5. \A j, k \in 1..Len(at') : j # k => at'[j].type # at'[k].type
    BY <1>1, <1>3, <2>2 DEF Stacked
  <2>6. visited' = {at'[k].type : k \in 1..Len(at')}
    <3>1. visited = {at[k].type : k \in 1..m}
      BY DEF Stacked
    <3>2. \A k \in 1..m : k \in 1..(m - 1) \/ k = m
      BY <1>1
    <3>3. \A k \in 1..(m - 1) : k \in 1..m /\ at[k].type # at[m].type
      BY <1>1 DEF Stacked
    <3>4. visited \ {at[m].type} = {at[k].type : k \in 1..(m - 1)}
      BY <3>1, <3>2, <3>3
    <3>5. {at[k].type : k \in 1..(m - 1)} = {at'[k].type : k \in 1..(m - 1)}
      BY <2>2
    <3> QED BY <1>1, <1>3, <3>4, <3>5
  <2> QED BY <2>1, <2>3, <2>4, <2>5, <2>6 DEF Stacked
<1>10. ASSUME NEW c \in Chains[layout], Behind(c, at')
       PROVE  Behind(c, at)
  <2>1. /\ Len(c) \in Nat \ {0} /\ Chain(layout, c) /\ \A k \in 1..Len(c) : c[k] \in HopSet
    BY <1>1, <1>10, ChainTyped
  <2>2. PICK j \in 1..(m - 1) :
          /\ j <= Len(c)
          /\ \A k \in 1..(j - 1) : c[k] = at'[k]
          /\ c[j].type = at'[j].type
          /\ \/ c[j].field < at'[j].field
             \/ j < m - 1 /\ Len(c) = j /\ c[j] = at'[j]
    BY <1>3, <1>10 DEF Behind
  <2>3. /\ \A k \in 1..(j - 1) : c[k] = at[k]
        /\ c[j].type = at[j].type /\ c[j] \in HopSet /\ at[j] \in HopSet /\ j \in 1..m
    BY <1>1, <1>3, <2>1, <2>2
  <2>4. CASE j \in 1..(m - 2) \/ c[j].field < at[j].field
    <3>1. c[j].field < at[j].field \/ (j < m /\ Len(c) = j /\ c[j] = at[j])
      BY <1>1, <1>3, <2>2, <2>4
    <3> QED BY <2>2, <2>3, <3>1 DEF Behind
  <2>5. CASE j = m - 1 /\ ~(c[j].field < at[j].field)
    <3>1. c[j] = at[j]
      <4>1. c[j].field < at[j].field + 1
        BY <1>1, <1>3, <2>2, <2>5
      <4>2. c[j].field \in Nat /\ at[j].field \in Nat
        BY <2>3 DEF HopSet
      <4>3. c[j].field = at[j].field
        BY <2>5, <4>1, <4>2
      <4> QED BY <2>3, <4>3 DEF HopSet
    <3>2. CASE Len(c) = j
      BY <1>1, <2>2, <2>3, <2>5, <3>1, <3>2 DEF Behind
    <3>3. CASE Len(c) > j
      <4>1. j \in 1..(Len(c) - 1) /\ j + 1 = m /\ m \in 1..Len(c)
        BY <1>1, <2>1, <2>2, <2>5, <3>3
      <4>2. c[m].type = at[m].type
        BY <4>1, <2>1, <3>1, <1>6, <2>5 DEF Chain
      <4>3. c[m].field \in 1..Len(layout.fields[c[m].type])
        BY <4>1, <2>1 DEF Chain
      <4>4. c[m].field < at[m].field
        BY <4>2, <4>3, <1>1, <1>7, <1>8 DEF HopSet
      <4>5. \A k \in 1..(m - 1) : c[k] = at[k]
        BY <1>1, <2>3, <2>5, <3>1
      <4> QED BY <1>1, <4>1, <4>2, <4>4, <4>5 DEF Behind
    <3> QED BY <2>1, <2>2, <3>2, <3>3
  <2> QED BY <1>1, <2>2, <2>4, <2>5
<1>11. Sound'
  BY <1>1 DEF Sound
<1>12. Collected'
  BY <1>1, <1>10 DEF Collected
<1>13. Ended'
  BY <1>1 DEF Ended
<1> QED BY <1>5, <1>9, <1>11, <1>12, <1>13

\* The steps that end the walk leave the stack as it is.
LEMMA EndKeeps ==
  ASSUME WalkInv, Refuse \/ Finish \/ UNCHANGED tagVars
  PROVE  WalkInv'
<1>1. /\ at' = at /\ layout' = layout /\ visited' = visited /\ tags' = tags
      /\ status' \in {status, "done", "failed"}
  BY DEF Refuse, Finish, tagVars
<1>2. Top' = Top
  BY <1>1 DEF Top
<1>3. Ended'
  BY <1>1, <1>2 DEF WalkInv, Ended, Refuse, Finish, AtField, tagVars
<1> QED BY <1>1, <1>2, <1>3 DEF WalkInv, WalkTypeOK, Stacked, Sound, Collected

LEMMA WalkStepKeeps ==
  ASSUME WalkInv, [WalkNext]_tagVars
  PROVE  WalkInv'
BY PassKeeps, EnterKeeps, LeaveKeeps, EndKeeps DEF WalkNext

\* At the end every chain is behind.
LEMMA DoneCollects ==
  ASSUME WalkInv
  PROVE  PathsCollected
<1> USE DEF WalkInv
<1>1. layout \in Layouts
  BY DEF WalkTypeOK
<1>2. ASSUME status = "done", NEW c \in Chains[layout]
      PROVE  Behind(c, at)
  <2>1. Len(c) \in Nat \ {0} /\ Chain(layout, c) /\ c[1] \in HopSet
    BY <1>1, <1>2, ChainTyped
  <2>2. Len(at) = 1 /\ Top = at[1] /\ at[1].type = Root /\ at[1] \in HopSet
    BY <1>2, AtTyped DEF Ended, Top, Stacked
  <2>3. c[1].type = Root /\ c[1].field \in 1..Len(layout.fields[Root])
    BY <2>1 DEF Chain
  <2>4. Len(layout.fields[Root]) \in Nat
    BY <1>1, LayoutTyped, LayoutAssumption
  <2>5. at[1].field > Len(layout.fields[Root])
    BY <1>2, <2>2, <2>4 DEF Ended, HopSet
  <2>6. c[1].field < at[1].field
    BY <2>1, <2>2, <2>3, <2>4, <2>5 DEF HopSet
  <2> QED BY <2>1, <2>2, <2>3, <2>6 DEF Behind
<1>3. ASSUME status = "done"
      PROVE  /\ tags = UNION {Tagged(layout, c) : c \in Chains[layout]}
             /\ \A c \in Chains[layout] : ~Refused(layout, c)
  BY <1>2, <1>3 DEF Sound, Collected
<1>4. ASSUME status = "failed"
      PROVE  \E c \in Chains[layout] : Refused(layout, c)
  BY <1>4, AtIsChain DEF Ended
<1> QED BY <1>3, <1>4 DEF PathsCollected

----
\* Every value keeps its type, for every entity.  (entity_tags.go:64-276)
THEOREM WalkTypeCorrect == WalkSpec => []WalkTypeOK
<1>1. WalkInv => WalkTypeOK
  BY DEF WalkInv
<1> QED BY WalkInitInv, WalkStepKeeps, <1>1, PTL DEF WalkSpec

\* The walk collects the paths along which no type repeats, all of them and no
\* others, and fails exactly on a refused tag, for every graph of types.
\* (entity_tags.go:64-71, 268-279)
THEOREM PathsAreCollected == WalkSpec => []PathsCollected
BY WalkInitInv, WalkStepKeeps, DoneCollects, PTL DEF WalkSpec

\* It never recurses deeper than there are types.  (entity_tags.go:268-276)
THEOREM DepthIsBounded == WalkSpec => []DepthBounded
<1>1. WalkInv => DepthBounded
  BY Pigeonhole DEF WalkInv, DepthBounded
<1> QED BY WalkInitInv, WalkStepKeeps, <1>1, PTL DEF WalkSpec

====
