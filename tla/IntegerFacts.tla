---------------------------- MODULE IntegerFacts ----------------------------
(* Facts about integers, sets of positions and sums that the proofs share.  *)
EXTENDS Integers, FiniteSets, Functions, TLAPS, FiniteSetTheorems, WellFoundedInduction

\* What a division rounds away is less than the divisor
\* (expires_at in seconds, a share of the limit in cents).
LEMMA DivisionBounds ==
  ASSUME NEW a \in Int, NEW s \in Nat \ {0}
  PROVE  /\ a \div s \in Int
         /\ s * (a \div s) <= a
         /\ a < s * (a \div s) + s
BY Z3

\* A smaller number has no larger quotient.
LEMMA DivisionIsMonotone ==
  ASSUME NEW a \in Int, NEW b \in Int, NEW s \in Nat \ {0}, a <= b
  PROVE  a \div s <= b \div s
<1> DEFINE p == a \div s
           q == b \div s
<1>1. p \in Int /\ s * p <= a /\ a < s * p + s
  BY DivisionBounds
<1>2. q \in Int /\ s * q <= b /\ b < s * q + s
  BY DivisionBounds
<1> HIDE DEF p, q
<1>3. SUFFICES ASSUME q + 1 <= p PROVE FALSE
  BY <1>1, <1>2 DEF p, q
<1>4. s * (q + 1) <= s * p
  BY <1>1, <1>2, <1>3, Z3
<1>5. s * (q + 1) = s * q + s
  BY <1>2, Z3
<1>6. QED
  BY <1>1, <1>2, <1>4, <1>5

\* A set of positions that is not empty has a last one.
LEMMA LastPosition ==
  ASSUME NEW n \in Nat, NEW P \in SUBSET (1..n), P # {}
  PROVE  \E x \in P : \A y \in P : y <= x
<1> DEFINE Above(x) == {y \in P : y > x}
           T == {Above(x) : x \in P}
           R == StrictSubsetOrdering(P)
<1>1. IsFiniteSet(P)
  <2>1. IsFiniteSet(1..n)
    BY FS_Interval
  <2>2. QED
    BY <2>1, FS_Subset
<1>2. T \subseteq FiniteSubsetsOf(P) /\ T # {}
  <2>1. ASSUME NEW x \in P
        PROVE  IsFiniteSet(Above(x)) /\ Above(x) \in SUBSET P
    <3>1. Above(x) \in SUBSET P
      OBVIOUS
    <3> HIDE DEF Above
    <3>2. QED
      BY <1>1, <3>1, FS_Subset
  <2>2. QED
    BY <2>1 DEF FiniteSubsetsOf
<1>3. IsWellFoundedOn(R, FiniteSubsetsOf(P))
  BY FS_StrictSubsetOrderingWellFounded
<1>4. PICK t \in T : \A u \in T : ~ (<<u, t>> \in R)
  <2> HIDE DEF T, R
  <2>1. QED
    BY <1>2, <1>3, WFMin
<1>5. PICK x \in P : t = Above(x)
  OBVIOUS
<1>6. ASSUME NEW y \in P, y > x
      PROVE  FALSE
  <2>1. Above(y) \subseteq Above(x) /\ y \in Above(x) /\ y \notin Above(y)
    <3>1. \A z \in P : z \in Int
      OBVIOUS
    <3>2. \A z \in P : z > y => z > x
      BY <1>6, <3>1
    <3>3. ~ (y > y)
      BY <3>1
    <3>4. QED
      BY <1>6, <3>2, <3>3, Zenon
  <2>2. <<Above(y), Above(x)>> \in R
    BY <2>1 DEF StrictSubsetOrdering
  <2>3. QED
    BY <1>4, <1>5, <2>2
<1>7. QED
  BY <1>6

-----------------------------------------------------------------------------
(* Folds over a finite set, and sums. A fold takes the elements in an order *)
(* of its own; what holds of every value of it is shown on the smallest set *)
(* it would fail for.                                                       *)

\* Among the subsets of a finite set that have some property one is smallest.
LEMMA SmallestSubset ==
  ASSUME NEW D, IsFiniteSet(D), NEW T \in SUBSET (SUBSET D), T # {}
  PROVE  \E t \in T : \A u \in T : ~ (u \subseteq t /\ u # t)
<1> DEFINE R == StrictSubsetOrdering(D)
<1>1. T \subseteq FiniteSubsetsOf(D)
  BY FS_Subset DEF FiniteSubsetsOf
<1>2. IsWellFoundedOn(R, FiniteSubsetsOf(D))
  BY FS_StrictSubsetOrderingWellFounded
<1>3. PICK t \in T : \A u \in T : ~ (<<u, t>> \in R)
  <2> HIDE DEF R
  <2> QED BY <1>1, <1>2, WFMin
<1>4. ASSUME NEW u \in T, u \subseteq t, u # t PROVE FALSE
  <2>1. <<u, t>> \in R
    BY <1>4 DEF StrictSubsetOrdering
  <2> QED BY <1>3, <2>1
<1> QED BY <1>4

\* a and b agree on a set whenever they do on what it leaves without an element.
AgreeFromBelow(a, b, D) ==
  \A t \in SUBSET D : (\A x \in t : a[t \ {x}] = b[t \ {x}]) => a[t] = b[t]

\* Functions of the subsets of a finite set that agree from below are equal.
LEMMA SameFromBelow ==
  ASSUME NEW D, IsFiniteSet(D), NEW a, NEW b, AgreeFromBelow(a, b, D)
  PROVE  \A t \in SUBSET D : a[t] = b[t]
<1> DEFINE T == {t \in SUBSET D : a[t] # b[t]}
<1>1. ASSUME T # {} PROVE FALSE
  <2>1. PICK t \in T : \A u \in T : ~ (u \subseteq t /\ u # t)
    <3>1. T \in SUBSET (SUBSET D) OBVIOUS
    <3> HIDE DEF T
    <3> QED BY <1>1, <3>1, SmallestSubset
  <2>2. \A x \in t : a[t \ {x}] = b[t \ {x}] BY <2>1
  <2> QED BY <2>2 DEF AgreeFromBelow
<1> QED BY <1>1

\* What a fold goes by: from a set it takes pick of it, and combines that with
\* the value of the rest.
FoldsBy(it, D, base, step, pick) ==
  it = [t \in SUBSET D |->
          IF t = {} THEN base ELSE step[pick[t]][it[t \ {pick[t]}]]]

Picks(pick, D) == \A t \in SUBSET D : t # {} => pick[t] \in t

\* There is a fold over a finite set.
LEMMA FoldExists ==
  ASSUME NEW D, IsFiniteSet(D), NEW base, NEW step, NEW pick, Picks(pick, D)
  PROVE  \E it : FoldsBy(it, D, base, step, pick)
<1> DEFINE Def(it, t) == IF t = {} THEN base ELSE step[pick[t]][it[t \ {pick[t]}]]
           Part(it, s) == it = [t \in SUBSET s |-> Def(it, t)]
<1>1. ASSUME NEW s \in SUBSET D, NEW r \in SUBSET s, NEW f, NEW g, Part(f, s), Part(g, r)
      PROVE  \A t \in SUBSET r : f[t] = g[t]
  <2> DEFINE T == {t \in SUBSET r : f[t] # g[t]}
  <2>1. SUFFICES ASSUME T # {} PROVE FALSE
    OBVIOUS
  <2>2. IsFiniteSet(r) BY FS_Subset
  <2>3. PICK t \in T : \A u \in T : ~ (u \subseteq t /\ u # t)
    <3>1. T \in SUBSET (SUBSET r) OBVIOUS
    <3> HIDE DEF T
    <3> QED BY <2>1, <2>2, <3>1, SmallestSubset
  <2>4. f[t] = Def(f, t) /\ g[t] = Def(g, t)
    <3>1. t \in SUBSET s /\ t \in SUBSET r OBVIOUS
    <3> DEFINE ff == [x \in SUBSET s |-> Def(f, x)]
               gg == [x \in SUBSET r |-> Def(g, x)]
    <3>2. ff[t] = Def(f, t) /\ gg[t] = Def(g, t) BY <3>1
    <3>3. f = ff /\ g = gg BY <1>1
    <3> HIDE DEF ff, gg, Def
    <3> QED BY <3>2, <3>3
  <2>5. t # {} BY <2>4
  <2>6. pick[t] \in t BY <2>5 DEF Picks
  <2>7. f[t \ {pick[t]}] = g[t \ {pick[t]}]
    BY <2>3, <2>6
  <2> QED BY <2>4, <2>5, <2>7
<1>2. \A s \in SUBSET D : \E g : Part(g, s)
  <2> DEFINE T == {s \in SUBSET D : ~ \E g : Part(g, s)}
  <2>1. SUFFICES ASSUME T # {} PROVE FALSE
    OBVIOUS
  <2>2. PICK s \in T : \A u \in T : ~ (u \subseteq s /\ u # s)
    <3>1. T \in SUBSET (SUBSET D) OBVIOUS
    <3> HIDE DEF T
    <3> QED BY <2>1, <3>1, SmallestSubset
  <2> DEFINE G(u) == CHOOSE g : Part(g, u)
             F(t) == IF t = {} THEN base
                     ELSE step[pick[t]][G(t \ {pick[t]})[t \ {pick[t]}]]
             f == [t \in SUBSET s |-> F(t)]
  <2>3. ASSUME NEW u \in SUBSET s, u # s PROVE Part(G(u), u)
    <3>1. \E g : Part(g, u)
      <4> HIDE DEF Part
      <4> QED BY <2>2, <2>3
    <3> HIDE DEF Part
    <3> QED BY <3>1
  <2>4. ASSUME NEW t \in SUBSET s PROVE F(t) = Def(f, t)
    <3>1. CASE t = {} BY <3>1
    <3>2. CASE t # {}
      <4> DEFINE u == t \ {pick[t]}
      <4>1. pick[t] \in t BY <3>2 DEF Picks
      <4>2. u \in SUBSET s /\ u # s BY <4>1
      <4>3. Part(G(u), u) BY <2>3, <4>2
      <4>4. f[u] = F(u) BY <4>2
      <4>5. G(u)[u] = Def(G(u), u)
        <5> DEFINE gg == [x \in SUBSET u |-> Def(G(u), x)]
        <5>1. gg[u] = Def(G(u), u) OBVIOUS
        <5>2. G(u) = gg BY <4>3
        <5> HIDE DEF gg, G, Def
        <5> QED BY <5>1, <5>2
      <4>6. ASSUME u # {} PROVE G(u)[u \ {pick[u]}] = G(u \ {pick[u]})[u \ {pick[u]}]
        <5> DEFINE v == u \ {pick[u]}
        <5>1. v \in SUBSET s /\ v # s /\ v \in SUBSET u BY <4>2
        <5>2. Part(G(v), v) BY <2>3, <5>1
        <5> HIDE DEF G, Part, v
        <5>3. G(u)[v] = G(v)[v] BY <1>1, <4>2, <4>3, <5>1, <5>2
        <5> QED BY <5>3 DEF v
      <4>7. G(u)[u] = F(u)
        <5> HIDE DEF G, u
        <5> QED BY <4>5, <4>6
      <4> HIDE DEF G, f
      <4> QED BY <3>2, <4>4, <4>7
    <3> QED BY <3>1, <3>2
  <2>5. Part(f, s)
    <3> HIDE DEF F, Def
    <3>1. f = [t \in SUBSET s |-> Def(f, t)]
      <4>1. \A t \in SUBSET s : F(t) = Def(f, t) BY <2>4
      <4> DEFINE h == [t \in SUBSET s |-> Def(f, t)]
      <4>2. f = h BY <4>1
      <4> HIDE DEF f
      <4> QED BY <4>2
    <3> QED BY <3>1
  <2>6. s \in T OBVIOUS
  <2> HIDE DEF Part, f
  <2> QED BY <2>5, <2>6
<1>3. PICK it : Part(it, D)
  <2> HIDE DEF Part
  <2> QED BY <1>2
<1> QED BY <1>3 DEF FoldsBy

\* Every value of f on D is a number.
IntOn(f, D) == \A x \in D : f[x] \in Int

\* it is the sum of f over each subset of D, whatever it is summed by first.
IsSum(it, D, f) ==
  /\ it \in [SUBSET D -> Int] /\ it[{}] = 0
  /\ \A t \in SUBSET D : \A x \in t : it[t] = it[t \ {x}] + f[x]

\* it adds up f in the order of pick.
AddsUp(it, D, f, pick) ==
  it = [t \in SUBSET D |-> IF t = {} THEN 0 ELSE f[pick[t]] + it[t \ {pick[t]}]]

\* A fold with + is a sum in whatever order it goes.
LEMMA FoldIsSum ==
  ASSUME NEW D, IsFiniteSet(D), NEW f, IntOn(f, D), NEW pick, Picks(pick, D), NEW it,
         AddsUp(it, D, f, pick)
  PROVE  IsSum(it, D, f)
<1>1. \A t \in SUBSET D : t # {} => pick[t] \in t /\ t \ {pick[t]} \in SUBSET D
  BY DEF Picks
<1>2. \A t \in SUBSET D : it[t] = IF t = {} THEN 0 ELSE f[pick[t]] + it[t \ {pick[t]}]
  <2> DEFINE h == [t \in SUBSET D |-> IF t = {} THEN 0 ELSE f[pick[t]] + it[t \ {pick[t]}]]
  <2>1. \A t \in SUBSET D : h[t] = IF t = {} THEN 0 ELSE f[pick[t]] + it[t \ {pick[t]}]
    OBVIOUS
  <2>2. it = h BY DEF AddsUp
  <2> HIDE DEF h
  <2> QED BY <2>1, <2>2
<1>3. it[{}] = 0 BY <1>2
<1>4. \A t \in SUBSET D : it[t] \in Int
  <2> DEFINE T == {t \in SUBSET D : it[t] \notin Int}
  <2>1. SUFFICES ASSUME T # {} PROVE FALSE OBVIOUS
  <2>2. PICK t \in T : \A u \in T : ~ (u \subseteq t /\ u # t)
    <3>1. T \in SUBSET (SUBSET D) OBVIOUS
    <3> HIDE DEF T
    <3> QED BY <2>1, <3>1, SmallestSubset
  <2>3. t # {} BY <1>3
  <2>4. it[t \ {pick[t]}] \in Int BY <1>1, <2>2, <2>3
  <2>5. f[pick[t]] \in Int BY <1>1, <2>3 DEF IntOn
  <2> QED BY <1>2, <2>3, <2>4, <2>5
<1>5. \A t \in SUBSET D : \A x \in t : it[t] = it[t \ {x}] + f[x]
  <2> DEFINE T == {t \in SUBSET D : \E x \in t : it[t] # it[t \ {x}] + f[x]}
  <2>1. SUFFICES ASSUME T # {} PROVE FALSE OBVIOUS
  <2>2. PICK t \in T : \A u \in T : ~ (u \subseteq t /\ u # t)
    <3>1. T \in SUBSET (SUBSET D) OBVIOUS
    <3> HIDE DEF T
    <3> QED BY <2>1, <3>1, SmallestSubset
  <2>3. PICK x \in t : it[t] # it[t \ {x}] + f[x] OBVIOUS
  <2> DEFINE p == pick[t]
  <2>4. p \in t /\ it[t] = it[t \ {p}] + f[p]
    <3>1. p \in t /\ t \ {p} \in SUBSET D BY <1>1, <2>3
    <3>2. it[t] = f[p] + it[t \ {p}] BY <1>2, <2>3
    <3>3. f[p] \in Int /\ it[t \ {p}] \in Int BY <1>4, <3>1 DEF IntOn
    <3> HIDE DEF p
    <3> QED BY <3>1, <3>2, <3>3
  <2>5. p # x BY <2>3, <2>4
  <2> DEFINE rest == t \ {p, x}
  <2>6. /\ rest = (t \ {p}) \ {x} /\ rest = (t \ {x}) \ {p} /\ rest \in SUBSET D
        /\ x \in t \ {p} /\ p \in t \ {x}
    BY <2>4, <2>5
  <2>7. it[t \ {p}] = it[rest] + f[x]
    <3>1. t \ {p} \notin T BY <2>2, <2>4
    <3> HIDE DEF p, rest
    <3> QED BY <2>6, <3>1
  <2>8. it[t \ {x}] = it[rest] + f[p]
    <3>1. t \ {x} \notin T BY <2>2
    <3> HIDE DEF p, rest
    <3> QED BY <2>6, <3>1
  <2>9. it[rest] \in Int /\ f[x] \in Int /\ f[p] \in Int /\ it[t] \in Int /\ it[t \ {x}] \in Int
    BY <1>4, <2>4, <2>6 DEF IntOn
  <2> HIDE DEF p, rest, T
  <2>10. it[t] = it[t \ {x}] + f[x] BY <2>4, <2>7, <2>8, <2>9
  <2> QED BY <2>3, <2>10
<1>6. it \in [SUBSET D -> Int]
  <2> DEFINE h == [t \in SUBSET D |-> IF t = {} THEN 0 ELSE f[pick[t]] + it[t \ {pick[t]}]]
  <2>1. it = h BY DEF AddsUp
  <2>2. \A t \in SUBSET D : h[t] \in Int BY <1>4, <2>1
  <2>3. h \in [SUBSET D -> Int] BY <2>2
  <2> HIDE DEF h
  <2> QED BY <2>1, <2>3
<1> QED BY <1>3, <1>5, <1>6 DEF IsSum

\* There is one sum.
LEMMA SumIsUnique ==
  ASSUME NEW D, IsFiniteSet(D), NEW f, NEW a, NEW b, IsSum(a, D, f), IsSum(b, D, f)
  PROVE  a = b
<1>1. AgreeFromBelow(a, b, D)
  <2> SUFFICES ASSUME NEW t \in SUBSET D, \A x \in t : a[t \ {x}] = b[t \ {x}]
               PROVE  a[t] = b[t]
    BY DEF AgreeFromBelow
  <2>1. CASE t = {} BY <2>1 DEF IsSum
  <2>2. CASE t # {}
    <3>1. PICK x \in t : TRUE BY <2>2
    <3>2. a[t] = a[t \ {x}] + f[x] BY <3>1 DEF IsSum
    <3>3. b[t] = b[t \ {x}] + f[x] BY <3>1 DEF IsSum
    <3> QED BY <3>1, <3>2, <3>3
  <2> QED BY <2>1, <2>2
<1>2. \A t \in SUBSET D : a[t] = b[t] BY <1>1, SameFromBelow
<1> QED BY <1>2 DEF IsSum

KeepsTo(step, D, V) == \A x \in D : \A v \in V : step[x][v] \in V

FoldsIn(it, D, V, base, step, pick) ==
  \A t \in SUBSET D :
    /\ it[t] \in V
    /\ it[t] = IF t = {} THEN base ELSE step[pick[t]][it[t \ {pick[t]}]]

\* The values of a fold are of the type its steps keep to.
LEMMA FoldType ==
  ASSUME NEW D, IsFiniteSet(D), NEW V, NEW base \in V, NEW step, NEW pick, Picks(pick, D),
         KeepsTo(step, D, V), NEW it, FoldsBy(it, D, base, step, pick)
  PROVE  FoldsIn(it, D, V, base, step, pick)
<1>1. \A t \in SUBSET D : it[t] = IF t = {} THEN base ELSE step[pick[t]][it[t \ {pick[t]}]]
  <2> DEFINE h == [t \in SUBSET D |->
                     IF t = {} THEN base ELSE step[pick[t]][it[t \ {pick[t]}]]]
  <2>1. \A t \in SUBSET D : h[t] = IF t = {} THEN base ELSE step[pick[t]][it[t \ {pick[t]}]]
    OBVIOUS
  <2>2. it = h BY DEF FoldsBy
  <2> HIDE DEF h
  <2> QED BY <2>1, <2>2
<1>2. \A t \in SUBSET D : it[t] \in V
  <2> DEFINE T == {t \in SUBSET D : it[t] \notin V}
  <2>1. SUFFICES ASSUME T # {} PROVE FALSE OBVIOUS
  <2>2. PICK t \in T : \A u \in T : ~ (u \subseteq t /\ u # t)
    <3>1. T \in SUBSET (SUBSET D) OBVIOUS
    <3> HIDE DEF T
    <3> QED BY <2>1, <3>1, SmallestSubset
  <2>3. t # {} BY <1>1
  <2>4. pick[t] \in t BY <2>3 DEF Picks
  <2>5. it[t \ {pick[t]}] \in V BY <2>2, <2>4
  <2>6. it[t] = step[pick[t]][it[t \ {pick[t]}]] BY <1>1, <2>3
  <2>7. pick[t] \in D BY <2>4
  <2> HIDE DEF T
  <2>8. it[t] \in V BY <2>5, <2>6, <2>7 DEF KeepsTo
  <2> QED BY <2>8 DEF T
<1> QED BY <1>1, <1>2 DEF FoldsIn

\* Numbers can be added up in the order of any choice.
LEMMA AddsUpExists ==
  ASSUME NEW D, IsFiniteSet(D), NEW f, IntOn(f, D), NEW pick, Picks(pick, D)
  PROVE  \E it : AddsUp(it, D, f, pick)
<1> DEFINE step == [x \in D |-> [v \in Int |-> f[x] + v]]
<1>1. PICK it : FoldsBy(it, D, 0, step, pick)
  <2> HIDE DEF step
  <2> QED BY FoldExists
<1>2. \A x \in D, v \in Int : step[x][v] \in Int /\ step[x][v] = f[x] + v
  BY DEF IntOn
<1>3. \A t \in SUBSET D :
        /\ it[t] \in Int
        /\ it[t] = IF t = {} THEN 0 ELSE step[pick[t]][it[t \ {pick[t]}]]
  <2> DEFINE V == Int
             base == 0
  <2>1. base \in V OBVIOUS
  <2>4. KeepsTo(step, D, V) BY <1>2 DEF KeepsTo
  <2>2. FoldsBy(it, D, base, step, pick) BY <1>1
  <2> HIDE DEF step, V, base
  <2>3. FoldsIn(it, D, V, base, step, pick)
    BY <2>1, <2>2, <2>4, FoldType, SMTT(60)
  <2> QED BY <2>3 DEF V, base, FoldsIn
<1>4. \A t \in SUBSET D : it[t] = IF t = {} THEN 0 ELSE f[pick[t]] + it[t \ {pick[t]}]
  <2> TAKE t \in SUBSET D
  <2>1. CASE t = {} BY <1>3, <2>1
  <2>2. CASE t # {}
    <3>1. pick[t] \in D /\ t \ {pick[t]} \in SUBSET D BY <2>2 DEF Picks
    <3>2. it[t \ {pick[t]}] \in Int BY <1>3, <3>1
    <3>3. it[t] = step[pick[t]][it[t \ {pick[t]}]] BY <1>3, <2>2
    <3> HIDE DEF step
    <3> QED BY <1>2, <2>2, <3>1, <3>2, <3>3
  <2> QED BY <2>1, <2>2
<1>5. it = [t \in SUBSET D |-> it[t]]
  <2> HIDE DEF step
  <2> DEFINE h == [t \in SUBSET D |->
                     IF t = {} THEN 0 ELSE step[pick[t]][it[t \ {pick[t]}]]]
  <2>1. it = h BY <1>1 DEF FoldsBy
  <2>2. h = [t \in SUBSET D |-> h[t]] OBVIOUS
  <2> HIDE DEF h
  <2> QED BY <2>1, <2>2
<1>6. it = [t \in SUBSET D |-> IF t = {} THEN 0 ELSE f[pick[t]] + it[t \ {pick[t]}]]
  BY <1>4, <1>5, Zenon
<1> QED BY <1>6 DEF AddsUp

\* The choice the folds of the community modules make.
AnyOf(D) == [t \in SUBSET D |-> CHOOSE x \in t : TRUE]

\* What the sum operators of the community modules compute is a sum.
LEMMA ChosenIsSum ==
  ASSUME NEW D, IsFiniteSet(D), NEW f, IntOn(f, D)
  PROVE  LET it == CHOOSE iter : iter =
                     [t \in SUBSET D |->
                        IF t = {} THEN 0
                        ELSE f[CHOOSE x \in t : TRUE] + iter[t \ {CHOOSE x \in t : TRUE}]]
         IN  IsSum(it, D, f)
<1> DEFINE P(iter) == iter = [t \in SUBSET D |->
                        IF t = {} THEN 0
                        ELSE f[CHOOSE x \in t : TRUE] + iter[t \ {CHOOSE x \in t : TRUE}]]
<1>1. Picks(AnyOf(D), D)
  BY DEF Picks, AnyOf
<1>2. ASSUME NEW it PROVE AddsUp(it, D, f, AnyOf(D)) <=> P(it)
  <2> DEFINE a == [t \in SUBSET D |-> IF t = {} THEN 0
                     ELSE f[AnyOf(D)[t]] + it[t \ {AnyOf(D)[t]}]]
             b == [t \in SUBSET D |-> IF t = {} THEN 0
                     ELSE f[CHOOSE x \in t : TRUE] + it[t \ {CHOOSE x \in t : TRUE}]]
  <2>1. \A t \in SUBSET D : AnyOf(D)[t] = CHOOSE x \in t : TRUE
    BY DEF AnyOf
  <2>2. a = b BY <2>1
  <2> QED BY <2>2, Zenon DEF AddsUp
<1>3. \E it : AddsUp(it, D, f, AnyOf(D))
  BY <1>1, AddsUpExists
<1>4. P(CHOOSE it : P(it))
  <2> HIDE DEF P
  <2> QED BY <1>2, <1>3
<1>5. AddsUp(CHOOSE it : P(it), D, f, AnyOf(D))
  <2> HIDE DEF P
  <2> QED BY <1>2, <1>4
<1>6. IsSum(CHOOSE it : P(it), D, f)
  <2> HIDE DEF P
  <2> QED BY <1>1, <1>5, FoldIsSum
<1> QED BY <1>6, Zenon

\* The sum of a function's values.
LEMMA SumOfFunction ==
  ASSUME NEW D, IsFiniteSet(D), NEW f, IntOn(f, D)
  PROVE  \E it : IsSum(it, D, f) /\ it[D] = SumFunctionOnSet(f, D)
<1> DEFINE it == CHOOSE iter : iter =
                   [t \in SUBSET D |->
                      IF t = {} THEN 0
                      ELSE f[CHOOSE x \in t : TRUE] + iter[t \ {CHOOSE x \in t : TRUE}]]
<1>1. SumFunctionOnSet(f, D) = it[D]
  BY Zenon DEF SumFunctionOnSet, FoldFunctionOnSet, MapThenFoldSet
<1>2. IsSum(it, D, f)
  BY ChosenIsSum
<1> HIDE DEF it
<1> QED BY <1>1, <1>2

\* Whatever takes its numbers in the order of pick comes to their sum.
LEMMA AddingUpIsSum ==
  ASSUME NEW D, IsFiniteSet(D), NEW f, IntOn(f, D), NEW pick, Picks(pick, D), NEW it,
         \A t \in SUBSET D : it[t] = IF t = {} THEN 0 ELSE it[t \ {pick[t]}] + f[pick[t]]
  PROVE  it[D] = SumFunctionOnSet(f, D)
<1>1. PICK exact : IsSum(exact, D, f) /\ exact[D] = SumFunctionOnSet(f, D) BY SumOfFunction
<1>2. AgreeFromBelow(it, exact, D)
  <2> SUFFICES ASSUME NEW t \in SUBSET D, \A x \in t : it[t \ {x}] = exact[t \ {x}]
               PROVE  it[t] = exact[t]
    BY DEF AgreeFromBelow
  <2>1. CASE t = {} BY <1>1, <2>1 DEF IsSum
  <2>2. CASE t # {}
    <3>1. pick[t] \in t BY <2>2 DEF Picks
    <3> QED BY <1>1, <2>2, <3>1 DEF IsSum
  <2> QED BY <2>1, <2>2
<1>3. \A t \in SUBSET D : it[t] = exact[t] BY <1>2, SameFromBelow
<1> QED BY <1>1, <1>3

\* Sums of functions that agree are equal.
LEMMA SumsAgree ==
  ASSUME NEW D, IsFiniteSet(D), NEW S \in SUBSET D, NEW f, NEW g, NEW a, NEW b,
         IsSum(a, D, f), IsSum(b, S, g), \A x \in S : f[x] = g[x]
  PROVE  a[S] = b[S]
<1>1. AgreeFromBelow(a, b, S)
  <2> SUFFICES ASSUME NEW t \in SUBSET S, \A x \in t : a[t \ {x}] = b[t \ {x}]
               PROVE  a[t] = b[t]
    BY DEF AgreeFromBelow
  <2>1. CASE t = {} BY <2>1 DEF IsSum
  <2>2. CASE t # {}
    <3>1. PICK x \in t : TRUE BY <2>2
    <3>2. t \in SUBSET D /\ f[x] = g[x] /\ a[t \ {x}] = b[t \ {x}] BY <3>1
    <3>3. a[t] = a[t \ {x}] + f[x] BY <3>1, <3>2 DEF IsSum
    <3>4. b[t] = b[t \ {x}] + g[x] BY <3>1 DEF IsSum
    <3> QED BY <3>2, <3>3, <3>4
  <2> QED BY <2>1, <2>2
<1>2. IsFiniteSet(S) BY FS_Subset
<1>3. \A t \in SUBSET S : a[t] = b[t] BY <1>1, <1>2, SameFromBelow
<1> QED BY <1>3

\* A sum is a term and the sum of the others.
LEMMA SumSplits ==
  ASSUME NEW D, IsFiniteSet(D), NEW f, IntOn(f, D), NEW x \in D
  PROVE  /\ SumFunctionOnSet(f, D) = SumFunctionOnSet(f, D \ {x}) + f[x]
         /\ SumFunctionOnSet(f, D) \in Int /\ SumFunctionOnSet(f, D \ {x}) \in Int
<1> DEFINE S == D \ {x}
<1>1. IsFiniteSet(S) /\ S \in SUBSET D BY FS_Subset
<1>2. IntOn(f, S) BY DEF IntOn
<1>3. PICK a : IsSum(a, D, f) /\ a[D] = SumFunctionOnSet(f, D) BY SumOfFunction
<1>4. PICK b : IsSum(b, S, f) /\ b[S] = SumFunctionOnSet(f, S)
  <2> HIDE DEF S
  <2> QED BY <1>1, <1>2, SumOfFunction
<1>5. a[S] = b[S]
  <2> HIDE DEF S
  <2> QED BY <1>1, <1>3, <1>4, SumsAgree
<1>6. a[D] = a[S] + f[x] /\ a[D] \in Int /\ a[S] \in Int BY <1>3 DEF IsSum
<1> QED BY <1>3, <1>4, <1>5, <1>6

LEMMA SumOfNothing == ASSUME NEW f PROVE SumFunctionOnSet(f, {}) = 0
<1>1. IsFiniteSet({}) /\ IntOn(f, {}) BY FS_EmptySet DEF IntOn
<1>2. PICK a : IsSum(a, {}, f) /\ a[{}] = SumFunctionOnSet(f, {}) BY <1>1, SumOfFunction
<1> QED BY <1>2 DEF IsSum

\* The sum depends on what f is on D only.
LEMMA EqualSums ==
  ASSUME NEW D, IsFiniteSet(D), NEW f, NEW g, IntOn(f, D), \A x \in D : f[x] = g[x]
  PROVE  SumFunctionOnSet(f, D) = SumFunctionOnSet(g, D)
<1>1. IntOn(g, D) BY DEF IntOn
<1>2. PICK a : IsSum(a, D, f) /\ a[D] = SumFunctionOnSet(f, D) BY SumOfFunction
<1>3. PICK b : IsSum(b, D, g) /\ b[D] = SumFunctionOnSet(g, D) BY <1>1, SumOfFunction
<1>4. a[D] = b[D] BY <1>2, <1>3, SumsAgree
<1> QED BY <1>2, <1>3, <1>4

\* When one term gets smaller and no other changes, the sum gets smaller by as much.
LEMMA SumChanges ==
  ASSUME NEW D, IsFiniteSet(D), NEW f, NEW g, IntOn(f, D), IntOn(g, D), NEW x \in D,
         \A y \in D \ {x} : f[y] = g[y]
  PROVE  /\ SumFunctionOnSet(g, D) = SumFunctionOnSet(f, D) - f[x] + g[x]
         /\ SumFunctionOnSet(f, D) \in Int /\ SumFunctionOnSet(g, D) \in Int
<1> DEFINE S == D \ {x}
           r == SumFunctionOnSet(f, S)
<1>1. /\ SumFunctionOnSet(f, D) = SumFunctionOnSet(f, S) + f[x]
      /\ SumFunctionOnSet(g, D) = SumFunctionOnSet(g, S) + g[x]
      /\ SumFunctionOnSet(f, S) \in Int
  BY SumSplits
<1>2. IsFiniteSet(S) /\ IntOn(f, S) /\ (\A y \in S : f[y] = g[y]) BY FS_Subset DEF IntOn
<1>3. SumFunctionOnSet(g, S) = SumFunctionOnSet(f, S)
  <2> HIDE DEF S
  <2> QED BY <1>2, EqualSums
<1>4. f[x] \in Int /\ g[x] \in Int BY DEF IntOn
<1> HIDE DEF S
<1> QED BY <1>1, <1>3, <1>4

\* With one term smaller and no other changed, the sum is smaller.
LEMMA SmallerSum ==
  ASSUME NEW D, IsFiniteSet(D), NEW f, NEW g, NEW x \in D,
         \A y \in D : f[y] \in Nat, \A y \in D : g[y] \in Nat,
         \A y \in D \ {x} : f[y] = g[y], g[x] < f[x]
  PROVE  SumFunctionOnSet(g, D) < SumFunctionOnSet(f, D)
<1>1. IntOn(f, D) /\ IntOn(g, D)
  BY DEF IntOn
<1>2. /\ SumFunctionOnSet(g, D) = SumFunctionOnSet(f, D) - f[x] + g[x]
      /\ SumFunctionOnSet(f, D) \in Int
  BY <1>1, SumChanges
<1>3. f[x] \in Nat /\ g[x] \in Nat
  OBVIOUS
<1>4. QED
  BY <1>2, <1>3

\* A sum of naturals is a natural number.
LEMMA SumIsNat ==
  ASSUME NEW D, IsFiniteSet(D), NEW f, \A x \in D : f[x] \in Nat
  PROVE  SumFunctionOnSet(f, D) \in Nat
<1>1. IntOn(f, D) BY DEF IntOn
<1>2. PICK a : IsSum(a, D, f) /\ a[D] = SumFunctionOnSet(f, D) BY <1>1, SumOfFunction
<1> DEFINE T == {t \in SUBSET D : a[t] \notin Nat}
<1>3. ASSUME T # {} PROVE FALSE
  <2>1. PICK t \in T : \A u \in T : ~ (u \subseteq t /\ u # t)
    <3>1. T \in SUBSET (SUBSET D) OBVIOUS
    <3> HIDE DEF T
    <3> QED BY <1>3, <3>1, SmallestSubset
  <2>2. t # {}
    <3>1. a[{}] = 0 BY <1>2 DEF IsSum
    <3> QED BY <3>1
  <2>3. PICK x \in t : TRUE BY <2>2
  <2>4. a[t \ {x}] \in Nat /\ f[x] \in Nat BY <2>1
  <2>5. a[t] = a[t \ {x}] + f[x] BY <1>2 DEF IsSum
  <2> QED BY <2>4, <2>5
<1> QED BY <1>2, <1>3
=============================================================================
