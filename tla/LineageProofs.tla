---------------------------- MODULE LineageProofs ----------------------------
(***************************************************************************)
(* Machine-checked theorems about LineageTrace, for every set of products, *)
(* manifests, limits and every store that changes under the walk: what the *)
(* walk may spend, what its issues and its completeness mean, and that the *)
(* browser accepts every trace it is sent.                                 *)
(***************************************************************************)
EXTENDS LineageTrace, SequenceTheorems, FiniteSetTheorems, WellFoundedInduction, TLAPS

-----------------------------------------------------------------------------
(* Numbers.                                                                *)

(* A non-empty set of naturals has a least element. *)
LEMMA LeastNat ==
  ASSUME NEW S \in SUBSET Nat, S # {}
  PROVE  \E m \in S : \A k \in S : m <= k
<1> DEFINE Less == OpToRel(<, Nat)
<1>1. IsWellFoundedOn(Less, Nat)
  BY NatLessThanWellFounded
<1>2. \A x, y \in Nat : y < x => <<y, x>> \in Less
  BY DEF OpToRel
<1> HIDE DEF Less
<1>3. PICK m \in S : \A k \in S : <<k, m>> \notin Less
  BY <1>1, WFMin
<1>4. \A k \in S : ~(k < m)
  BY <1>2, <1>3
<1> QED
  BY <1>4

(* Induction up to a bound, on a set of numbers. *)
LEMMA UpTo ==
  ASSUME NEW m \in Nat, NEW S, 0 \in S, \A n \in 0 .. m : n \in S /\ n + 1 <= m => n + 1 \in S
  PROVE  \A n \in 0 .. m : n \in S
<1> DEFINE Others == (0 .. m) \ S
<1> SUFFICES ASSUME Others # {} PROVE FALSE
  OBVIOUS
<1>1. Others \in SUBSET Nat
  OBVIOUS
<1>2. PICK k \in Others : \A j \in Others : k <= j
  <2> HIDE DEF Others
  <2> QED
    BY <1>1, LeastNat
<1>3. k \in 0 .. m /\ k # 0 /\ k \notin S
  BY <1>2
<1>4. k - 1 \in 0 .. m /\ ~(k <= k - 1) /\ (k - 1) + 1 = k
  BY <1>3
<1>5. k - 1 \in S
  BY <1>2, <1>4
<1> QED
  BY <1>3, <1>4, <1>5

(* The longest path the definitions look at. *)
Longest == Cardinality(Products) + MaxDepth

LEMMA Sizes == /\ Cardinality(Products) \in Nat /\ MaxDepth \in Nat \ {0} /\ Longest \in Nat
               /\ Cardinality(Products) <= Longest /\ MaxDepth <= Longest
<1>1. Cardinality(Products) \in Nat
  BY NamespaceAssumption, FS_CardinalityType
<1> QED
  BY <1>1, LimitsAssumption DEF Longest

-----------------------------------------------------------------------------
(* Paths along a set of edges.                                             *)

Joins(E, q, x) == \E e \in E : e.from = q /\ e.to = x

(* f holds the products reached from p, step by step, up to step m. *)
Stepping(f, E, p, m) ==
  f = [n \in 0 .. m |-> IF n = 0 THEN {p} ELSE {e.to : e \in {g \in E : g.from \in f[n - 1]}}]

(* The recursive definition of the steps has a solution. *)
LEMMA StepsExist ==
  ASSUME NEW E, NEW p, NEW m \in Nat
  PROVE  \E f : Stepping(f, E, p, m)
<1> DEFINE After(S) == {e.to : e \in {g \in E : g.from \in S}}
           Solves(f, k) == f = [n \in 0 .. k |-> IF n = 0 THEN {p} ELSE After(f[n - 1])]
           S == {k \in 0 .. m : \E f : Solves(f, k)}
<1> HIDE DEF After
<1>1. 0 \in S
  <2>1. Solves([n \in 0 .. 0 |-> {p}], 0)
    OBVIOUS
  <2> HIDE DEF Solves
  <2> QED
    BY <2>1
<1>2. \A k \in 0 .. m : k \in S /\ k + 1 <= m => k + 1 \in S
  <2> SUFFICES ASSUME NEW k \in 0 .. m, k \in S, k + 1 <= m PROVE k + 1 \in S
    OBVIOUS
  <2>1. PICK f : Solves(f, k)
    OBVIOUS
  <2> DEFINE g == [n \in 0 .. k + 1 |-> IF n = k + 1 THEN After(f[k]) ELSE f[n]]
  <2>2. \A n \in 0 .. k + 1 : g[n] = IF n = 0 THEN {p} ELSE After(g[n - 1])
    <3> SUFFICES ASSUME NEW n \in 0 .. k + 1 PROVE g[n] = IF n = 0 THEN {p} ELSE After(g[n - 1])
      OBVIOUS
    <3>1. CASE n = k + 1
      <4>1. g[n - 1] = f[k] /\ n # 0
        BY <3>1
      <4> QED
        BY <3>1, <4>1
    <3>2. CASE n # k + 1
      <4>1. g[n] = f[n] /\ n \in 0 .. k
        BY <3>2
      <4>2. f[n] = IF n = 0 THEN {p} ELSE After(f[n - 1])
        BY <2>1, <4>1
      <4>3. n # 0 => g[n - 1] = f[n - 1]
        BY <4>1
      <4> QED
        BY <4>1, <4>2, <4>3
    <3> QED
      BY <3>1, <3>2
  <2>3. Solves(g, k + 1)
    <3>1. g = [n \in 0 .. k + 1 |-> g[n]]
      OBVIOUS
    <3> HIDE DEF g
    <3> QED
      BY <2>2, <3>1
  <2> HIDE DEF Solves, g
  <2> QED
    BY <2>3
<1>3. m \in S
  <2> HIDE DEF S
  <2> QED
    BY <1>1, <1>2, UpTo
<1>4. PICK f : Solves(f, m)
  BY <1>3
<1> QED
  BY <1>4 DEF Stepping, After

LEMMA StepsDef ==
  ASSUME NEW E, NEW p
  PROVE  /\ Steps(E, p)[0] = {p}
         /\ \A n \in 1 .. Longest :
              Steps(E, p)[n] = {e.to : e \in {g \in E : g.from \in Steps(E, p)[n - 1]}}
<1> DEFINE Solves(f) == Stepping(f, E, p, Longest)
           at == CHOOSE f : Solves(f)
<1>1. Steps(E, p) = at
  BY DEF Steps, Longest, Stepping
<1>2. \E f : Solves(f)
  BY Sizes, StepsExist
<1>3. Solves(at)
  <2> HIDE DEF Solves
  <2> QED
    BY <1>2
<1>4. \A n \in 0 .. Longest :
        at[n] = IF n = 0 THEN {p} ELSE {e.to : e \in {g \in E : g.from \in at[n - 1]}}
  <2> HIDE DEF at
  <2> QED
    BY <1>3 DEF Stepping
<1> HIDE DEF at, Solves
<1>5. at[0] = {p}
  <2>1. 0 \in 0 .. Longest
    BY Sizes
  <2> QED
    BY <1>4, <2>1
<1>6. \A n \in 1 .. Longest : at[n] = {e.to : e \in {g \in E : g.from \in at[n - 1]}}
  <2> SUFFICES ASSUME NEW n \in 1 .. Longest
               PROVE  at[n] = {e.to : e \in {g \in E : g.from \in at[n - 1]}}
    OBVIOUS
  <2>1. n \in 0 .. Longest /\ n # 0
    BY Sizes
  <2> QED
    BY <1>4, <2>1
<1> QED
  BY <1>1, <1>5, <1>6

LEMMA NextStep ==
  ASSUME NEW E, NEW p, NEW n \in 0 .. Longest, n + 1 <= Longest, NEW x
  PROVE  x \in Steps(E, p)[n + 1] <=> \E q \in Steps(E, p)[n] : Joins(E, q, x)
<1>1. n + 1 \in 1 .. Longest /\ (n + 1) - 1 = n
  BY Sizes
<1>2. Steps(E, p)[n + 1] = {e.to : e \in {g \in E : g.from \in Steps(E, p)[n]}}
  BY <1>1, StepsDef
<1> QED
  BY <1>2 DEF Joins

(* More edges lead at least as far. *)
LEMMA StepsGrow ==
  ASSUME NEW E, NEW F, \A q, x : Joins(E, q, x) => Joins(F, q, x), NEW p
  PROVE  \A n \in 0 .. Longest : Steps(E, p)[n] \subseteq Steps(F, p)[n]
<1> DEFINE S == {n \in 0 .. Longest : Steps(E, p)[n] \subseteq Steps(F, p)[n]}
<1>1. 0 \in S
  BY Sizes, StepsDef
<1>2. \A n \in 0 .. Longest : n \in S /\ n + 1 <= Longest => n + 1 \in S
  <2> SUFFICES ASSUME NEW n \in 0 .. Longest, n \in S, n + 1 <= Longest, NEW x \in Steps(E, p)[n + 1]
               PROVE  x \in Steps(F, p)[n + 1]
    BY Sizes
  <2>1. PICK q \in Steps(E, p)[n] : Joins(E, q, x)
    BY NextStep
  <2>2. q \in Steps(F, p)[n] /\ Joins(F, q, x)
    BY <2>1
  <2> QED
    BY <2>2, NextStep
<1> HIDE DEF S
<1>3. \A n \in 0 .. Longest : n \in S
  BY <1>1, <1>2, Sizes, UpTo
<1> QED
  BY <1>3 DEF S

(* Where the first step leads to q, what q leads to is one step further. *)
LEMMA FirstStep ==
  ASSUME NEW E, NEW p, NEW q, Joins(E, p, q)
  PROVE  \A n \in 0 .. Longest : n + 1 <= Longest => Steps(E, q)[n] \subseteq Steps(E, p)[n + 1]
<1> DEFINE S == {n \in 0 .. Longest : n + 1 <= Longest => Steps(E, q)[n] \subseteq Steps(E, p)[n + 1]}
<1>1. 0 \in S
  <2>1. Steps(E, q)[0] = {q} /\ Steps(E, p)[0] = {p} /\ 0 \in 0 .. Longest
    BY Sizes, StepsDef
  <2>2. 0 + 1 <= Longest => q \in Steps(E, p)[0 + 1]
    BY <2>1, NextStep
  <2> QED
    BY <2>1, <2>2
<1>2. \A n \in 0 .. Longest : n \in S /\ n + 1 <= Longest => n + 1 \in S
  <2> SUFFICES ASSUME NEW n \in 0 .. Longest, n \in S, (n + 1) + 1 <= Longest, NEW x \in Steps(E, q)[n + 1]
               PROVE  x \in Steps(E, p)[(n + 1) + 1]
    BY Sizes
  <2>1. n + 1 <= Longest /\ n + 1 \in 0 .. Longest
    BY Sizes
  <2>2. PICK y \in Steps(E, q)[n] : Joins(E, y, x)
    BY <2>1, NextStep
  <2>3. y \in Steps(E, p)[n + 1]
    BY <2>1, <2>2
  <2> QED
    BY <2>1, <2>2, <2>3, NextStep
<1> HIDE DEF S
<1>3. \A n \in 0 .. Longest : n \in S
  BY <1>1, <1>2, Sizes, UpTo
<1> QED
  BY <1>3 DEF S

(* Products that keep leading to one another are met at every step. *)
LEMMA StepsStay ==
  ASSUME NEW E, NEW C, \A q \in C : \E x \in C : Joins(E, q, x), NEW p \in C
  PROVE  \A n \in 0 .. Longest : Steps(E, p)[n] # {}
<1> DEFINE S == {n \in 0 .. Longest : \E x \in C : x \in Steps(E, p)[n]}
<1>1. 0 \in S
  BY Sizes, StepsDef
<1>2. \A n \in 0 .. Longest : n \in S /\ n + 1 <= Longest => n + 1 \in S
  <2> SUFFICES ASSUME NEW n \in 0 .. Longest, n \in S, n + 1 <= Longest
               PROVE  \E x \in C : x \in Steps(E, p)[n + 1]
    BY Sizes
  <2>1. PICK q \in C : q \in Steps(E, p)[n]
    OBVIOUS
  <2>2. PICK x \in C : Joins(E, q, x)
    OBVIOUS
  <2> QED
    BY <2>1, <2>2, NextStep
<1> HIDE DEF S
<1>3. \A n \in 0 .. Longest : n \in S
  BY <1>1, <1>2, Sizes, UpTo
<1> QED
  BY <1>3 DEF S

(* Where heights fall along every edge, a path is that much lower. *)
LEMMA StepsFall ==
  ASSUME NEW E, NEW V, NEW h, \A q \in V : h[q] \in Nat,
         \A q \in V : \A x : Joins(E, q, x) => x \in V /\ h[x] < h[q],
         NEW p \in V
  PROVE  \A n \in 0 .. Longest : \A x \in Steps(E, p)[n] : x \in V /\ h[x] + n <= h[p]
<1> DEFINE S == {n \in 0 .. Longest : \A x \in Steps(E, p)[n] : x \in V /\ h[x] + n <= h[p]}
<1>1. 0 \in S
  BY Sizes, StepsDef
<1>2. \A n \in 0 .. Longest : n \in S /\ n + 1 <= Longest => n + 1 \in S
  <2> SUFFICES ASSUME NEW n \in 0 .. Longest, n \in S, n + 1 <= Longest, NEW x \in Steps(E, p)[n + 1]
               PROVE  x \in V /\ h[x] + (n + 1) <= h[p]
    BY Sizes
  <2>1. PICK q \in Steps(E, p)[n] : Joins(E, q, x)
    BY NextStep
  <2>2. q \in V /\ h[q] + n <= h[p] /\ x \in V /\ h[x] < h[q]
    BY <2>1
  <2> QED
    BY <2>2, Sizes
<1> HIDE DEF S
<1>3. \A n \in 0 .. Longest : n \in S
  BY <1>1, <1>2, Sizes, UpTo
<1> QED
  BY <1>3 DEF S

(* There a path of n steps has passed n other products, so none is as long *)
(* as there are products.                                                  *)
LEMMA StepsEnd ==
  ASSUME NEW E, NEW V \in SUBSET Products, NEW h, \A q \in V : h[q] \in Nat,
         \A q \in V : \A x : Joins(E, q, x) => x \in V /\ h[x] < h[q],
         NEW p \in V
  PROVE  Steps(E, p)[Cardinality(Products)] = {}
<1> DEFINE Beyond(x, n) == \E A \in SUBSET V : /\ IsFiniteSet(A) /\ Cardinality(A) = n
                                               /\ \A q \in A : h[x] < h[q]
           S == {n \in 0 .. Longest : \A x \in Steps(E, p)[n] : x \in V /\ Beyond(x, n)}
<1>1. 0 \in S
  <2>1. \A x \in Steps(E, p)[0] : x = p
    BY StepsDef
  <2>2. Beyond(p, 0)
    BY FS_EmptySet
  <2> QED
    BY <2>1, <2>2, Sizes
<1>2. \A n \in 0 .. Longest : n \in S /\ n + 1 <= Longest => n + 1 \in S
  <2> SUFFICES ASSUME NEW n \in 0 .. Longest, n \in S, n + 1 <= Longest, NEW x \in Steps(E, p)[n + 1]
               PROVE  x \in V /\ Beyond(x, n + 1)
    BY Sizes
  <2>1. PICK q \in Steps(E, p)[n] : Joins(E, q, x)
    BY NextStep
  <2>2. q \in V /\ x \in V /\ h[x] < h[q] /\ Beyond(q, n)
    BY <2>1
  <2>3. PICK A \in SUBSET V : IsFiniteSet(A) /\ Cardinality(A) = n /\ \A r \in A : h[q] < h[r]
    BY <2>2
  <2>4. q \notin A
    BY <2>2, <2>3
  <2>5. IsFiniteSet(A \cup {q}) /\ Cardinality(A \cup {q}) = n + 1
    BY <2>3, <2>4, FS_AddElement
  <2>6. \A r \in A \cup {q} : h[x] < h[r]
    BY <2>2, <2>3
  <2> QED
    BY <2>2, <2>5, <2>6
<1>3. \A n \in 0 .. Longest : n \in S
  <2> HIDE DEF S
  <2> QED
    BY <1>1, <1>2, Sizes, UpTo
<1> SUFFICES ASSUME NEW x \in Steps(E, p)[Cardinality(Products)] PROVE FALSE
  OBVIOUS
<1>4. Cardinality(Products) \in 0 .. Longest
  BY Sizes
<1>5. x \in V /\ Beyond(x, Cardinality(Products))
  BY <1>3, <1>4
<1>6. PICK A \in SUBSET V : /\ IsFiniteSet(A) /\ Cardinality(A) = Cardinality(Products)
                            /\ \A q \in A : h[x] < h[q]
  BY <1>5
<1>7. x \notin A
  BY <1>5, <1>6
<1>8. IsFiniteSet(A \cup {x}) /\ Cardinality(A \cup {x}) = Cardinality(Products) + 1
  BY <1>6, <1>7, FS_AddElement
<1>9. Cardinality(A \cup {x}) <= Cardinality(Products)
  BY <1>5, <1>6, NamespaceAssumption, FS_Subset
<1> QED
  BY <1>8, <1>9, Sizes

-----------------------------------------------------------------------------
(* The links of what was read, and the layers as steps along them.         *)

Holdings == [Products -> Declarations \cup {None}]

(* q names x as a producer inside the namespace. *)
Draws(held, q, x) ==
  \E i \in DOMAIN InputsOf(held, q) : ~InputsOf(held, q)[i].foreign /\ InputsOf(held, q)[i].ref = x

Links(held) == {l \in [from : Products, to : Products] : Draws(held, l.from, l.to)}

LEMMA InputsTyped ==
  ASSUME NEW held \in Holdings, NEW q \in Products
  PROVE  InputsOf(held, q) \in Seq(InputPorts)
  BY DEF Holdings, Declarations, Specs, InputsOf

LEMMA LinksJoin ==
  ASSUME NEW held \in Holdings, NEW q, NEW x
  PROVE  Joins(Links(held), q, x) <=> q \in Products /\ x \in Products /\ Draws(held, q, x)
<1>1. ASSUME Joins(Links(held), q, x) PROVE q \in Products /\ x \in Products /\ Draws(held, q, x)
  BY <1>1 DEF Joins, Links
<1>2. ASSUME q \in Products, x \in Products, Draws(held, q, x) PROVE Joins(Links(held), q, x)
  <2> DEFINE l == [from |-> q, to |-> x]
  <2>1. l \in Links(held) /\ l.from = q /\ l.to = x
    BY <1>2 DEF Links
  <2> QED
    BY <2>1 DEF Joins
<1> QED
  BY <1>1, <1>2

LEMMA DrawsInside ==
  ASSUME NEW held \in Holdings, NEW q \in Products, NEW x, Draws(held, q, x)
  PROVE  x \in Products
<1>1. PICK i \in DOMAIN InputsOf(held, q) : InputsOf(held, q)[i].ref = x
  BY DEF Draws
<1>2. InputsOf(held, q)[i] \in InputPorts
  BY InputsTyped
<1> QED
  BY <1>1, <1>2 DEF InputPorts

LEMMA ProducersJoined ==
  ASSUME NEW held \in Holdings, NEW S \in SUBSET Products
  PROVE  Producers(held, S) = {e.to : e \in {g \in Links(held) : g.from \in S}}
<1>1. \A x : x \in Producers(held, S) <=> \E q \in S : Draws(held, q, x)
  BY DEF Producers, Draws
<1>2. \A x : x \in {e.to : e \in {g \in Links(held) : g.from \in S}} <=> \E q \in S : Joins(Links(held), q, x)
  BY DEF Joins
<1>3. \A x : \A q \in S : Draws(held, q, x) <=> Joins(Links(held), q, x)
  BY LinksJoin, DrawsInside
<1> QED
  BY <1>1, <1>2, <1>3

LEMMA StepsInside ==
  ASSUME NEW E, \A e \in E : e.to \in Products, NEW p \in Products
  PROVE  \A n \in 0 .. Longest : Steps(E, p)[n] \subseteq Products
<1> DEFINE S == {n \in 0 .. Longest : Steps(E, p)[n] \subseteq Products}
<1>1. 0 \in S
  BY Sizes, StepsDef
<1>2. \A n \in 0 .. Longest : n \in S /\ n + 1 <= Longest => n + 1 \in S
  BY NextStep, Sizes DEF Joins
<1> HIDE DEF S
<1>3. \A n \in 0 .. Longest : n \in S
  BY <1>1, <1>2, Sizes, UpTo
<1> QED
  BY <1>3 DEF S

LEMMA LinksInside ==
  ASSUME NEW held \in Holdings, NEW p \in Products
  PROVE  \A n \in 0 .. Longest : Steps(Links(held), p)[n] \subseteq Products
<1>1. \A e \in Links(held) : e.to \in Products
  BY DEF Links
<1> QED
  BY <1>1, StepsInside

LEMMA LayersAreSteps ==
  ASSUME NEW held \in Holdings, NEW p \in Products
  PROVE  \A n \in 0 .. Longest : Layers(held, p)[n] = Steps(Links(held), p)[n]
<1> DEFINE at == Steps(Links(held), p)
           Solves(f) == f = [n \in 0 .. Longest |-> IF n = 0 THEN {p} ELSE Producers(held, f[n - 1])]
           layer == CHOOSE f : Solves(f)
           own == [n \in 0 .. Longest |-> at[n]]
<1>1. Layers(held, p) = layer
  BY DEF Layers, Longest
<1>2. at[0] = {p}
  BY StepsDef
<1>3. \A n \in 1 .. Longest : at[n] = Producers(held, at[n - 1])
  <2> SUFFICES ASSUME NEW n \in 1 .. Longest PROVE at[n] = Producers(held, at[n - 1])
    OBVIOUS
  <2>1. n - 1 \in 0 .. Longest
    BY Sizes
  <2>2. at[n - 1] \in SUBSET Products
    BY <2>1, LinksInside
  <2>3. at[n] = {e.to : e \in {g \in Links(held) : g.from \in at[n - 1]}}
    BY StepsDef
  <2> HIDE DEF at
  <2> QED
    BY <2>2, <2>3, ProducersJoined
<1> HIDE DEF at
<1>4. \A n \in 0 .. Longest : own[n] = IF n = 0 THEN {p} ELSE Producers(held, own[n - 1])
  <2> SUFFICES ASSUME NEW n \in 0 .. Longest PROVE own[n] = IF n = 0 THEN {p} ELSE Producers(held, own[n - 1])
    OBVIOUS
  <2>1. n # 0 => n \in 1 .. Longest /\ n - 1 \in 0 .. Longest
    BY Sizes
  <2>2. n # 0 => own[n - 1] = at[n - 1] /\ own[n] = at[n]
    BY <2>1
  <2> QED
    BY <1>2, <1>3, <2>1, <2>2
<1>5. own = [n \in 0 .. Longest |-> own[n]]
  OBVIOUS
<1> HIDE DEF own
<1>6. Solves(own)
  BY <1>4, <1>5
<1>7. Solves(layer)
  <2> HIDE DEF Solves
  <2> QED
    BY <1>6
<1>8. \A n \in 0 .. Longest : layer[n] = IF n = 0 THEN {p} ELSE Producers(held, layer[n - 1])
  <2> HIDE DEF layer
  <2> QED
    BY <1>7
<1> HIDE DEF layer, Solves
<1> DEFINE S == {n \in 0 .. Longest : layer[n] = at[n]}
<1>9. 0 \in S
  <2>1. 0 \in 0 .. Longest
    BY Sizes
  <2> QED
    BY <1>2, <1>8, <2>1
<1>10. \A n \in 0 .. Longest : n \in S /\ n + 1 <= Longest => n + 1 \in S
  <2> SUFFICES ASSUME NEW n \in 0 .. Longest, n \in S, n + 1 <= Longest PROVE layer[n + 1] = at[n + 1]
    BY Sizes
  <2>1. n + 1 \in 1 .. Longest /\ n + 1 \in 0 .. Longest /\ n + 1 # 0 /\ (n + 1) - 1 = n
    BY Sizes
  <2>2. layer[n + 1] = Producers(held, layer[n])
    BY <1>8, <2>1
  <2>3. at[n + 1] = Producers(held, at[n])
    BY <1>3, <2>1
  <2> QED
    BY <2>2, <2>3
<1>11. \A n \in 0 .. Longest : n \in S
  <2> HIDE DEF S
  <2> QED
    BY <1>9, <1>10, Sizes, UpTo
<1> QED
  BY <1>1, <1>11 DEF at

(* The graph is what is reached along links. *)
LEMMA GraphReached ==
  ASSUME NEW held \in Holdings, NEW p \in Products
  PROVE  /\ \A q : q \in Graph(held, p) <=> \E n \in 0 .. Cardinality(Products) : q \in Steps(Links(held), p)[n]
         /\ Graph(held, p) \in SUBSET Products
<1>1. \A n \in 0 .. Cardinality(Products) : n \in 0 .. Longest
  BY Sizes
<1>2. \A n \in 0 .. Cardinality(Products) : Layers(held, p)[n] = Steps(Links(held), p)[n]
  BY <1>1, LayersAreSteps
<1>3. Steps(Links(held), p)[0] = {p}
  BY StepsDef
<1>4. \A n : n \in 0 .. Cardinality(Products) <=> n = 0 \/ n \in 1 .. Cardinality(Products)
  BY Sizes
<1>5. \A q : q \in Graph(held, p) <=> \E n \in 0 .. Cardinality(Products) : q \in Steps(Links(held), p)[n]
  BY <1>2, <1>3, <1>4 DEF Graph, Upstream
<1> QED
  BY <1>1, <1>5, LinksInside

(* Reading one more product takes no link away. *)
Extends(old, new) == \A q \in Products : old[q] # None => new[q] = old[q]

LEMMA LinksGrow ==
  ASSUME NEW old \in Holdings, NEW new \in Holdings, Extends(old, new), NEW p \in Products
  PROVE  /\ \A q, x : Joins(Links(old), q, x) => Joins(Links(new), q, x)
         /\ \A n \in 0 .. Longest : Layers(old, p)[n] \subseteq Layers(new, p)[n]
         /\ Graph(old, p) \subseteq Graph(new, p)
<1>1. \A q, x : Joins(Links(old), q, x) => Joins(Links(new), q, x)
  <2> SUFFICES ASSUME NEW q \in Products, NEW x \in Products, Draws(old, q, x) PROVE Draws(new, q, x)
    BY LinksJoin
  <2>1. DOMAIN InputsOf(old, q) # {}
    BY DEF Draws
  <2>2. old[q] # None
    BY <2>1 DEF InputsOf
  <2>3. InputsOf(new, q) = InputsOf(old, q)
    BY <2>2 DEF InputsOf, Extends
  <2> QED
    BY <2>3 DEF Draws
<1>2. \A n \in 0 .. Longest : Steps(Links(old), p)[n] \subseteq Steps(Links(new), p)[n]
  BY <1>1, StepsGrow
<1>3. \A n \in 0 .. Longest : Layers(old, p)[n] \subseteq Layers(new, p)[n]
  BY <1>2, LayersAreSteps
<1>4. \A n \in 0 .. Cardinality(Products) : n \in 0 .. Longest
  BY Sizes
<1> QED
  BY <1>1, <1>2, <1>3, <1>4, GraphReached

-----------------------------------------------------------------------------
(* The walk and what its operators do.                                     *)

Frames == [key : Products, left : SUBSET InputPorts]

Walks == [products : Holdings, nodes : [Products -> Observations \cup {None}],
          visited : SUBSET Products, heights : [Products -> Nat],
          issues : SUBSET failures, retained : Nat, edges : Seq(lineageEdge)]

(* The products whose declarations are held, and the edges of a walk. *)
Loaded(w) == {p \in Products : w.products[p] # None}
Listed(w) == {w.edges[i] : i \in DOMAIN w.edges}
Joined(w) == {e \in Listed(w) : e.state = "resolved"}
Ports(w, p) == {w.products[p].spec.inputs[i] : i \in DOMAIN w.products[p].spec.inputs}

(* The products of the active visits of stack s. *)
On(s) == {s[i].key : i \in DOMAIN s}

(* The failures that leave a product attempted and not held. *)
readFailures == {"missing", "unavailable", "invalid", "identity-mismatch", "metadata-limit"}
unread == readFailures \cup {"timeout"}

StoreTyped ==
  /\ world \in Worlds
  /\ store \in [Products -> Objects \cup {None}]
  /\ \A p \in Products : store[p] = None \/ store[p].spec \in Manifests[p]

(* A node of a product that was found. *)
Witnessed(node, spec) ==
  /\ node \in Observations /\ node.state \in observedStates /\ node.version = spec.version
  /\ node.state # "deleting" => validObservation(node.state, node.generation, node.observedGeneration)

LEMMA WalkFields ==
  ASSUME NEW w \in Walks
  PROVE  /\ w.products \in Holdings /\ w.nodes \in [Products -> Observations \cup {None}]
         /\ w.visited \in SUBSET Products /\ w.heights \in [Products -> Nat]
         /\ w.issues \in SUBSET failures /\ w.retained \in Nat /\ w.edges \in Seq(lineageEdge)
  BY DEF Walks

LEMMA IncompleteFacts ==
  ASSUME NEW w \in Walks, NEW reason \in failures
  PROVE  /\ incomplete(w, reason) \in Walks
         /\ incomplete(w, reason).issues = w.issues \cup {reason}
         /\ incomplete(w, reason).products = w.products /\ incomplete(w, reason).nodes = w.nodes
         /\ incomplete(w, reason).visited = w.visited /\ incomplete(w, reason).heights = w.heights
         /\ incomplete(w, reason).retained = w.retained /\ incomplete(w, reason).edges = w.edges
  BY DEF Walks, incomplete

LEMMA TallerFacts ==
  ASSUME NEW w \in Walks, NEW key \in Products, NEW child \in Products
  PROVE  /\ Taller(w, key, child) \in Walks
         /\ Taller(w, key, child).issues = w.issues
         /\ Taller(w, key, child).products = w.products /\ Taller(w, key, child).nodes = w.nodes
         /\ Taller(w, key, child).visited = w.visited
         /\ Taller(w, key, child).retained = w.retained /\ Taller(w, key, child).edges = w.edges
         /\ \A p \in Products \ {key} : Taller(w, key, child).heights[p] = w.heights[p]
         /\ Taller(w, key, child).heights[key] = IF w.heights[key] > w.heights[child]
                                                 THEN w.heights[key] ELSE 1 + w.heights[child]
<1> DEFINE h == IF w.heights[key] > w.heights[child] THEN w.heights[key] ELSE 1 + w.heights[child]
<1>1. w.heights \in [Products -> Nat] /\ h \in Nat
  BY DEF Walks
<1>2. Taller(w, key, child) = [w EXCEPT !.heights = [w.heights EXCEPT ![key] = h]]
  BY <1>1 DEF Taller, Walks
<1>3. [w.heights EXCEPT ![key] = h] \in [Products -> Nat]
  BY <1>1
<1> HIDE DEF h
<1>4. /\ Taller(w, key, child) \in Walks
      /\ Taller(w, key, child).heights = [w.heights EXCEPT ![key] = h]
      /\ Taller(w, key, child).issues = w.issues
      /\ Taller(w, key, child).products = w.products /\ Taller(w, key, child).nodes = w.nodes
      /\ Taller(w, key, child).visited = w.visited
      /\ Taller(w, key, child).retained = w.retained /\ Taller(w, key, child).edges = w.edges
  BY <1>2, <1>3 DEF Walks
<1> QED
  BY <1>1, <1>4 DEF h

LEMMA TopFrame ==
  ASSUME stack \in Seq(Frames), stack # <<>>
  PROVE  /\ Len(stack) \in DOMAIN stack /\ Len(stack) \in Nat \ {0}
         /\ frame \in Frames /\ frame = stack[Len(stack)]
         /\ frame.key \in Products /\ frame.left \in SUBSET InputPorts
<1>1. Len(stack) \in Nat /\ DOMAIN stack = 1 .. Len(stack) /\ Len(stack) # 0
  BY EmptySeq, LenProperties
<1>2. Len(stack) \in DOMAIN stack
  BY <1>1
<1>3. frame \in Frames
  BY <1>1, <1>2 DEF frame
<1> QED
  BY <1>1, <1>2, <1>3 DEF frame, Frames

LEMMA InputFacts ==
  ASSUME stack \in Seq(Frames), stack # <<>>, frame.left # {}
  PROVE  /\ input \in frame.left /\ input \in InputPorts
         /\ input.name \in Nat /\ input.ref \in Products /\ input.foreign \in BOOLEAN
         /\ input.contract \in Contracts \cup {None}
<1>1. frame.left \in SUBSET InputPorts
  BY TopFrame
<1> DEFINE names == {i.name : i \in frame.left}
<1>2. names \in SUBSET Nat /\ names # {}
  BY <1>1 DEF InputPorts
<1>3. PICK m \in names : \A k \in names : m <= k
  <2> HIDE DEF names
  <2> QED
    BY <1>2, LeastNat
<1>4. \E i \in frame.left : \A j \in frame.left : i.name <= j.name
  BY <1>3
<1>5. input \in frame.left
  BY <1>4 DEF input
<1> QED
  BY <1>1, <1>5 DEF InputPorts

(* The edge a step appends. *)
LEMMA WithEdgeFacts ==
  ASSUME stack \in Seq(Frames), stack # <<>>, frame.left # {}, NEW w \in Walks,
         NEW state \in failures \cup {"resolved"}, NEW fit \in compatibilities
  PROVE  /\ WithEdge(w, state, fit) \in Walks
         /\ WithEdge(w, state, fit).issues = w.issues
         /\ WithEdge(w, state, fit).products = w.products /\ WithEdge(w, state, fit).nodes = w.nodes
         /\ WithEdge(w, state, fit).visited = w.visited /\ WithEdge(w, state, fit).heights = w.heights
         /\ WithEdge(w, state, fit).retained = w.retained
         /\ \E e \in lineageEdge :
              /\ WithEdge(w, state, fit).edges = Append(w.edges, e)
              /\ e.from = frame.key /\ e.to = input.ref /\ e.foreign = input.foreign
              /\ e.input = input.name /\ e.depth = Len(stack) /\ e.requirement = input.contract
              /\ e.state = state /\ e.compatibility = fit
<1> DEFINE e == [from |-> frame.key, to |-> input.ref, foreign |-> input.foreign,
                 input |-> input.name, depth |-> Len(stack), state |-> state,
                 compatibility |-> fit, requirement |-> input.contract]
<1>1. e \in lineageEdge
  BY TopFrame, InputFacts DEF lineageEdge
<1>2. /\ e.from = frame.key /\ e.to = input.ref /\ e.foreign = input.foreign
      /\ e.input = input.name /\ e.depth = Len(stack) /\ e.requirement = input.contract
      /\ e.state = state /\ e.compatibility = fit
  OBVIOUS
<1>3. WithEdge(w, state, fit) = [w EXCEPT !.edges = Append(w.edges, e)]
  BY DEF WithEdge, Walks
<1> HIDE DEF e
<1>4. Append(w.edges, e) \in Seq(lineageEdge)
  BY <1>1, WalkFields, AppendProperties
<1> QED
  BY <1>1, <1>2, <1>3, <1>4 DEF Walks

(* The three verdicts on a contract. *)
LEMMA CompatibilityFacts ==
  ASSUME NEW port \in InputPorts, NEW object
  PROVE  /\ compatibility(port, object) \in compatibilities \ {"not-evaluated"}
         /\ compatibility(port, object) = "contract-incompatible" => port.contract # None
         /\ compatibility(port, object) = "compatible" /\ port.contract # None =>
              compatibleVersion(object.spec.version, port.contract.minimumVersion)
<1> DEFINE answer == inputCompatibility(port, object)
           Fits == compatibleVersion(object.spec.version, port.contract.minimumVersion)
<1>1. \/ answer = "OutputNotFound"
      \/ answer = "" /\ (port.contract # None => Fits)
      \/ answer = "ContractIncompatible" /\ port.contract # None
  BY Zenon DEF inputCompatibility
<1>2. compatibility(port, object) =
        CASE answer = "" -> "compatible"
          [] answer = "OutputNotFound" -> "output-missing"
          [] answer = "ContractIncompatible" -> "contract-incompatible"
  BY DEF compatibility
<1> HIDE DEF answer, Fits
<1>3. CASE answer = "OutputNotFound"
  <2>1. compatibility(port, object) = "output-missing"
    BY <1>2, <1>3
  <2> QED
    BY <2>1 DEF compatibilities
<1>4. CASE answer = "" /\ (port.contract # None => Fits)
  <2>1. compatibility(port, object) = "compatible"
    BY <1>2, <1>4
  <2> QED
    BY <1>4, <2>1 DEF compatibilities, Fits
<1>5. CASE answer = "ContractIncompatible" /\ port.contract # None
  <2>1. compatibility(port, object) = "contract-incompatible"
    BY <1>2, <1>5
  <2> QED
    BY <1>5, <2>1 DEF compatibilities
<1> QED
  BY <1>1, <1>3, <1>4, <1>5

(* What reading a product leaves behind. *)
Looked(w, n, key, state, moment) ==
  /\ n \in Walks
  /\ n.visited = w.visited /\ n.heights = w.heights /\ n.edges = w.edges
  /\ \A p \in Products \ {key} : n.nodes[p] = w.nodes[p] /\ n.products[p] = w.products[p]
  /\ \/ (* answered from the cache *)
        /\ w.nodes[key] # None /\ n = w /\ state = w.nodes[key].state
     \/ (* not even asked for *)
        /\ w.nodes[key] = None /\ n.nodes = w.nodes /\ n.products = w.products
        /\ n.retained = w.retained /\ n.issues = w.issues \cup {state}
        /\ \/ state = "timeout" /\ moment # "later"
           \/ state = "product-limit" /\ Cardinality(Attempts(w)) >= MaxProducts
     \/ (* asked for in vain *)
        /\ w.nodes[key] = None /\ Cardinality(Attempts(w)) < MaxProducts
        /\ n.nodes[key] = Failed(state) /\ n.products = w.products
        /\ n.retained = w.retained /\ n.issues = w.issues \cup {state}
        /\ state \in readFailures \/ (state = "timeout" /\ moment # "later")
     \/ (* found *)
        /\ w.nodes[key] = None /\ Cardinality(Attempts(w)) < MaxProducts
        /\ n.products[key] # None /\ n.products[key].spec \in Manifests[key]
        /\ Witnessed(n.nodes[key], n.products[key].spec) /\ state = n.nodes[key].state
        /\ n.retained <= MaxMetadata /\ n.issues = w.issues

(* A product the reader returns makes a node the browser can make sense of. *)
LEMMA NodeWitnessed ==
  ASSUME NEW o \in Objects
  PROVE  Witnessed([state |-> readinessState(o), generation |-> portableDescriptorFor(o).generation,
                    observedGeneration |-> portableDescriptorFor(o).observedGeneration,
                    version |-> o.spec.version], o.spec)
<1> DEFINE condition == o.status.ready
           seen == IF condition # None THEN condition.observedGeneration ELSE 0
           health == IF condition = None THEN "unobserved"
                     ELSE IF condition.observedGeneration # o.generation THEN "stale"
                     ELSE IF condition.ok THEN "ready"
                     ELSE IF disabledCondition("ready", condition.reason) THEN "disabled" ELSE "not-ready"
           node == [state |-> readinessState(o), generation |-> portableDescriptorFor(o).generation,
                    observedGeneration |-> portableDescriptorFor(o).observedGeneration,
                    version |-> o.spec.version]
<1>1. publicHealth(o, "ready", TRUE) =
        [state |-> health, generation |-> o.generation, observedGeneration |-> seen]
  BY DEF publicHealth
<1>2. /\ publicHealth(o, "ready", TRUE).state = health
      /\ publicHealth(o, "ready", TRUE).observedGeneration = seen
  <2> DEFINE aggregate == publicHealth(o, "ready", TRUE)
  <2>1. aggregate = [state |-> health, generation |-> o.generation, observedGeneration |-> seen]
    BY <1>1
  <2> HIDE DEF health, seen, aggregate
  <2>2. aggregate.state = health /\ aggregate.observedGeneration = seen
    BY <2>1
  <2> QED
    BY <2>2 DEF aggregate
<1>3. /\ portableDescriptorFor(o).generation = o.generation
      /\ portableDescriptorFor(o).observedGeneration = seen
      /\ ~o.deleting => portableDescriptorFor(o).readiness = health
  BY <1>2 DEF portableDescriptorFor
<1>4. /\ readinessState(o) = IF o.deleting THEN "deleting" ELSE health
      /\ o.generation \in Nat /\ seen \in Nat /\ o.spec.version \in Versions
  <2>1. o.generation \in Nat /\ o.status \in Statuses /\ o.spec \in Specs
    BY DEF Objects
  <2>2. o.spec.version \in Versions
    BY <2>1 DEF Specs
  <2>3. condition = None \/ condition \in Conditions
    BY <2>1 DEF Statuses
  <2>4. seen \in Nat
    BY <2>3 DEF Conditions
  <2> QED
    BY <1>3, <2>1, <2>2, <2>4 DEF readinessState
<1>5. /\ health \in observedStates \ {"deleting"}
      /\ validObservation(health, o.generation, seen)
  <2>1. CASE condition = None
    BY <2>1 DEF observedStates, validObservation
  <2>2. CASE condition # None
    BY <2>2 DEF observedStates, validObservation
  <2> QED
    BY <2>1, <2>2
<1>6. /\ node.state = readinessState(o) /\ node.generation = o.generation
      /\ node.observedGeneration = seen /\ node.version = o.spec.version
  BY <1>3
<1>7. node = [state |-> readinessState(o), generation |-> o.generation,
              observedGeneration |-> seen, version |-> o.spec.version]
  BY <1>3
<1> HIDE DEF health, seen, node
<1>8. readinessState(o) \in observedStates
  BY <1>4, <1>5 DEF observedStates
<1>9. node \in Observations
  BY <1>4, <1>7, <1>8 DEF Observations
<1>10. Witnessed(node, o.spec)
  BY <1>4, <1>5, <1>6, <1>8, <1>9 DEF Witnessed
<1> QED
  BY <1>10 DEF node

LEMMA FailedFacts ==
  ASSUME NEW state \in failures
  PROVE  /\ Failed(state) \in Observations /\ Failed(state) # None /\ Failed(state).state = state
         /\ Failed(state).generation = 0 /\ Failed(state).observedGeneration = 0
         /\ Failed(state).version = None
  BY UnreadAssumption DEF Failed, Observations

LEMMA LookupFacts ==
  ASSUME StoreTyped, NEW w \in Walks, NEW key \in Products, NEW moment,
         NEW breakdown \in world.breakdowns \cup {None}, moment # "before",
         w.nodes[key] = None, w.retained <= MaxMetadata, Cardinality(Attempts(w)) < MaxProducts
  PROVE  LET r == lookup(w, key, moment, breakdown) IN Looked(w, r.walk, key, r.state, moment)
<1> DEFINE o == store[key]
           state == found(w, key, moment, breakdown)
           r == lookup(w, key, moment, breakdown)
<1>1. o = None \/ (o \in Objects /\ o.spec \in Manifests[key])
  BY DEF StoreTyped
<1>2. world.breakdowns \in SUBSET {"unavailable", "identity-mismatch"}
  BY TraceAssumption DEF StoreTyped
<1>3. o # None => o.spec \in Specs /\ o.spec.size \in Nat /\ readinessState(o) \in observedStates
  <2> SUFFICES ASSUME o # None PROVE o.spec \in Specs /\ o.spec.size \in Nat /\ readinessState(o) \in observedStates
    OBVIOUS
  <2>1. o \in Objects
    BY <1>1
  <2>2. o.spec \in Specs
    BY <2>1 DEF Objects
  <2>3. readinessState(o) \in observedStates
    BY <2>1, NodeWitnessed DEF Witnessed
  <2> QED
    BY <2>2, <2>3 DEF Specs
<1>4. \/ state \in readFailures
      \/ state = "timeout" /\ moment # "later"
      \/ o # None /\ state = readinessState(o) /\ ~(o.spec.size > MaxMetadata - w.retained)
  BY <1>2 DEF found, readFailures
<1>5. \A x \in readFailures \cup {"timeout"} : x \in failures
  BY DEF readFailures, failures
<1>6. \A x \in observedStates : x \notin failures
  BY DEF observedStates, failures
<1>7. r.state = state
  BY DEF lookup
<1> HIDE DEF state
<1>8. CASE state \in failures
  <2>1. state \in readFailures \/ (state = "timeout" /\ moment # "later")
    BY <1>3, <1>4, <1>6, <1>8
  <2> DEFINE asked == [w EXCEPT !.nodes[key] = Failed(state)]
  <2>2. /\ asked \in Walks /\ asked.nodes = [w.nodes EXCEPT ![key] = Failed(state)]
        /\ asked.products = w.products /\ asked.visited = w.visited /\ asked.heights = w.heights
        /\ asked.issues = w.issues /\ asked.retained = w.retained /\ asked.edges = w.edges
    BY <1>8, FailedFacts DEF Walks
  <2>3. r.walk = incomplete(asked, state)
    BY <1>8 DEF lookup, state
  <2> HIDE DEF asked
  <2>4. /\ r.walk \in Walks /\ r.walk.nodes = asked.nodes /\ r.walk.products = w.products
        /\ r.walk.visited = w.visited /\ r.walk.heights = w.heights /\ r.walk.edges = w.edges
        /\ r.walk.retained = w.retained /\ r.walk.issues = w.issues \cup {state}
    BY <1>8, <2>2, <2>3, IncompleteFacts
  <2>5. /\ r.walk.nodes[key] = Failed(state)
        /\ \A p \in Products \ {key} : r.walk.nodes[p] = w.nodes[p]
    BY <2>2, <2>4, WalkFields
  <2> HIDE DEF r
  <2> QED
    BY <1>7, <2>1, <2>4, <2>5 DEF Looked, r
<1>9. CASE state \notin failures
  <2>1. o # None /\ state = readinessState(o) /\ ~(o.spec.size > MaxMetadata - w.retained)
    BY <1>4, <1>5, <1>9
  <2>2. o \in Objects /\ o.spec \in Manifests[key] /\ o.spec \in Specs /\ o.spec.size \in Nat
    BY <1>1, <1>3, <2>1
  <2> DEFINE node == [state |-> state, generation |-> portableDescriptorFor(o).generation,
                      observedGeneration |-> portableDescriptorFor(o).observedGeneration,
                      version |-> o.spec.version]
             held == [spec |-> o.spec]
             n == [w EXCEPT !.nodes[key] = node, !.products[key] = held, !.retained = @ + o.spec.size]
  <2>3. Witnessed(node, o.spec)
    BY <2>1, <2>2, NodeWitnessed
  <2>4. held \in Declarations /\ held # None /\ held.spec = o.spec
    BY <2>2, UnreadAssumption DEF Declarations
  <2>5. r.walk = n
    BY <1>9 DEF lookup, state
  <2>6. node \in Observations /\ w.retained + o.spec.size \in Nat /\ node.state = state
    BY <2>2, <2>3, WalkFields DEF Witnessed
  <2>7. w.retained + o.spec.size <= MaxMetadata
    BY <2>1, <2>2, WalkFields, TraceAssumption
  <2> HIDE DEF node, held
  <2>8. /\ n \in Walks /\ n.nodes = [w.nodes EXCEPT ![key] = node]
        /\ n.products = [w.products EXCEPT ![key] = held] /\ n.visited = w.visited
        /\ n.heights = w.heights /\ n.edges = w.edges /\ n.issues = w.issues
        /\ n.retained = w.retained + o.spec.size
    BY <2>4, <2>6 DEF Walks, Holdings
  <2> HIDE DEF n
  <2>9. /\ n.nodes[key] = node /\ n.products[key] = held
        /\ \A p \in Products \ {key} : n.nodes[p] = w.nodes[p] /\ n.products[p] = w.products[p]
    BY <2>8, WalkFields DEF Holdings
  <2>10. Witnessed(n.nodes[key], n.products[key].spec)
    BY <2>3, <2>4, <2>9
  <2>11. Looked(w, n, key, state, moment)
    BY <2>2, <2>4, <2>6, <2>7, <2>8, <2>9, <2>10 DEF Looked
  <2> QED
    BY <1>7, <2>5, <2>11
<1> QED
  BY <1>8, <1>9

LEMMA ReadFacts ==
  ASSUME StoreTyped, NEW w \in Walks, NEW key \in Products, NEW moment,
         NEW breakdown \in world.breakdowns \cup {None}, w.retained <= MaxMetadata
  PROVE  LET r == read(w, key, moment, breakdown) IN Looked(w, r.walk, key, r.state, moment)
<1> DEFINE r == read(w, key, moment, breakdown)
<1>1. Cardinality(Attempts(w)) \in Nat /\ MaxProducts \in Nat
  <2>1. IsFiniteSet(Attempts(w))
    BY NamespaceAssumption, FS_Subset DEF Attempts
  <2> QED
    BY <2>1, FS_CardinalityType, LimitsAssumption
<1>2. CASE w.nodes[key] # None
  <2>1. r.walk = w /\ r.state = w.nodes[key].state
    BY <1>2 DEF read, readIf
  <2> QED
    BY <1>2, <2>1 DEF Looked
<1>3. ASSUME w.nodes[key] = None, NEW reason \in {"timeout", "product-limit"},
             r = GivesUp(w, reason),
             \/ reason = "timeout" /\ moment # "later"
             \/ reason = "product-limit" /\ Cardinality(Attempts(w)) >= MaxProducts
      PROVE  Looked(w, r.walk, key, r.state, moment)
  <2>1. r.state = reason /\ r.walk = incomplete(w, reason) /\ reason \in failures
    BY <1>3 DEF GivesUp, failures
  <2> HIDE DEF r
  <2> QED
    BY <1>3, <2>1, IncompleteFacts DEF Looked
<1>4. CASE w.nodes[key] = None /\ moment = "before"
  <2>1. r = GivesUp(w, "timeout")
    BY <1>4 DEF read, readIf
  <2> QED
    BY <1>3, <1>4, <2>1
<1>5. CASE w.nodes[key] = None /\ moment # "before" /\ Cardinality(Attempts(w)) >= MaxProducts
  <2>1. r = GivesUp(w, "product-limit")
    BY <1>5 DEF read, readIf
  <2> QED
    BY <1>3, <1>5, <2>1
<1>6. CASE w.nodes[key] = None /\ moment # "before" /\ ~(Cardinality(Attempts(w)) >= MaxProducts)
  <2>1. r = lookup(w, key, moment, breakdown)
    BY <1>6 DEF read, readIf
  <2>2. Cardinality(Attempts(w)) < MaxProducts
    BY <1>1, <1>6
  <2> QED
    BY <1>6, <2>1, <2>2, LookupFacts
<1> QED
  BY <1>2, <1>4, <1>5, <1>6

-----------------------------------------------------------------------------
(* The invariant, about a walk w from product r with the active visits s.  *)

(* A node tells what was read: of a product that is held its health, of    *)
(* one that is not why it is not.                                          *)
Nodes(w) ==
  /\ \A p \in Loaded(w) : /\ w.products[p].spec \in Manifests[p]
                          /\ Witnessed(w.nodes[p], w.products[p].spec)
  /\ \A p \in Attempts(w) \ Loaded(w) : \E x \in w.issues \cap unread : w.nodes[p] = Failed(x)
  /\ w.visited \subseteq Loaded(w)

Budgets(w) ==
  /\ Cardinality(Attempts(w)) <= MaxProducts
  /\ Len(w.edges) <= MaxEdges
  /\ w.retained <= MaxMetadata

(* The active visits: one of each product, each begun over a resolved edge *)
(* from the one before; what a visit has still to look at is not listed,   *)
(* and what it has listed carries its depth.                               *)
Visit(w, f, depth) ==
  /\ f.key \notin w.visited /\ f.key \in Loaded(w)
  /\ f.left \subseteq Ports(w, f.key)
  /\ \A e \in Listed(w) : e.from = f.key => /\ e.depth = depth
                                            /\ \A i \in f.left : e.input # i.name

Stacked(r, w, s) ==
  /\ Len(s) <= MaxDepth
  /\ s # <<>> => s[1].key = r
  /\ \A i, j \in DOMAIN s : s[i].key = s[j].key => i = j
  /\ \A j \in DOMAIN s : Visit(w, s[j], j)
  /\ \A j \in DOMAIN s : j + 1 \in DOMAIN s => Joins(Joined(w), s[j].key, s[j + 1].key)

(* What an edge says is so, and stays so. *)
Placed(r, w, e) ==
  /\ e.depth \in 1 .. MaxDepth /\ e.depth <= Cardinality(Products)
  /\ e.from = r => e.depth = 1
  /\ e.depth = MaxDepth => e.state \in {"depth-limit", "cross-namespace"}
  /\ e.from \in Steps(Joined(w), r)[e.depth - 1]
  /\ e.state = "cycle" => e.from \in Reached(Joined(w), e.to)

Stated(w, e) ==
  /\ e.state = "resolved" => e.to \in Loaded(w) /\ ~e.foreign /\ e.compatibility # "not-evaluated"
  /\ e.state # "resolved" => e.state \in w.issues
  /\ e.state = "cross-namespace" <=> e.foreign
  /\ e.state \in readFailures \cup {"product-limit", "cross-namespace"}
       => e.compatibility = "not-evaluated"
  /\ e.state \in readFailures => w.nodes[e.to] = Failed(e.state)
  /\ e.state = "product-limit" => w.nodes[e.to] = None /\ Cardinality(Attempts(w)) >= MaxProducts
  /\ e.state = "timeout" => \/ w.nodes[e.to] = None \/ w.nodes[e.to] = Failed("timeout")
                            \/ e.to \in Loaded(w)
  /\ e.compatibility = "contract-incompatible" => e.requirement # None
  /\ e.compatibility = "compatible" /\ e.requirement # None =>
       /\ e.to \in Loaded(w)
       /\ compatibleVersion(w.products[e.to].spec.version, e.requirement.minimumVersion)

(* The edge lists one of the inputs of the product it comes from. *)
Lists(w, e) ==
  \E i \in Ports(w, e.from) : /\ e.to = i.ref /\ e.foreign = i.foreign
                              /\ e.input = i.name /\ e.requirement = i.contract

Edged(r, w, s) ==
  /\ \A i, j \in DOMAIN w.edges :
       w.edges[i].from = w.edges[j].from /\ w.edges[i].input = w.edges[j].input => i = j
  /\ \A e, f \in Listed(w) : e.from = f.from => e.depth = f.depth
  /\ \A e \in Listed(w) : /\ e.from \in Loaded(w) /\ e.from \in w.visited \cup On(s)
                          /\ Lists(w, e) /\ Placed(r, w, e) /\ Stated(w, e)

(* Heights fall along resolved edges, once the visit of the producer is over. *)
Falling(w, s) ==
  \A e \in Joined(w) :
    \/ e.to \in w.visited /\ w.heights[e.to] < w.heights[e.from]
    \/ \E j \in DOMAIN s : j + 1 \in DOMAIN s /\ s[j].key = e.from /\ s[j + 1].key = e.to

(* What was asked for was asked for along an edge. *)
Hanging(r, w) == \A p \in Attempts(w) : p = r \/ \E e \in Listed(w) : e.to = p /\ ~e.foreign

(* A height is the length of a path the products really have. *)
Realised(w) ==
  \A p \in Products : \A n \in 0 .. Longest : n <= w.heights[p] => Layers(w.products, p)[n] # {}

Flat(w, s) == \A p \in Products : p \notin w.visited \cup On(s) => w.heights[p] = 0

(* The inputs of what is held. *)
InputNames(w) == UNION {{<<p, i.name>> : i \in Ports(w, p)} : p \in Loaded(w)}

(* What makes an issue one the products really have. *)
Real(r, w, late, x) ==
  /\ x = "cycle" => Cyclic(w.products, r)
  /\ x = "depth-limit" => Layers(w.products, r)[MaxDepth] # {}
  /\ x = "product-limit" => Cardinality(Graph(w.products, r)) > MaxProducts
  /\ x = "edge-limit" => Cardinality(InputNames(w)) > MaxEdges
  /\ x = "timeout" => late
  /\ x = "cross-namespace" => \E e \in Listed(w) : e.foreign
  /\ x \in readFailures => \E p \in Attempts(w) : w.products[p] = None

(* While nothing is amiss, every input is listed or still to be looked at, *)
(* and the heights of the active visits leave room below the limit.        *)
Whole(r, w, s) ==
  w.issues = {} =>
    /\ \A p \in Loaded(w) : \A i \in Ports(w, p) :
         \/ \E e \in Listed(w) : e.from = p /\ e.input = i.name
         \/ \E j \in DOMAIN s : s[j].key = p /\ i \in s[j].left
    /\ \A j \in DOMAIN s : j + w.heights[s[j].key] <= MaxDepth
    /\ s = <<>> => w.heights[r] < MaxDepth

Walking(r, w, s, late) ==
  /\ w \in Walks /\ s \in Seq(Frames)
  /\ Nodes(w) /\ Budgets(w) /\ Stacked(r, w, s) /\ Edged(r, w, s) /\ Falling(w, s)
  /\ Hanging(r, w) /\ Realised(w) /\ Flat(w, s) /\ Whole(r, w, s)
  /\ \A x \in w.issues : Real(r, w, late, x)

-----------------------------------------------------------------------------
(* What a step leaves alone.                                               *)

LEMMA AttemptsCounted ==
  ASSUME NEW w
  PROVE  IsFiniteSet(Attempts(w)) /\ Cardinality(Attempts(w)) \in Nat
<1>1. IsFiniteSet(Attempts(w))
  BY NamespaceAssumption, FS_Subset DEF Attempts
<1> QED
  BY <1>1, FS_CardinalityType

LEMMA LoadedAttempted ==
  ASSUME NEW w, Nodes(w)
  PROVE  Loaded(w) \subseteq Attempts(w)
<1>1. \A p \in Loaded(w) : w.nodes[p] \in Observations
  BY DEF Nodes, Witnessed
<1> QED
  BY <1>1, UnreadAssumption DEF Loaded, Attempts

(* The walk goes on: what was read stays, and nothing is read once the     *)
(* budget is spent or the deadline has passed.                             *)
Grown(w, n) ==
  /\ \A p \in Attempts(w) : n.nodes[p] = w.nodes[p] /\ n.products[p] = w.products[p]
  /\ n.nodes = w.nodes \/ (Cardinality(Attempts(w)) < MaxProducts /\ "timeout" \notin w.issues)
  /\ w.issues \subseteq n.issues /\ w.visited \subseteq n.visited /\ Listed(w) \subseteq Listed(n)

LEMMA GrownFacts ==
  ASSUME NEW w \in Walks, NEW n \in Walks, Nodes(w), Grown(w, n)
  PROVE  /\ Attempts(w) \subseteq Attempts(n) /\ Loaded(w) \subseteq Loaded(n)
         /\ \A p \in Loaded(w) : n.products[p] = w.products[p] /\ Ports(n, p) = Ports(w, p)
         /\ Joined(w) \subseteq Joined(n) /\ Extends(w.products, n.products)
         /\ \A q, x : Joins(Joined(w), q, x) => Joins(Joined(n), q, x)
<1>1. Loaded(w) \subseteq Attempts(w)
  BY LoadedAttempted
<1>2. \A p \in Loaded(w) : n.products[p] = w.products[p]
  BY <1>1 DEF Grown
<1>3. Attempts(w) \subseteq Attempts(n)
  BY DEF Attempts, Grown
<1>4. Joined(w) \subseteq Joined(n)
  BY DEF Joined, Grown
<1> QED
  BY <1>2, <1>3, <1>4 DEF Loaded, Ports, Extends, Joins

LEMMA InputNamesFinite ==
  ASSUME NEW w \in Walks
  PROVE  IsFiniteSet(InputNames(w)) /\ Cardinality(InputNames(w)) \in Nat
<1> DEFINE Of(p) == {<<p, i.name>> : i \in Ports(w, p)}
<1>1. IsFiniteSet(Loaded(w))
  BY NamespaceAssumption, FS_Subset DEF Loaded
<1>2. \A p \in Loaded(w) : IsFiniteSet(Of(p))
  <2> SUFFICES ASSUME NEW p \in Loaded(w) PROVE IsFiniteSet(Of(p))
    OBVIOUS
  <2> DEFINE inputs == w.products[p].spec.inputs
             name == [i \in DOMAIN inputs |-> <<p, inputs[i].name>>]
  <2>1. inputs \in Seq(InputPorts)
    BY WalkFields DEF Loaded, Holdings, Declarations, Specs
  <2>2. IsFiniteSet(DOMAIN inputs)
    <3> HIDE DEF inputs
    <3>1. DOMAIN inputs = 1 .. Len(inputs) /\ Len(inputs) \in Int /\ 1 \in Int
      BY <2>1, LenProperties
    <3>2. IsFiniteSet(1 .. Len(inputs))
      BY <3>1, FS_Interval
    <3> QED
      BY <3>1, <3>2
  <2>3. Of(p) = {name[i] : i \in DOMAIN inputs}
    BY DEF Ports
  <2>4. IsFiniteSet({name[i] : i \in DOMAIN inputs})
    <3> DEFINE D == DOMAIN inputs
               R == {name[i] : i \in D}
    <3>1. name \in Surjection(D, R)
      BY DEF Surjection
    <3>2. IsFiniteSet(D)
      BY <2>2
    <3> HIDE DEF D, R, name
    <3>3. IsFiniteSet(R)
      BY <3>1, <3>2, FS_Surjection
    <3> QED
      BY <3>3 DEF D, R
  <2> QED
    BY <2>3, <2>4
<1> DEFINE all == {Of(p) : p \in Loaded(w)}
<1>3. IsFiniteSet(all)
  <2> DEFINE of == [p \in Loaded(w) |-> Of(p)]
  <2>1. of \in Surjection(Loaded(w), all)
    BY DEF Surjection
  <2> HIDE DEF of, all
  <2> QED
    BY <1>1, <2>1, FS_Surjection
<1>4. \A A \in all : IsFiniteSet(A)
  BY <1>2
<1>5. IsFiniteSet(UNION all)
  <2> HIDE DEF all
  <2> QED
    BY <1>3, <1>4, FS_UNION
<1>6. InputNames(w) = UNION all
  BY DEF InputNames
<1> QED
  BY <1>5, <1>6, FS_CardinalityType

(* An issue the products have stays one. *)
LEMMA RealStays ==
  ASSUME NEW r \in Products, NEW w \in Walks, NEW n \in Walks, Nodes(w), Nodes(n), Grown(w, n),
         NEW late \in BOOLEAN, NEW later \in BOOLEAN, late => later, NEW x, Real(r, w, late, x)
  PROVE  Real(r, n, later, x)
<1>1. w.products \in Holdings /\ n.products \in Holdings /\ Extends(w.products, n.products)
  BY WalkFields, GrownFacts
<1>2. /\ \A k \in 0 .. Longest : Layers(w.products, r)[k] \subseteq Layers(n.products, r)[k]
      /\ Graph(w.products, r) \subseteq Graph(n.products, r)
  BY <1>1, LinksGrow
<1>3. Cardinality(Products) \in 0 .. Longest /\ MaxDepth \in 0 .. Longest
  BY Sizes
<1>4. x = "cycle" => Cyclic(n.products, r)
  BY <1>2, <1>3 DEF Real, Cyclic
<1>5. x = "depth-limit" => Layers(n.products, r)[MaxDepth] # {}
  BY <1>2, <1>3 DEF Real
<1>6. x = "product-limit" => Cardinality(Graph(n.products, r)) > MaxProducts
  <2>1. Graph(n.products, r) \in SUBSET Products
    BY <1>1, GraphReached
  <2>2. IsFiniteSet(Graph(n.products, r))
    BY <2>1, NamespaceAssumption, FS_Subset
  <2>3. /\ Cardinality(Graph(w.products, r)) <= Cardinality(Graph(n.products, r))
        /\ IsFiniteSet(Graph(w.products, r))
    BY <1>2, <2>2, FS_Subset
  <2>4. Cardinality(Graph(w.products, r)) \in Nat /\ Cardinality(Graph(n.products, r)) \in Nat
    BY <2>2, <2>3, FS_CardinalityType
  <2>5. MaxProducts \in Nat
    BY LimitsAssumption
  <2> QED
    BY <2>3, <2>4, <2>5 DEF Real
<1>7. x = "edge-limit" => Cardinality(InputNames(n)) > MaxEdges
  <2>1. InputNames(w) \subseteq InputNames(n)
    BY GrownFacts DEF InputNames
  <2>2. Cardinality(InputNames(w)) <= Cardinality(InputNames(n))
    BY <2>1, InputNamesFinite, FS_Subset
  <2>3. Cardinality(InputNames(w)) \in Nat /\ Cardinality(InputNames(n)) \in Nat /\ MaxEdges \in Nat
    BY InputNamesFinite, LimitsAssumption
  <2> QED
    BY <2>2, <2>3 DEF Real
<1>8. x = "cross-namespace" => \E e \in Listed(n) : e.foreign
  BY DEF Real, Grown
<1>9. x \in readFailures => \E p \in Attempts(n) : n.products[p] = None
  <2> SUFFICES ASSUME x \in readFailures PROVE \E p \in Attempts(n) : n.products[p] = None
    OBVIOUS
  <2>1. PICK p \in Attempts(w) : w.products[p] = None
    BY DEF Real
  <2>2. p \in Attempts(n) /\ n.products[p] = None
    BY <2>1, GrownFacts DEF Grown
  <2> QED
    BY <2>2
<1> QED
  BY <1>4, <1>5, <1>6, <1>7, <1>8, <1>9 DEF Real

(* What an edge says stays so. *)
LEMMA EdgeStays ==
  ASSUME NEW r \in Products, NEW w \in Walks, NEW n \in Walks, Nodes(w), Nodes(n), Grown(w, n),
         NEW e \in Listed(w), e.to \in Products, e.from \in Loaded(w),
         Lists(w, e), Placed(r, w, e), Stated(w, e)
  PROVE  Lists(n, e) /\ Placed(r, n, e) /\ Stated(n, e)
<1>1. Lists(n, e)
  BY GrownFacts DEF Lists
<1>2. \A p : \A k \in 0 .. Longest : Steps(Joined(w), p)[k] \subseteq Steps(Joined(n), p)[k]
  BY GrownFacts, StepsGrow
<1>3. Placed(r, n, e)
  <2>1. e.depth - 1 \in 0 .. Longest
    BY Sizes DEF Placed
  <2>2. e.from \in Steps(Joined(n), r)[e.depth - 1]
    BY <1>2, <2>1 DEF Placed
  <2>3. \A k \in 0 .. Cardinality(Products) : k \in 0 .. Longest
    BY Sizes
  <2>4. Reached(Joined(w), e.to) \subseteq Reached(Joined(n), e.to)
    BY <1>2, <2>3 DEF Reached
  <2> QED
    BY <2>2, <2>4 DEF Placed
<1>4. e.state = "product-limit" => n.nodes = w.nodes /\ Attempts(n) = Attempts(w)
  <2> SUFFICES ASSUME e.state = "product-limit" PROVE n.nodes = w.nodes
    BY DEF Attempts
  <2>1. Cardinality(Attempts(w)) >= MaxProducts /\ MaxProducts \in Nat
    BY LimitsAssumption DEF Stated
  <2>2. Cardinality(Attempts(w)) \in Nat
    BY AttemptsCounted
  <2> QED
    BY <2>1, <2>2 DEF Grown
<1>5. e.state = "timeout" => n.nodes = w.nodes
  <2> SUFFICES ASSUME e.state = "timeout" PROVE n.nodes = w.nodes
    OBVIOUS
  <2>1. "timeout" \in w.issues
    BY DEF Stated
  <2> QED
    BY <2>1 DEF Grown
<1>6. e.state \in readFailures => n.nodes[e.to] = Failed(e.state)
  <2> SUFFICES ASSUME e.state \in readFailures PROVE n.nodes[e.to] = Failed(e.state)
    OBVIOUS
  <2>1. w.nodes[e.to] = Failed(e.state) /\ e.state \in failures
    BY DEF Stated, readFailures, failures
  <2>2. w.nodes[e.to] # None
    BY <2>1, FailedFacts
  <2> QED
    BY <2>1, <2>2 DEF Grown, Attempts
<1>7. /\ e.to \in Loaded(w) => e.to \in Loaded(n) /\ n.products[e.to] = w.products[e.to]
      /\ w.issues \subseteq n.issues
  BY GrownFacts DEF Grown
<1>8. Stated(n, e)
  BY <1>4, <1>5, <1>6, <1>7 DEF Stated
<1> QED
  BY <1>1, <1>3, <1>8

-----------------------------------------------------------------------------
(* Paths of the active visits.                                             *)

LEMMA PortLinks ==
  ASSUME NEW w \in Walks, NEW p \in Loaded(w), NEW i \in Ports(w, p), ~i.foreign
  PROVE  Joins(Links(w.products), p, i.ref)
<1>1. w.products \in Holdings /\ p \in Products /\ InputsOf(w.products, p) = w.products[p].spec.inputs
  BY WalkFields DEF Loaded, InputsOf
<1>2. Draws(w.products, p, i.ref)
  BY <1>1 DEF Ports, Draws
<1> QED
  BY <1>1, <1>2, LinksJoin, DrawsInside

LEMMA JoinedLinked ==
  ASSUME NEW r, NEW w \in Walks, NEW s, Edged(r, w, s), NEW q, NEW x, Joins(Joined(w), q, x)
  PROVE  Joins(Links(w.products), q, x)
<1>1. PICK e \in Joined(w) : e.from = q /\ e.to = x
  BY DEF Joins
<1>2. e \in Listed(w) /\ e.state = "resolved"
  BY <1>1 DEF Joined
<1>3. e.from \in Loaded(w) /\ Lists(w, e) /\ Stated(w, e)
  BY <1>2 DEF Edged
<1>4. ~e.foreign
  BY <1>2, <1>3 DEF Stated
<1>5. PICK i \in Ports(w, e.from) : e.to = i.ref /\ e.foreign = i.foreign
  BY <1>3 DEF Lists
<1> QED
  BY <1>1, <1>3, <1>4, <1>5, PortLinks

LEMMA StackPath ==
  ASSUME NEW E, NEW s \in Seq(Frames),
         \A j \in DOMAIN s : j + 1 \in DOMAIN s => Joins(E, s[j].key, s[j + 1].key),
         NEW i \in DOMAIN s
  PROVE  \A k \in 0 .. Longest : i + k \in DOMAIN s => s[i + k].key \in Steps(E, s[i].key)[k]
<1> DEFINE S == {k \in 0 .. Longest : i + k \in DOMAIN s => s[i + k].key \in Steps(E, s[i].key)[k]}
<1>1. DOMAIN s = 1 .. Len(s) /\ Len(s) \in Nat
  BY LenProperties
<1>2. 0 \in S
  <2>1. i + 0 = i /\ 0 \in 0 .. Longest
    BY <1>1, Sizes
  <2> QED
    BY <2>1, StepsDef
<1>3. \A k \in 0 .. Longest : k \in S /\ k + 1 <= Longest => k + 1 \in S
  <2> SUFFICES ASSUME NEW k \in 0 .. Longest, k \in S, k + 1 <= Longest, i + (k + 1) \in DOMAIN s
               PROVE  s[i + (k + 1)].key \in Steps(E, s[i].key)[k + 1]
    BY Sizes
  <2>1. i + k \in DOMAIN s /\ (i + k) + 1 = i + (k + 1)
    BY <1>1
  <2>2. s[i + k].key \in Steps(E, s[i].key)[k] /\ Joins(E, s[i + k].key, s[i + (k + 1)].key)
    BY <2>1
  <2> QED
    BY <2>2, NextStep
<1> HIDE DEF S
<1>4. \A k \in 0 .. Longest : k \in S
  BY <1>2, <1>3, Sizes, UpTo
<1> QED
  BY <1>4 DEF S

LEMMA StackCount ==
  ASSUME NEW r, NEW w, NEW s \in Seq(Frames), Stacked(r, w, s)
  PROVE  /\ Len(s) \in Nat /\ DOMAIN s = 1 .. Len(s) /\ Len(s) <= Cardinality(Products)
         /\ Len(s) <= MaxDepth /\ \A j \in DOMAIN s : s[j].key \in Products /\ s[j] \in Frames
         /\ \A j \in DOMAIN s : s[j].left \in SUBSET InputPorts
<1>1. DOMAIN s = 1 .. Len(s) /\ Len(s) \in Nat
  BY LenProperties
<1>2. \A j \in DOMAIN s : s[j] \in Frames /\ s[j].key \in Products /\ s[j].left \in SUBSET InputPorts
  <2> SUFFICES ASSUME NEW j \in DOMAIN s
               PROVE  s[j] \in Frames /\ s[j].key \in Products /\ s[j].left \in SUBSET InputPorts
    OBVIOUS
  <2>1. s[j] \in Frames
    OBVIOUS
  <2> QED
    BY <2>1 DEF Frames
<1> DEFINE D == 1 .. Len(s)
           f == [j \in D |-> s[j].key]
<1>3. f \in Injection(D, Products)
  <2>1. f \in [D -> Products]
    BY <1>1, <1>2
  <2>2. \A i, j \in D : f[i] = f[j] => i = j
    BY <1>1 DEF Stacked
  <2> QED
    BY <2>1, <2>2 DEF Injection, IsInjective
<1>4. Cardinality(D) <= Cardinality(Products)
  <2> HIDE DEF f, D
  <2> QED
    BY <1>3, NamespaceAssumption, FS_Injection
<1>5. Cardinality(D) = Len(s)
  <2>1. Cardinality(1 .. Len(s)) = IF 1 > Len(s) THEN 0 ELSE Len(s) - 1 + 1
    BY <1>1, FS_Interval
  <2> QED
    BY <1>1, <2>1
<1> QED
  BY <1>1, <1>2, <1>4, <1>5 DEF Stacked

(* Names tell the inputs of a product apart. *)
LEMMA PortNames ==
  ASSUME NEW w, Nodes(w), NEW p \in Loaded(w), NEW i \in Ports(w, p), NEW j \in Ports(w, p),
         i.name = j.name
  PROVE  i = j
<1>1. p \in Products /\ w.products[p].spec \in Manifests[p]
  BY DEF Nodes, Loaded
<1> QED
  BY <1>1, InputNamesAssumption DEF Ports

-----------------------------------------------------------------------------
(* A step that lists one input, and goes on to the next.                   *)

Appends(w, n, e) == n.edges = Append(w.edges, e)

Turn(w, s, n, port, e) ==
  /\ Grown(w, n) /\ Nodes(n) /\ Budgets(n)
  /\ Appends(w, n, e) /\ n.visited = w.visited
  /\ port \in s[Len(s)].left
  /\ e.from = s[Len(s)].key /\ e.to = port.ref /\ e.foreign = port.foreign
  /\ e.input = port.name /\ e.depth = Len(s) /\ e.requirement = port.contract
  /\ \A p \in Products \ {e.from} : n.heights[p] = w.heights[p]
  /\ \A p \in Attempts(n) \ Attempts(w) : ~port.foreign /\ p = port.ref

Shortened(s, t, port) ==
  /\ t \in Seq(Frames) /\ Len(t) = Len(s) /\ DOMAIN t = DOMAIN s
  /\ \A j \in DOMAIN s : /\ t[j].key = s[j].key
                         /\ t[j].left = IF j = Len(s) THEN s[j].left \ {port} ELSE s[j].left

LEMMA TurnListed ==
  ASSUME NEW w \in Walks, NEW n \in Walks, NEW e, Appends(w, n, e)
  PROVE  /\ Listed(n) = Listed(w) \cup {e} /\ Len(n.edges) = Len(w.edges) + 1
         /\ DOMAIN n.edges = DOMAIN w.edges \cup {Len(w.edges) + 1}
         /\ Len(w.edges) + 1 \notin DOMAIN w.edges
         /\ n.edges[Len(w.edges) + 1] = e
         /\ \A k \in DOMAIN w.edges : n.edges[k] = w.edges[k]
<1>1. w.edges \in Seq(lineageEdge)
  BY WalkFields
<1>2. Len(w.edges) \in Nat /\ DOMAIN w.edges = 1 .. Len(w.edges)
  BY <1>1, LenProperties
<1>3. Len(n.edges) = Len(w.edges) + 1 /\ DOMAIN n.edges = 1 .. Len(w.edges) + 1
  BY <1>1, <1>2 DEF Appends
<1>4. n.edges[Len(w.edges) + 1] = e /\ \A k \in 1 .. Len(w.edges) : n.edges[k] = w.edges[k]
  BY <1>1, <1>2 DEF Appends
<1>5. DOMAIN n.edges = DOMAIN w.edges \cup {Len(w.edges) + 1} /\ Len(w.edges) + 1 \notin DOMAIN w.edges
  BY <1>2, <1>3
<1>6. Listed(n) = Listed(w) \cup {e}
  BY <1>2, <1>4, <1>5 DEF Listed
<1> QED
  BY <1>2, <1>3, <1>4, <1>5, <1>6

(* What the invariant says of the visit at the top. *)
LEMMA TopVisit ==
  ASSUME NEW r, NEW w \in Walks, NEW s \in Seq(Frames), s # <<>>, Stacked(r, w, s)
  PROVE  /\ Len(s) \in DOMAIN s /\ Len(s) \in 1 .. MaxDepth /\ Len(s) <= Cardinality(Products)
         /\ s[Len(s)].key \in Loaded(w) /\ s[Len(s)].key \in Products
         /\ s[Len(s)].key \notin w.visited /\ Visit(w, s[Len(s)], Len(s))
         /\ 1 \in DOMAIN s /\ s[1].key = r
<1>1. Len(s) # 0
  BY EmptySeq
<1>2. Len(s) \in DOMAIN s /\ Len(s) \in 1 .. MaxDepth /\ 1 \in DOMAIN s
  BY <1>1, StackCount, Sizes
<1>3. Visit(w, s[Len(s)], Len(s))
  BY <1>2 DEF Stacked
<1> QED
  BY <1>2, <1>3, StackCount DEF Stacked, Visit

LEMMA TurnVisits ==
  ASSUME NEW r, NEW w \in Walks, NEW n \in Walks, NEW s \in Seq(Frames), s # <<>>, NEW t,
         NEW port, NEW e, Nodes(w), Stacked(r, w, s), Turn(w, s, n, port, e), Shortened(s, t, port)
  PROVE  \A j \in DOMAIN s : Visit(n, t[j], j)
<1>1. Listed(n) = Listed(w) \cup {e}
  BY TurnListed DEF Turn
<1> SUFFICES ASSUME NEW j \in DOMAIN s PROVE Visit(n, t[j], j)
  OBVIOUS
<1>2. Visit(w, s[j], j) /\ s[j].key \in Products
  BY StackCount DEF Stacked
<1>3. t[j].key = s[j].key /\ t[j].left \subseteq s[j].left
  BY DEF Shortened
<1>4. /\ t[j].key \notin n.visited /\ t[j].key \in Loaded(n)
      /\ t[j].left \subseteq Ports(n, t[j].key)
  BY <1>2, <1>3, GrownFacts DEF Visit, Turn
<1>5. \A f \in Listed(w) : f.from = t[j].key => f.depth = j /\ \A i \in t[j].left : f.input # i.name
  BY <1>2, <1>3 DEF Visit
<1>6. ASSUME e.from = t[j].key PROVE e.depth = j /\ \A i \in t[j].left : e.input # i.name
  <2>1. j = Len(s)
    <3>1. e.from = s[Len(s)].key
      BY DEF Turn
    <3>2. Len(s) \in DOMAIN s
      BY TopVisit
    <3> QED
      BY <1>3, <1>6, <3>1, <3>2 DEF Stacked
  <2>2. t[j].left = s[j].left \ {port} /\ port \in s[j].left
    BY <2>1 DEF Shortened, Turn
  <2>3. \A i \in s[j].left : i \in Ports(w, s[j].key)
    BY <1>2 DEF Visit
  <2>4. s[j].key \in Loaded(w)
    BY <1>2 DEF Visit
  <2>5. \A i \in t[j].left : port.name # i.name
    BY <2>2, <2>3, <2>4, PortNames
  <2> QED
    BY <2>1, <2>5 DEF Turn
<1> QED
  BY <1>1, <1>4, <1>5, <1>6 DEF Visit

LEMMA TurnStacked ==
  ASSUME NEW r, NEW w \in Walks, NEW n \in Walks, NEW s \in Seq(Frames), s # <<>>, NEW t,
         NEW port, NEW e, Nodes(w), Stacked(r, w, s), Turn(w, s, n, port, e), Shortened(s, t, port)
  PROVE  Stacked(r, n, t)
<1>1. \A j \in DOMAIN t : Visit(n, t[j], j)
  BY TurnVisits DEF Shortened
<1>2. DOMAIN t = DOMAIN s /\ Len(t) = Len(s) /\ \A j \in DOMAIN s : t[j].key = s[j].key
  BY DEF Shortened
<1>3. \A q, x : Joins(Joined(w), q, x) => Joins(Joined(n), q, x)
  BY GrownFacts DEF Turn
<1>4. 1 \in DOMAIN s
  BY TopVisit
<1> QED
  BY <1>1, <1>2, <1>3, <1>4 DEF Stacked

LEMMA TurnEdged ==
  ASSUME NEW r \in Products, NEW w \in Walks, NEW n \in Walks, NEW s \in Seq(Frames), s # <<>>, NEW t,
         NEW port, NEW e, Nodes(w), Stacked(r, w, s), Edged(r, w, s), Turn(w, s, n, port, e),
         On(s) \subseteq On(t), Placed(r, n, e), Stated(n, e)
  PROVE  Edged(r, n, t)
<1>1. Listed(n) = Listed(w) \cup {e}
  BY TurnListed DEF Turn
<1>2. /\ e.from = s[Len(s)].key /\ e.from \in Loaded(w) /\ e.from \in On(s)
      /\ Visit(w, s[Len(s)], Len(s)) /\ port \in s[Len(s)].left
  BY TopVisit DEF Turn, On
<1>3. \A f \in Listed(w) : f.from = e.from => f.depth = e.depth /\ f.input # e.input
  BY <1>2 DEF Visit, Turn
<1>4. \A i, j \in DOMAIN n.edges :
        n.edges[i].from = n.edges[j].from /\ n.edges[i].input = n.edges[j].input => i = j
  <2> DEFINE top == Len(w.edges) + 1
  <2>1. /\ DOMAIN n.edges = DOMAIN w.edges \cup {top} /\ n.edges[top] = e
        /\ \A k \in DOMAIN w.edges : n.edges[k] = w.edges[k] /\ n.edges[k] \in Listed(w)
    BY TurnListed DEF Turn, Listed
  <2> HIDE DEF top
  <2> QED
    BY <1>3, <2>1 DEF Edged
<1>5. \A f, g \in Listed(n) : f.from = g.from => f.depth = g.depth
  BY <1>1, <1>3 DEF Edged
<1>6. Lists(n, e)
  <2>1. port \in Ports(w, e.from)
    BY <1>2 DEF Visit
  <2>2. port \in Ports(n, e.from)
    BY <1>2, <2>1, GrownFacts DEF Turn
  <2> QED
    BY <2>2 DEF Lists, Turn
<1>7. \A f \in Listed(n) : /\ f.from \in Loaded(n) /\ f.from \in n.visited \cup On(t)
                           /\ Lists(n, f) /\ Placed(r, n, f) /\ Stated(n, f)
  <2>1. ASSUME NEW f \in Listed(w)
        PROVE  /\ f.from \in Loaded(n) /\ f.from \in n.visited \cup On(t)
               /\ Lists(n, f) /\ Placed(r, n, f) /\ Stated(n, f)
    <3>1. f \in lineageEdge
      BY WalkFields DEF Listed
    <3>2. f.to \in Products
      BY <3>1 DEF lineageEdge
    <3>3. f.from \in Loaded(w) /\ f.from \in w.visited \cup On(s) /\ Lists(w, f) /\ Placed(r, w, f) /\ Stated(w, f)
      BY DEF Edged
    <3>4. Lists(n, f) /\ Placed(r, n, f) /\ Stated(n, f)
      BY <3>2, <3>3, EdgeStays DEF Turn
    <3> QED
      BY <3>3, <3>4, GrownFacts DEF Turn
  <2>2. e.from \in Loaded(n) /\ e.from \in On(t)
    BY <1>2, GrownFacts DEF Turn
  <2> QED
    BY <1>1, <1>6, <2>1, <2>2
<1> QED
  BY <1>4, <1>5, <1>7 DEF Edged

(* Where the new edge stands. *)
LEMMA TurnPlaced ==
  ASSUME NEW r \in Products, NEW w \in Walks, NEW n \in Walks, NEW s \in Seq(Frames), s # <<>>,
         NEW port, NEW e, Nodes(w), Stacked(r, w, s), Turn(w, s, n, port, e),
         Len(s) = MaxDepth => e.state \in {"depth-limit", "cross-namespace"},
         e.state = "cycle" => port.ref \in On(s)
  PROVE  Placed(r, n, e)
<1>1. /\ Len(s) \in DOMAIN s /\ Len(s) \in 1 .. MaxDepth /\ Len(s) <= Cardinality(Products)
      /\ 1 \in DOMAIN s /\ s[1].key = r
  BY TopVisit
<1>2. e.depth = Len(s) /\ e.from = s[Len(s)].key /\ e.to = port.ref
  BY DEF Turn
<1>3. e.from = r => e.depth = 1
  BY <1>1, <1>2 DEF Stacked
<1>4. \A j \in DOMAIN s : j + 1 \in DOMAIN s => Joins(Joined(n), s[j].key, s[j + 1].key)
  BY GrownFacts DEF Turn, Stacked
<1>5. DOMAIN s = 1 .. Len(s) /\ Len(s) \in Nat
  BY LenProperties
<1>6. ASSUME NEW i \in DOMAIN s
      PROVE  Len(s) - i \in 0 .. Cardinality(Products) /\ e.from \in Steps(Joined(n), s[i].key)[Len(s) - i]
  <2>1. Len(s) - i \in 0 .. Longest /\ i + (Len(s) - i) = Len(s) /\ Len(s) - i \in 0 .. Cardinality(Products)
    <3>1. i \in Nat /\ Len(s) \in Nat /\ 1 <= i /\ i <= Len(s)
      BY <1>5
    <3>2. /\ Cardinality(Products) \in Nat /\ Longest \in Nat
          /\ Cardinality(Products) <= Longest /\ Len(s) <= Cardinality(Products)
      BY <1>1, Sizes
    <3> QED
      BY <3>1, <3>2
  <2>2. i + (Len(s) - i) \in DOMAIN s
    BY <1>1, <2>1
  <2>3. s[i + (Len(s) - i)].key \in Steps(Joined(n), s[i].key)[Len(s) - i]
    BY <1>4, <2>1, <2>2, StackPath
  <2> QED
    BY <1>2, <2>1, <2>3
<1>7. e.from \in Steps(Joined(n), r)[e.depth - 1]
  BY <1>1, <1>2, <1>6
<1>8. e.state = "cycle" => e.from \in Reached(Joined(n), e.to)
  BY <1>2, <1>6 DEF On, Reached
<1> QED
  BY <1>1, <1>2, <1>3, <1>7, <1>8 DEF Placed

LEMMA TurnHanging ==
  ASSUME NEW r, NEW w \in Walks, NEW n \in Walks, NEW s, NEW port, NEW e,
         Hanging(r, w), Turn(w, s, n, port, e)
  PROVE  Hanging(r, n)
<1>1. Listed(n) = Listed(w) \cup {e}
  BY TurnListed DEF Turn
<1>2. \A p \in Attempts(w) : p = r \/ \E f \in Listed(n) : f.to = p /\ ~f.foreign
  BY <1>1 DEF Hanging
<1>3. \A p \in Attempts(n) \ Attempts(w) : e.to = p /\ ~e.foreign
  BY DEF Turn
<1> QED
  BY <1>1, <1>2, <1>3 DEF Hanging

LEMMA TurnFlat ==
  ASSUME NEW w \in Walks, NEW n \in Walks, NEW s \in Seq(Frames), s # <<>>, NEW t, NEW port, NEW e,
         Flat(w, s), Turn(w, s, n, port, e), On(s) \subseteq On(t)
  PROVE  Flat(n, t)
<1>1. e.from \in On(s)
  <2>1. Len(s) \in DOMAIN s
    BY EmptySeq, LenProperties
  <2> QED
    BY <2>1 DEF Turn, On
<1> QED
  BY <1>1 DEF Flat, Turn

(* The height of a product is raised only above one it names. *)
Raised(w, n, p, child) ==
  \/ n.heights[p] = w.heights[p]
  \/ n.heights[p] = 1 + w.heights[child] /\ Joins(Links(n.products), p, child)

LEMMA RaisedRealised ==
  ASSUME NEW w \in Walks, NEW n \in Walks, Nodes(w), Grown(w, n), Realised(w), NEW p \in Products,
         NEW child \in Products, \A q \in Products \ {p} : n.heights[q] = w.heights[q],
         Raised(w, n, p, child)
  PROVE  Realised(n)
<1> SUFFICES ASSUME NEW q \in Products, NEW k \in 0 .. Longest, k <= n.heights[q]
             PROVE  Layers(n.products, q)[k] # {}
  BY DEF Realised
<1>1. n.products \in Holdings /\ w.products \in Holdings /\ Extends(w.products, n.products)
  BY WalkFields, GrownFacts
<1>2. /\ \A y \in Products : \A m \in 0 .. Longest : m <= w.heights[y] => Layers(w.products, y)[m] # {}
      /\ \A y \in Products : \A m \in 0 .. Longest : Layers(w.products, y)[m] \subseteq Layers(n.products, y)[m]
  BY <1>1, LinksGrow DEF Realised
<1>3. CASE n.heights[q] = w.heights[q]
  BY <1>2, <1>3
<1>4. CASE q = p /\ n.heights[p] = 1 + w.heights[child] /\ Joins(Links(n.products), p, child)
  <2>1. w.heights[child] \in Nat
    BY WalkFields
  <2>2. CASE k = 0
    <3>1. Layers(n.products, q)[k] = Steps(Links(n.products), q)[k]
      BY <1>1, LayersAreSteps
    <3>2. Steps(Links(n.products), q)[0] = {q}
      BY StepsDef
    <3> QED
      BY <2>2, <3>1, <3>2
  <2>3. CASE k # 0
    <3>1. k - 1 \in 0 .. Longest /\ (k - 1) + 1 <= Longest /\ (k - 1) + 1 = k /\ k - 1 <= w.heights[child]
      BY <1>4, <2>1, <2>3, Sizes
    <3>2. Layers(n.products, child)[k - 1] # {}
      BY <1>2, <3>1
    <3>3. Steps(Links(n.products), child)[k - 1] # {}
      BY <1>1, <3>1, <3>2, LayersAreSteps
    <3>4. Steps(Links(n.products), child)[k - 1] \subseteq Steps(Links(n.products), q)[(k - 1) + 1]
      BY <1>4, <3>1, FirstStep
    <3> QED
      BY <1>1, <3>1, <3>3, <3>4, LayersAreSteps
  <2> QED
    BY <2>2, <2>3
<1> QED
  BY <1>3, <1>4 DEF Raised

LEMMA TurnFalling ==
  ASSUME NEW r, NEW w \in Walks, NEW n \in Walks, NEW s \in Seq(Frames), s # <<>>, NEW t, NEW port, NEW e,
         Stacked(r, w, s), Falling(w, s), Turn(w, s, n, port, e),
         w.heights[e.from] <= n.heights[e.from],
         DOMAIN s \subseteq DOMAIN t, \A j \in DOMAIN s : t[j].key = s[j].key,
         e.state = "resolved" =>
           \/ port.ref \in w.visited /\ n.heights[port.ref] < n.heights[e.from]
           \/ Len(s) + 1 \in DOMAIN t /\ t[Len(s) + 1].key = port.ref
  PROVE  Falling(n, t)
<1>1. Listed(n) = Listed(w) \cup {e}
  BY TurnListed DEF Turn
<1>2. /\ Len(s) \in DOMAIN s /\ s[Len(s)].key \notin w.visited /\ e.from = s[Len(s)].key
      /\ e.to = port.ref /\ n.visited = w.visited /\ e.from \in Products
  BY TopVisit DEF Turn
<1> SUFFICES ASSUME NEW f \in Joined(n)
             PROVE  \/ f.to \in n.visited /\ n.heights[f.to] < n.heights[f.from]
                    \/ \E j \in DOMAIN t : j + 1 \in DOMAIN t /\ t[j].key = f.from /\ t[j + 1].key = f.to
  BY DEF Falling
<1>3. CASE f = e
  BY <1>2, <1>3 DEF Joined
<1>4. CASE f \in Joined(w)
  <2>1. f \in lineageEdge
    BY <1>4, WalkFields DEF Joined, Listed
  <2>2. f.from \in Products /\ f.to \in Products
    BY <2>1 DEF lineageEdge
  <2>3. CASE f.to \in w.visited /\ w.heights[f.to] < w.heights[f.from]
    <3>1. n.heights[f.to] = w.heights[f.to] /\ w.heights[f.from] <= n.heights[f.from]
      <4>1. f.to # e.from
        BY <1>2, <2>3
      <4>2. f.from = e.from \/ n.heights[f.from] = w.heights[f.from]
        BY <2>2 DEF Turn
      <4>3. w.heights[f.from] \in Nat
        BY <2>2, WalkFields
      <4> QED
        BY <2>2, <4>1, <4>2, <4>3 DEF Turn
    <3>2. /\ w.heights[f.to] \in Nat /\ w.heights[f.from] \in Nat /\ n.heights[f.from] \in Nat
      BY <2>2, WalkFields
    <3> QED
      BY <1>2, <2>3, <3>1, <3>2
  <2>4. CASE \E j \in DOMAIN s : j + 1 \in DOMAIN s /\ s[j].key = f.from /\ s[j + 1].key = f.to
    BY <2>4
  <2> QED
    BY <1>4, <2>3, <2>4 DEF Falling
<1> QED
  BY <1>1, <1>3, <1>4 DEF Joined

(* The inputs still to be looked at, while nothing is amiss. *)
LEMMA TurnWhole ==
  ASSUME NEW r, NEW w \in Walks, NEW n \in Walks, NEW s \in Seq(Frames), s # <<>>, NEW t, NEW port, NEW e,
         Nodes(w), Stacked(r, w, s), Whole(r, w, s), Turn(w, s, n, port, e), Shortened(s, t, port),
         n.issues = {} => Loaded(n) = Loaded(w) /\ Len(s) + n.heights[e.from] <= MaxDepth
  PROVE  Whole(r, n, t)
<1> SUFFICES ASSUME n.issues = {}
             PROVE  /\ \A p \in Loaded(n) : \A i \in Ports(n, p) :
                         \/ \E f \in Listed(n) : f.from = p /\ f.input = i.name
                         \/ \E j \in DOMAIN t : t[j].key = p /\ i \in t[j].left
                    /\ \A j \in DOMAIN t : j + n.heights[t[j].key] <= MaxDepth
                    /\ t # <<>>
  BY DEF Whole
<1>1. Listed(n) = Listed(w) \cup {e}
  BY TurnListed DEF Turn
<1>2. w.issues = {} /\ Loaded(n) = Loaded(w)
  BY DEF Turn, Grown
<1>3. Len(s) \in DOMAIN s /\ e.from = s[Len(s)].key /\ e.input = port.name /\ e.from \in Products
  BY TopVisit DEF Turn
<1>4. ASSUME NEW p \in Loaded(n), NEW i \in Ports(n, p)
      PROVE  \/ \E f \in Listed(n) : f.from = p /\ f.input = i.name
             \/ \E j \in DOMAIN t : t[j].key = p /\ i \in t[j].left
  <2>1. p \in Loaded(w) /\ i \in Ports(w, p)
    BY <1>2, GrownFacts DEF Turn
  <2>2. \/ \E f \in Listed(w) : f.from = p /\ f.input = i.name
        \/ \E j \in DOMAIN s : s[j].key = p /\ i \in s[j].left
    BY <1>2, <2>1 DEF Whole
  <2>3. ASSUME NEW j \in DOMAIN s, s[j].key = p, i \in s[j].left
        PROVE  \/ \E f \in Listed(n) : f.from = p /\ f.input = i.name
               \/ \E k \in DOMAIN t : t[k].key = p /\ i \in t[k].left
    <3>1. CASE j = Len(s) /\ i = port
      BY <1>1, <1>3, <2>3, <3>1
    <3>2. CASE ~(j = Len(s) /\ i = port)
      <4>1. j \in DOMAIN t /\ t[j].key = p /\ i \in t[j].left
        BY <2>3, <3>2 DEF Shortened
      <4> QED
        BY <4>1
    <3> QED
      BY <3>1, <3>2
  <2> QED
    BY <1>1, <2>2, <2>3
<1>5. ASSUME NEW j \in DOMAIN t PROVE j + n.heights[t[j].key] <= MaxDepth
  <2>1. j \in DOMAIN s /\ t[j].key = s[j].key /\ s[j].key \in Products
    BY StackCount DEF Shortened
  <2>2. CASE j = Len(s)
    BY <1>3, <2>1, <2>2
  <2>3. CASE j # Len(s)
    <3>1. s[j].key # e.from
      BY <1>3, <2>1, <2>3 DEF Stacked
    <3>2. n.heights[s[j].key] = w.heights[s[j].key]
      BY <2>1, <3>1 DEF Turn
    <3>3. j + w.heights[s[j].key] <= MaxDepth
      BY <1>2, <2>1 DEF Whole
    <3> QED
      BY <2>1, <3>2, <3>3
  <2> QED
    BY <2>2, <2>3
<1>6. t # <<>>
  BY <1>3, EmptySeq DEF Shortened
<1> QED
  BY <1>4, <1>5, <1>6

-----------------------------------------------------------------------------
(* The step that begins the visit of a producer.                           *)

Entered(n, t, u, key) ==
  /\ u \in Seq(Frames) /\ Len(u) = Len(t) + 1 /\ Len(t) \in Nat
  /\ DOMAIN u = DOMAIN t \cup {Len(t) + 1} /\ Len(t) + 1 \notin DOMAIN t
  /\ DOMAIN t = 1 .. Len(t)
  /\ \A j \in DOMAIN t : u[j] = t[j]
  /\ u[Len(t) + 1].key = key /\ u[Len(t) + 1].left = Ports(n, key)
  /\ On(u) = On(t) \cup {key}

LEMMA EnteredFacts ==
  ASSUME NEW n \in Walks, NEW t \in Seq(Frames), NEW u, NEW key \in Loaded(n),
         u = Append(t, [key |-> key, left |-> Ports(n, key)])
  PROVE  Entered(n, t, u, key)
<1> DEFINE f == [key |-> key, left |-> Ports(n, key)]
<1>1. key \in Products /\ Ports(n, key) \in SUBSET InputPorts
  <2>1. n.products[key].spec.inputs \in Seq(InputPorts)
    BY WalkFields DEF Loaded, Holdings, Declarations, Specs
  <2> QED
    BY <2>1 DEF Ports, Loaded
<1>2. f \in Frames /\ f.key = key /\ f.left = Ports(n, key)
  BY <1>1 DEF Frames
<1>3. u = Append(t, f)
  OBVIOUS
<1> HIDE DEF f
<1>4. Len(t) \in Nat /\ DOMAIN t = 1 .. Len(t)
  BY LenProperties
<1>5. /\ u \in Seq(Frames) /\ Len(u) = Len(t) + 1 /\ DOMAIN u = 1 .. Len(t) + 1
      /\ u[Len(t) + 1] = f /\ \A j \in 1 .. Len(t) : u[j] = t[j]
  BY <1>2, <1>3, <1>4
<1>6. DOMAIN u = DOMAIN t \cup {Len(t) + 1} /\ Len(t) + 1 \notin DOMAIN t
  BY <1>4, <1>5
<1>7. On(u) = On(t) \cup {key}
  BY <1>2, <1>4, <1>5, <1>6 DEF On
<1> QED
  BY <1>2, <1>4, <1>5, <1>6, <1>7 DEF Entered

LEMMA EnterStacked ==
  ASSUME NEW r, NEW w \in Walks, NEW n \in Walks, NEW s \in Seq(Frames), s # <<>>, NEW t, NEW u,
         NEW port, NEW e, Nodes(w), Stacked(r, w, s), Edged(r, w, s), Turn(w, s, n, port, e),
         Shortened(s, t, port), port.ref \in Loaded(n), port.ref \notin w.visited \cup On(s),
         e.state = "resolved", Len(s) < MaxDepth, Entered(n, t, u, port.ref)
  PROVE  Stacked(r, n, u)
<1>1. /\ u \in Seq(Frames) /\ Len(u) = Len(s) + 1 /\ Len(s) \in Nat
      /\ DOMAIN u = DOMAIN s \cup {Len(s) + 1} /\ Len(s) + 1 \notin DOMAIN s /\ DOMAIN s = 1 .. Len(s)
      /\ \A j \in DOMAIN s : u[j] = t[j]
      /\ u[Len(s) + 1].key = port.ref /\ u[Len(s) + 1].left = Ports(n, port.ref)
  <2>1. t \in Seq(Frames) /\ Len(t) = Len(s) /\ DOMAIN t = DOMAIN s
    BY DEF Shortened
  <2>2. /\ u \in Seq(Frames) /\ Len(u) = Len(t) + 1 /\ Len(t) \in Nat
        /\ DOMAIN u = DOMAIN t \cup {Len(t) + 1} /\ Len(t) + 1 \notin DOMAIN t
        /\ DOMAIN t = 1 .. Len(t) /\ \A j \in DOMAIN t : u[j] = t[j]
        /\ u[Len(t) + 1].key = port.ref /\ u[Len(t) + 1].left = Ports(n, port.ref)
    BY DEF Entered
  <2> QED
    BY <2>1, <2>2
<1>2. Stacked(r, n, t) /\ DOMAIN t = DOMAIN s /\ \A j \in DOMAIN s : t[j].key = s[j].key
  BY TurnStacked DEF Shortened
<1>3. /\ Len(s) \in DOMAIN s /\ 1 \in DOMAIN s /\ e.from = s[Len(s)].key /\ e.from \in On(s)
      /\ e.to = port.ref /\ n.visited = w.visited
  BY TopVisit DEF Turn, On
<1>4. Listed(n) = Listed(w) \cup {e}
  BY TurnListed DEF Turn
<1>5. Len(u) <= MaxDepth
  BY <1>1, Sizes
<1>6. u[1].key = r
  BY <1>1, <1>2, <1>3, TopVisit
<1>7. \A j \in DOMAIN s : u[j].key = s[j].key /\ s[j].key # port.ref
  BY <1>1, <1>2 DEF On
<1>8. \A i, j \in DOMAIN u : u[i].key = u[j].key => i = j
  BY <1>1, <1>7 DEF Stacked
<1>9. Visit(n, u[Len(s) + 1], Len(s) + 1)
  <2>1. \A f \in Listed(n) : f.from # port.ref
    BY <1>3, <1>4 DEF Edged
  <2> QED
    BY <1>1, <1>3, <2>1 DEF Visit
<1>10. \A j \in DOMAIN u : Visit(n, u[j], j)
  BY <1>1, <1>2, <1>9 DEF Stacked
<1>11. Joins(Joined(n), s[Len(s)].key, port.ref)
  BY <1>3, <1>4 DEF Joins, Joined
<1>12. ASSUME NEW j \in DOMAIN u, j + 1 \in DOMAIN u PROVE Joins(Joined(n), u[j].key, u[j + 1].key)
  <2>1. CASE j = Len(s)
    BY <1>1, <1>3, <1>7, <1>11, <2>1
  <2>2. CASE j # Len(s)
    <3>1. j \in DOMAIN s /\ j + 1 \in DOMAIN s
      BY <1>1, <1>12, <2>2
    <3> QED
      BY <1>1, <1>2, <3>1 DEF Stacked
  <2> QED
    BY <2>1, <2>2
<1> QED
  BY <1>5, <1>6, <1>8, <1>10, <1>12 DEF Stacked

LEMMA EnterWhole ==
  ASSUME NEW r, NEW w \in Walks, NEW n \in Walks, NEW s \in Seq(Frames), s # <<>>, NEW t, NEW u,
         NEW port, NEW e, Nodes(w), Stacked(r, w, s), Whole(r, w, s), Flat(w, s), Turn(w, s, n, port, e),
         Shortened(s, t, port), port.ref \in Loaded(n), port.ref \notin w.visited \cup On(s),
         n.heights = w.heights, Loaded(n) \subseteq Loaded(w) \cup {port.ref},
         Len(s) < MaxDepth, Entered(n, t, u, port.ref)
  PROVE  Whole(r, n, u)
<1> SUFFICES ASSUME n.issues = {}
             PROVE  /\ \A p \in Loaded(n) : \A i \in Ports(n, p) :
                         \/ \E f \in Listed(n) : f.from = p /\ f.input = i.name
                         \/ \E j \in DOMAIN u : u[j].key = p /\ i \in u[j].left
                    /\ \A j \in DOMAIN u : j + n.heights[u[j].key] <= MaxDepth
                    /\ u # <<>>
  BY DEF Whole
<1>1. /\ u \in Seq(Frames) /\ Len(u) = Len(s) + 1 /\ Len(s) \in Nat
      /\ DOMAIN u = DOMAIN s \cup {Len(s) + 1} /\ Len(s) + 1 \notin DOMAIN s /\ DOMAIN s = 1 .. Len(s)
      /\ \A j \in DOMAIN s : u[j] = t[j]
      /\ u[Len(s) + 1].key = port.ref /\ u[Len(s) + 1].left = Ports(n, port.ref)
  <2>1. t \in Seq(Frames) /\ Len(t) = Len(s) /\ DOMAIN t = DOMAIN s
    BY DEF Shortened
  <2>2. /\ u \in Seq(Frames) /\ Len(u) = Len(t) + 1 /\ Len(t) \in Nat
        /\ DOMAIN u = DOMAIN t \cup {Len(t) + 1} /\ Len(t) + 1 \notin DOMAIN t
        /\ DOMAIN t = 1 .. Len(t) /\ \A j \in DOMAIN t : u[j] = t[j]
        /\ u[Len(t) + 1].key = port.ref /\ u[Len(t) + 1].left = Ports(n, port.ref)
    BY DEF Entered
  <2> QED
    BY <2>1, <2>2
<1>2. Listed(n) = Listed(w) \cup {e}
  BY TurnListed DEF Turn
<1>3. w.issues = {}
  BY DEF Turn, Grown
<1>4. Len(s) \in DOMAIN s /\ e.from = s[Len(s)].key /\ e.input = port.name
  BY TopVisit DEF Turn
<1>5. ASSUME NEW p \in Loaded(n), NEW i \in Ports(n, p)
      PROVE  \/ \E f \in Listed(n) : f.from = p /\ f.input = i.name
             \/ \E j \in DOMAIN u : u[j].key = p /\ i \in u[j].left
  <2>1. CASE p = port.ref
    BY <1>1, <2>1
  <2>2. CASE p # port.ref
    <3>1. p \in Loaded(w) /\ i \in Ports(w, p)
      BY <2>2, GrownFacts DEF Turn
    <3>2. \/ \E f \in Listed(w) : f.from = p /\ f.input = i.name
          \/ \E j \in DOMAIN s : s[j].key = p /\ i \in s[j].left
      BY <1>3, <3>1 DEF Whole
    <3>3. ASSUME NEW j \in DOMAIN s, s[j].key = p, i \in s[j].left
          PROVE  \/ \E f \in Listed(n) : f.from = p /\ f.input = i.name
                 \/ \E k \in DOMAIN u : u[k].key = p /\ i \in u[k].left
      <4>1. CASE j = Len(s) /\ i = port
        BY <1>2, <1>4, <3>3, <4>1
      <4>2. CASE ~(j = Len(s) /\ i = port)
        <5>1. j \in DOMAIN u /\ u[j].key = p /\ i \in u[j].left
          BY <1>1, <3>3, <4>2 DEF Shortened
        <5> QED
          BY <5>1
      <4> QED
        BY <4>1, <4>2
    <3> QED
      BY <1>2, <3>2, <3>3
  <2> QED
    BY <2>1, <2>2
<1>6. ASSUME NEW j \in DOMAIN u PROVE j + n.heights[u[j].key] <= MaxDepth
  <2>1. CASE j = Len(s) + 1
    <3>1. w.heights[port.ref] = 0
      BY DEF Flat, Loaded
    <3> QED
      BY <1>1, <2>1, <3>1, Sizes
  <2>2. CASE j \in DOMAIN s
    <3>1. u[j].key = s[j].key
      BY <1>1, <2>2 DEF Shortened
    <3>2. j + w.heights[s[j].key] <= MaxDepth
      BY <1>3, <2>2 DEF Whole
    <3> QED
      BY <3>1, <3>2
  <2> QED
    BY <1>1, <2>1, <2>2
<1>7. u # <<>>
  BY <1>1, EmptySeq
<1> QED
  BY <1>5, <1>6, <1>7

-----------------------------------------------------------------------------
(* The issues a step records are real.                                     *)

(* What is reached from a product on the way is reached further on. *)
LEMMA StepsThen ==
  ASSUME NEW E, NEW p, NEW a \in 0 .. Longest, NEW x \in Steps(E, p)[a]
  PROVE  \A b \in 0 .. Longest : a + b <= Longest => Steps(E, x)[b] \subseteq Steps(E, p)[a + b]
<1> DEFINE S == {b \in 0 .. Longest : a + b <= Longest => Steps(E, x)[b] \subseteq Steps(E, p)[a + b]}
<1>1. 0 \in S
  <2>1. a + 0 = a /\ 0 \in 0 .. Longest
    BY Sizes
  <2> QED
    BY <2>1, StepsDef
<1>2. \A b \in 0 .. Longest : b \in S /\ b + 1 <= Longest => b + 1 \in S
  <2> SUFFICES ASSUME NEW b \in 0 .. Longest, b \in S, a + (b + 1) <= Longest, b + 1 <= Longest,
                      NEW y \in Steps(E, x)[b + 1]
               PROVE  y \in Steps(E, p)[a + (b + 1)]
    BY Sizes
  <2>1. a + b \in 0 .. Longest /\ (a + b) + 1 <= Longest /\ (a + b) + 1 = a + (b + 1) /\ a + b <= Longest
    BY Sizes
  <2>2. PICK q \in Steps(E, x)[b] : Joins(E, q, y)
    BY NextStep
  <2>3. q \in Steps(E, p)[a + b]
    BY <2>1, <2>2
  <2>4. y \in Steps(E, p)[(a + b) + 1]
    BY <2>1, <2>2, <2>3, NextStep
  <2> QED
    BY <2>1, <2>4
<1> HIDE DEF S
<1>3. \A b \in 0 .. Longest : b \in S
  BY <1>1, <1>2, Sizes, UpTo
<1> QED
  BY <1>3 DEF S

(* A path of links leads from the root to the product being visited, and   *)
(* on to what its input names.                                             *)
LEMMA PathDown ==
  ASSUME NEW r \in Products, NEW w \in Walks, NEW s \in Seq(Frames), s # <<>>, Stacked(r, w, s),
         Edged(r, w, s), NEW port \in Ports(w, s[Len(s)].key), ~port.foreign
  PROVE  /\ port.ref \in Products /\ Joins(Links(w.products), s[Len(s)].key, port.ref)
         /\ port.ref \in Steps(Links(w.products), r)[Len(s)]
         /\ Len(s) \in 0 .. Longest /\ Len(s) \in 0 .. Cardinality(Products)
<1>1. /\ Len(s) \in DOMAIN s /\ Len(s) \in 1 .. MaxDepth /\ Len(s) <= Cardinality(Products)
      /\ 1 \in DOMAIN s /\ s[1].key = r /\ s[Len(s)].key \in Loaded(w)
  BY TopVisit
<1>2. /\ Len(s) - 1 \in 0 .. Longest /\ 1 + (Len(s) - 1) = Len(s) /\ Len(s) \in 0 .. Longest
      /\ Len(s) \in 0 .. Cardinality(Products) /\ (Len(s) - 1) + 1 = Len(s) /\ Len(s) <= Longest
  BY <1>1, Sizes
<1>3. \A j \in DOMAIN s : j + 1 \in DOMAIN s => Joins(Links(w.products), s[j].key, s[j + 1].key)
  BY JoinedLinked DEF Stacked
<1>4. 1 + (Len(s) - 1) \in DOMAIN s
  BY <1>1, <1>2
<1>5. s[1 + (Len(s) - 1)].key \in Steps(Links(w.products), s[1].key)[Len(s) - 1]
  BY <1>1, <1>2, <1>3, <1>4, StackPath
<1>6. s[Len(s)].key \in Steps(Links(w.products), r)[Len(s) - 1]
  BY <1>1, <1>2, <1>5
<1>7. Joins(Links(w.products), s[Len(s)].key, port.ref)
  BY <1>1, PortLinks
<1>8. port.ref \in Steps(Links(w.products), r)[(Len(s) - 1) + 1]
  BY <1>2, <1>6, <1>7, NextStep
<1>9. port.ref \in Products
  BY <1>7, WalkFields, LinksJoin
<1> QED
  BY <1>2, <1>7, <1>8, <1>9

LEMMA RealCycle ==
  ASSUME NEW r \in Products, NEW w \in Walks, NEW s \in Seq(Frames), s # <<>>, Stacked(r, w, s),
         Edged(r, w, s), NEW port \in Ports(w, s[Len(s)].key), ~port.foreign, port.ref \in On(s)
  PROVE  Cyclic(w.products, r)
<1>1. /\ Joins(Links(w.products), s[Len(s)].key, port.ref)
      /\ DOMAIN s = 1 .. Len(s) /\ Len(s) \in Nat /\ 1 \in DOMAIN s /\ s[1].key = r
  BY PathDown, TopVisit, LenProperties
<1>2. \A q \in On(s) : \E x \in On(s) : Joins(Links(w.products), q, x)
  <2> SUFFICES ASSUME NEW j \in DOMAIN s PROVE \E x \in On(s) : Joins(Links(w.products), s[j].key, x)
    BY DEF On
  <2>1. CASE j = Len(s)
    BY <1>1, <2>1
  <2>2. CASE j # Len(s)
    <3>1. j + 1 \in DOMAIN s
      BY <1>1, <2>2
    <3>2. Joins(Links(w.products), s[j].key, s[j + 1].key)
      BY <3>1, JoinedLinked DEF Stacked
    <3> QED
      BY <3>1, <3>2 DEF On
  <2> QED
    BY <2>1, <2>2
<1>3. r \in On(s)
  BY <1>1 DEF On
<1>4. Cardinality(Products) \in 0 .. Longest
  BY Sizes
<1>5. Steps(Links(w.products), r)[Cardinality(Products)] # {}
  BY <1>2, <1>3, <1>4, StepsStay
<1> QED
  BY <1>4, <1>5, WalkFields, LayersAreSteps DEF Cyclic

LEMMA RealDepth ==
  ASSUME NEW r \in Products, NEW w \in Walks, NEW s \in Seq(Frames), s # <<>>, Stacked(r, w, s),
         Edged(r, w, s), Realised(w), NEW port \in Ports(w, s[Len(s)].key), ~port.foreign,
         Len(s) + w.heights[port.ref] >= MaxDepth
  PROVE  Layers(w.products, r)[MaxDepth] # {}
<1>1. /\ port.ref \in Products /\ port.ref \in Steps(Links(w.products), r)[Len(s)]
      /\ Len(s) \in 0 .. Longest
  BY PathDown
<1> DEFINE k == MaxDepth - Len(s)
<1>2. /\ k \in 0 .. Longest /\ Len(s) + k = MaxDepth /\ k <= w.heights[port.ref]
      /\ MaxDepth \in 0 .. Longest /\ MaxDepth <= Longest
  <2>1. Len(s) \in 1 .. MaxDepth /\ w.heights[port.ref] \in Nat
    BY <1>1, TopVisit, WalkFields
  <2> QED
    BY <2>1, Sizes
<1> HIDE DEF k
<1>3. w.products \in Holdings
  BY WalkFields
<1>4. Layers(w.products, port.ref)[k] # {}
  BY <1>1, <1>2 DEF Realised
<1>5. Steps(Links(w.products), port.ref)[k] # {}
  BY <1>1, <1>2, <1>3, <1>4, LayersAreSteps
<1>6. Steps(Links(w.products), port.ref)[k] \subseteq Steps(Links(w.products), r)[Len(s) + k]
  BY <1>1, <1>2, StepsThen
<1>7. Steps(Links(w.products), r)[MaxDepth] # {}
  BY <1>2, <1>5, <1>6
<1> QED
  BY <1>2, <1>3, <1>7, LayersAreSteps

(* Whatever was asked for belongs to the graph of what was read. *)
LEMMA AttemptsInGraph ==
  ASSUME NEW r \in Products, NEW w \in Walks, NEW s, Edged(r, w, s), Hanging(r, w)
  PROVE  Attempts(w) \subseteq Graph(w.products, r)
<1> SUFFICES ASSUME NEW p \in Attempts(w) PROVE p \in Graph(w.products, r)
  OBVIOUS
<1>1. w.products \in Holdings
  BY WalkFields
<1>2. CASE p = r
  BY <1>2 DEF Graph
<1>3. CASE p # r
  <2>1. PICK e \in Listed(w) : e.to = p /\ ~e.foreign
    BY <1>3 DEF Hanging
  <2>2. e.from \in Loaded(w) /\ Lists(w, e) /\ Placed(r, w, e)
    BY DEF Edged
  <2>3. PICK i \in Ports(w, e.from) : e.to = i.ref /\ e.foreign = i.foreign
    BY <2>2 DEF Lists
  <2>4. Joins(Links(w.products), e.from, p)
    BY <2>1, <2>2, <2>3, PortLinks
  <2>5. /\ e.depth - 1 \in 0 .. Longest /\ (e.depth - 1) + 1 = e.depth /\ e.depth <= Longest
        /\ e.depth \in 0 .. Cardinality(Products) /\ e.from \in Steps(Joined(w), r)[e.depth - 1]
    BY <2>2, Sizes DEF Placed
  <2>6. e.from \in Steps(Links(w.products), r)[e.depth - 1]
    BY <2>5, JoinedLinked, StepsGrow
  <2>7. p \in Steps(Links(w.products), r)[(e.depth - 1) + 1]
    BY <2>4, <2>5, <2>6, NextStep
  <2>8. p \in Steps(Links(w.products), r)[e.depth]
    BY <2>5, <2>7
  <2> QED
    BY <1>1, <2>5, <2>8, GraphReached
<1> QED
  BY <1>2, <1>3

LEMMA RealProducts ==
  ASSUME NEW r \in Products, NEW w \in Walks, NEW s \in Seq(Frames), s # <<>>, Stacked(r, w, s),
         Edged(r, w, s), Hanging(r, w), NEW port \in Ports(w, s[Len(s)].key), ~port.foreign,
         w.nodes[port.ref] = None, Cardinality(Attempts(w)) >= MaxProducts
  PROVE  Cardinality(Graph(w.products, r)) > MaxProducts
<1>1. /\ port.ref \in Products /\ port.ref \in Steps(Links(w.products), r)[Len(s)]
      /\ Len(s) \in 0 .. Cardinality(Products)
  BY PathDown
<1>2. w.products \in Holdings
  BY WalkFields
<1>3. port.ref \in Graph(w.products, r) /\ Graph(w.products, r) \in SUBSET Products
  BY <1>1, <1>2, GraphReached
<1>4. port.ref \notin Attempts(w)
  BY DEF Attempts
<1>5. Attempts(w) \cup {port.ref} \subseteq Graph(w.products, r)
  BY <1>3, AttemptsInGraph
<1>6. IsFiniteSet(Graph(w.products, r))
  BY <1>3, NamespaceAssumption, FS_Subset
<1>7. IsFiniteSet(Attempts(w)) /\ Cardinality(Attempts(w)) \in Nat
  BY AttemptsCounted
<1>8. Cardinality(Attempts(w) \cup {port.ref}) = Cardinality(Attempts(w)) + 1
  BY <1>4, <1>7, FS_AddElement
<1>9. Cardinality(Attempts(w) \cup {port.ref}) <= Cardinality(Graph(w.products, r))
  BY <1>5, <1>6, FS_Subset
<1>10. Cardinality(Graph(w.products, r)) \in Nat /\ MaxProducts \in Nat
  BY <1>6, FS_CardinalityType, LimitsAssumption
<1> QED
  BY <1>7, <1>8, <1>9, <1>10

(* The edges list as many inputs as there are edges. *)
LEMMA ListedCounted ==
  ASSUME NEW r, NEW w \in Walks, NEW s, Nodes(w), Edged(r, w, s)
  PROVE  LET pairs == {<<e.from, e.input>> : e \in Listed(w)}
         IN  /\ pairs \subseteq InputNames(w) /\ IsFiniteSet(pairs)
             /\ Cardinality(pairs) = Len(w.edges) /\ Len(w.edges) \in Nat
<1> DEFINE pairs == {<<e.from, e.input>> : e \in Listed(w)}
           D == 1 .. Len(w.edges)
           f == [i \in D |-> <<w.edges[i].from, w.edges[i].input>>]
<1>1. Len(w.edges) \in Nat /\ DOMAIN w.edges = D
  BY WalkFields, LenProperties
<1>2. pairs \subseteq InputNames(w)
  BY DEF Edged, Lists, InputNames
<1>3. IsFiniteSet(pairs)
  BY <1>2, InputNamesFinite, FS_Subset
<1>4. f \in Bijection(D, pairs)
  <2>1. f \in [D -> pairs]
    BY <1>1 DEF Listed
  <2>2. \A i, j \in D : f[i] = f[j] => i = j
    BY <1>1 DEF Edged
  <2>3. \A x \in pairs : \E i \in D : f[i] = x
    BY <1>1 DEF Listed
  <2> HIDE DEF f, D, pairs
  <2>4. f \in Injection(D, pairs)
    BY <2>1, <2>2 DEF Injection, IsInjective
  <2>5. f \in Surjection(D, pairs)
    BY <2>1, <2>3 DEF Surjection
  <2> QED
    BY <2>4, <2>5 DEF Bijection
<1>5. IsFiniteSet(D) /\ Cardinality(D) = Len(w.edges)
  <2> DEFINE n == Len(w.edges)
  <2>1. 1 \in Int /\ n \in Int /\ n \in Nat
    BY <1>1
  <2> HIDE DEF n
  <2>2. IsFiniteSet(1 .. n) /\ Cardinality(1 .. n) = IF 1 > n THEN 0 ELSE n - 1 + 1
    BY <2>1, FS_Interval
  <2>3. Cardinality(1 .. n) = n
    BY <2>1, <2>2
  <2> QED
    BY <2>2, <2>3 DEF n
<1>6. Cardinality(pairs) = Cardinality(D)
  <2> HIDE DEF f, D, pairs
  <2>1. ExistsBijection(D, pairs)
    BY <1>4 DEF ExistsBijection
  <2> QED
    BY <1>5, <2>1, FS_Bijection
<1> QED
  BY <1>1, <1>2, <1>3, <1>5, <1>6

LEMMA RealEdges ==
  ASSUME NEW r \in Products, NEW w \in Walks, NEW s \in Seq(Frames), s # <<>>, Nodes(w),
         Stacked(r, w, s), Edged(r, w, s), NEW port \in s[Len(s)].left, Len(w.edges) >= MaxEdges
  PROVE  Cardinality(InputNames(w)) > MaxEdges
<1> DEFINE pairs == {<<e.from, e.input>> : e \in Listed(w)}
           next == <<s[Len(s)].key, port.name>>
<1>1. /\ pairs \subseteq InputNames(w) /\ IsFiniteSet(pairs)
      /\ Cardinality(pairs) = Len(w.edges) /\ Len(w.edges) \in Nat
  BY ListedCounted
<1>2. Visit(w, s[Len(s)], Len(s)) /\ s[Len(s)].key \in Loaded(w)
  BY TopVisit
<1>3. next \notin pairs
  BY <1>2 DEF Visit
<1>4. next \in InputNames(w)
  BY <1>2 DEF Visit, InputNames
<1> HIDE DEF pairs, next
<1>5. Cardinality(pairs \cup {next}) = Cardinality(pairs) + 1
  BY <1>1, <1>3, FS_AddElement
<1>6. Cardinality(pairs \cup {next}) <= Cardinality(InputNames(w))
  BY <1>1, <1>4, InputNamesFinite, FS_Subset
<1>7. Cardinality(InputNames(w)) \in Nat /\ MaxEdges \in Nat
  BY InputNamesFinite, LimitsAssumption
<1> QED
  BY <1>1, <1>5, <1>6, <1>7

-----------------------------------------------------------------------------
(* A visit that is broken off, and a visit that ends.                      *)

LEMMA StillEdged ==
  ASSUME NEW r \in Products, NEW w \in Walks, NEW n \in Walks, NEW s, NEW t, Nodes(w), Nodes(n),
         Grown(w, n), n.edges = w.edges, Edged(r, w, s), w.visited \cup On(s) \subseteq n.visited \cup On(t)
  PROVE  Edged(r, n, t) /\ Listed(n) = Listed(w) /\ Joined(n) = Joined(w)
<1>1. Listed(n) = Listed(w) /\ Joined(n) = Joined(w)
  BY DEF Listed, Joined
<1>2. ASSUME NEW e \in Listed(w)
      PROVE  /\ e.from \in Loaded(n) /\ e.from \in n.visited \cup On(t)
             /\ Lists(n, e) /\ Placed(r, n, e) /\ Stated(n, e)
  <2>1. e \in lineageEdge
    BY WalkFields DEF Listed
  <2>2. e.to \in Products
    BY <2>1 DEF lineageEdge
  <2>3. /\ e.from \in Loaded(w) /\ e.from \in w.visited \cup On(s)
        /\ Lists(w, e) /\ Placed(r, w, e) /\ Stated(w, e)
    BY DEF Edged
  <2>4. Lists(n, e) /\ Placed(r, n, e) /\ Stated(n, e)
    BY <2>2, <2>3, EdgeStays
  <2> QED
    BY <2>3, <2>4, GrownFacts
<1> QED
  BY <1>1, <1>2 DEF Edged

(* An issue is added, inputs are given up. *)
LEMMA BreakKeeps ==
  ASSUME NEW r \in Products, NEW w, NEW n \in Walks, NEW s, NEW late \in BOOLEAN, Walking(r, w, s, late),
         NEW x, n.issues = w.issues \cup {x}, n.products = w.products, n.nodes = w.nodes,
         n.visited = w.visited, n.heights = w.heights, n.retained = w.retained, n.edges = w.edges,
         Real(r, w, late, x), NEW t \in Seq(Frames), Len(t) = Len(s), DOMAIN t = DOMAIN s,
         \A j \in DOMAIN s : t[j].key = s[j].key /\ t[j].left \subseteq s[j].left
  PROVE  Walking(r, n, t, late)
<1>1. /\ w \in Walks /\ s \in Seq(Frames) /\ Nodes(w) /\ Stacked(r, w, s) /\ Edged(r, w, s) /\ Hanging(r, w)
      /\ Falling(w, s)
  BY DEF Walking
<1>2. /\ Loaded(n) = Loaded(w) /\ Attempts(n) = Attempts(w) /\ \A p : Ports(n, p) = Ports(w, p)
      /\ Listed(n) = Listed(w) /\ Joined(n) = Joined(w) /\ On(t) = On(s)
  BY DEF Loaded, Attempts, Ports, Listed, Joined, On
<1>3. Nodes(n)
  BY <1>1, <1>2 DEF Nodes
<1>4. Grown(w, n)
  BY <1>2 DEF Grown
<1>5. Edged(r, n, t)
  BY <1>1, <1>2, <1>3, <1>4, StillEdged
<1>6. Stacked(r, n, t)
  <2>1. \A j \in DOMAIN s : Visit(n, t[j], j)
    BY <1>1, <1>2 DEF Stacked, Visit
  <2>2. t # <<>> => t[1].key = r
    <3> SUFFICES ASSUME t # <<>> PROVE t[1].key = r
      OBVIOUS
    <3>1. s # <<>>
      BY <1>1, EmptySeq
    <3> QED
      BY <1>1, <3>1, TopVisit
  <2> QED
    BY <1>1, <1>2, <2>1, <2>2 DEF Stacked
<1>7. Falling(n, t)
  BY <1>1, <1>2 DEF Falling
<1>8. Hanging(r, n) /\ Realised(n) /\ Flat(n, t) /\ Budgets(n)
  BY <1>2 DEF Walking, Hanging, Realised, Flat, Budgets
<1>9. Whole(r, n, t)
  BY DEF Whole
<1>10. \A y \in n.issues : Real(r, n, late, y)
  <2> SUFFICES ASSUME NEW y \in n.issues PROVE Real(r, n, late, y)
    OBVIOUS
  <2>1. Real(r, w, late, y)
    BY DEF Walking
  <2> QED
    BY <1>1, <1>3, <1>4, <2>1, RealStays
<1> QED
  BY <1>3, <1>5, <1>6, <1>7, <1>8, <1>9, <1>10 DEF Walking

(* How the height of the visit below follows the one that ends. *)
Settled(w, n, s, t) ==
  \/ t = <<>> /\ n.heights = w.heights
  \/ /\ t # <<>>
     /\ \A p \in Products \ {s[Len(s) - 1].key} : n.heights[p] = w.heights[p]
     /\ n.heights[s[Len(s) - 1].key] =
          IF w.heights[s[Len(s) - 1].key] > w.heights[s[Len(s)].key]
          THEN w.heights[s[Len(s) - 1].key] ELSE 1 + w.heights[s[Len(s)].key]

(* The visit at the top ends, and the height of the one below follows. *)
LEMMA ReturnKeeps ==
  ASSUME NEW r \in Products, NEW w, NEW n \in Walks, NEW s, NEW late \in BOOLEAN, Walking(r, w, s, late),
         s # <<>>, s[Len(s)].left = {},
         n.issues = w.issues, n.products = w.products, n.nodes = w.nodes, n.retained = w.retained,
         n.edges = w.edges, n.visited = w.visited \cup {s[Len(s)].key},
         NEW t \in Seq(Frames), Len(t) = Len(s) - 1, DOMAIN t = 1 .. Len(s) - 1,
         \A j \in DOMAIN t : t[j] = s[j],
         Settled(w, n, s, t)
  PROVE  Walking(r, n, t, late)
<1>0. \/ t = <<>> /\ n.heights = w.heights
      \/ /\ t # <<>>
         /\ \A p \in Products \ {s[Len(s) - 1].key} : n.heights[p] = w.heights[p]
         /\ n.heights[s[Len(s) - 1].key] =
              IF w.heights[s[Len(s) - 1].key] > w.heights[s[Len(s)].key]
              THEN w.heights[s[Len(s) - 1].key] ELSE 1 + w.heights[s[Len(s)].key]
  BY DEF Settled
<1> USE <1>0
<1> DEFINE top == s[Len(s)].key
           below == s[Len(s) - 1].key
<1>1. /\ w \in Walks /\ s \in Seq(Frames) /\ Nodes(w) /\ Stacked(r, w, s) /\ Edged(r, w, s) /\ Hanging(r, w)
      /\ Falling(w, s) /\ Realised(w) /\ Flat(w, s) /\ Whole(r, w, s)
  BY DEF Walking
<1>2. /\ Loaded(n) = Loaded(w) /\ Attempts(n) = Attempts(w) /\ \A p : Ports(n, p) = Ports(w, p)
      /\ Listed(n) = Listed(w) /\ Joined(n) = Joined(w)
  BY DEF Loaded, Attempts, Ports, Listed, Joined
<1>3. /\ Len(s) \in Nat /\ DOMAIN s = 1 .. Len(s) /\ Len(s) \in DOMAIN s /\ top \in Loaded(w)
      /\ top \in Products /\ top \notin w.visited /\ 1 \in DOMAIN s /\ s[1].key = r
      /\ \A j \in DOMAIN s : s[j].key \in Products
  BY <1>1, TopVisit, StackCount
<1>4. DOMAIN t \subseteq DOMAIN s /\ \A j \in DOMAIN s : j = Len(s) \/ j \in DOMAIN t
  BY <1>3
<1>5. On(s) = On(t) \cup {top}
  BY <1>3, <1>4 DEF On
<1>6. t # <<>> => Len(s) - 1 \in DOMAIN s /\ Len(s) - 1 \in DOMAIN t /\ below \in Products /\ 1 \in DOMAIN t
  <2> SUFFICES ASSUME t # <<>> PROVE Len(s) - 1 \in DOMAIN s /\ Len(s) - 1 \in DOMAIN t /\ below \in Products /\ 1 \in DOMAIN t
    OBVIOUS
  <2>1. Len(t) # 0
    BY EmptySeq
  <2>2. Len(s) - 1 \in DOMAIN s /\ Len(s) - 1 \in DOMAIN t /\ 1 \in DOMAIN t
    BY <1>3, <2>1
  <2> QED
    BY <1>3, <2>2
<1>7. t # <<>> => Joins(Joined(w), below, top)
  <2> SUFFICES ASSUME t # <<>> PROVE Joins(Joined(w), below, top)
    OBVIOUS
  <2>1. (Len(s) - 1) + 1 = Len(s)
    BY <1>3
  <2> QED
    BY <1>1, <1>3, <1>6, <2>1 DEF Stacked
<1> HIDE DEF top, below
<1>8. Nodes(n)
  BY <1>1, <1>2, <1>3 DEF Nodes, top
<1>9. Grown(w, n)
  BY <1>2 DEF Grown
<1>10. Edged(r, n, t)
  BY <1>1, <1>2, <1>5, <1>8, <1>9, StillEdged DEF top
<1>11. Stacked(r, n, t)
  <2>1. Len(t) <= MaxDepth
    BY <1>1, <1>3, Sizes DEF Stacked
  <2>2. t # <<>> => t[1].key = r
    BY <1>3, <1>6
  <2>3. \A i, j \in DOMAIN t : t[i].key = t[j].key => i = j
    BY <1>1, <1>4 DEF Stacked
  <2>4. ASSUME NEW j \in DOMAIN t PROVE Visit(n, t[j], j)
    <3>1. Visit(w, s[j], j) /\ t[j] = s[j] /\ j \in DOMAIN s
      BY <1>1, <1>4 DEF Stacked
    <3>2. t[j].key # top
      BY <1>1, <1>3, <3>1 DEF Stacked, top
    <3> QED
      BY <1>2, <3>1, <3>2 DEF Visit, top
  <2>5. \A j \in DOMAIN t : j + 1 \in DOMAIN t => Joins(Joined(n), t[j].key, t[j + 1].key)
    BY <1>1, <1>2, <1>4 DEF Stacked
  <2> QED
    BY <2>1, <2>2, <2>3, <2>4, <2>5 DEF Stacked
<1>12. t # <<>> => below \notin w.visited /\ below # top
  BY <1>1, <1>3, <1>6 DEF Stacked, Visit, below, top
<1>13. ASSUME t # <<>>
       PROVE  /\ \A p \in Products \ {below} : n.heights[p] = w.heights[p]
              /\ n.heights[below] = IF w.heights[below] > w.heights[top]
                                    THEN w.heights[below] ELSE 1 + w.heights[top]
              /\ w.heights[below] <= n.heights[below] /\ w.heights[top] < n.heights[below]
              /\ w.heights[top] \in Nat /\ w.heights[below] \in Nat
  <2>1. w.heights[top] \in Nat /\ w.heights[below] \in Nat
    BY <1>1, <1>3, <1>6, <1>13, WalkFields
  <2>2. /\ \A p \in Products \ {below} : n.heights[p] = w.heights[p]
        /\ n.heights[below] = IF w.heights[below] > w.heights[top]
                              THEN w.heights[below] ELSE 1 + w.heights[top]
    BY <1>13 DEF below, top
  <2>3. w.heights[below] <= n.heights[below] /\ w.heights[top] < n.heights[below]
    BY <2>1, <2>2
  <2> QED
    BY <2>1, <2>2, <2>3
<1>14. t = <<>> => n.heights = w.heights /\ Len(s) = 1 /\ DOMAIN t = {}
  <2> SUFFICES ASSUME t = <<>> PROVE n.heights = w.heights /\ Len(s) = 1 /\ DOMAIN t = {}
    OBVIOUS
  <2>1. Len(t) = 0 /\ DOMAIN t = {}
    BY EmptySeq
  <2> QED
    BY <1>3, <2>1
<1>15. \A p \in Products : w.heights[p] <= n.heights[p] /\ (p \in w.visited \cup {top} => n.heights[p] = w.heights[p])
  <2> SUFFICES ASSUME NEW p \in Products
               PROVE  w.heights[p] <= n.heights[p] /\ (p \in w.visited \cup {top} => n.heights[p] = w.heights[p])
    OBVIOUS
  <2>1. w.heights[p] \in Nat
    BY <1>1, WalkFields
  <2> QED
    BY <1>12, <1>13, <1>14, <2>1
<1>16. Falling(n, t)
  <2> SUFFICES ASSUME NEW e \in Joined(w)
               PROVE  \/ e.to \in n.visited /\ n.heights[e.to] < n.heights[e.from]
                      \/ \E j \in DOMAIN t : j + 1 \in DOMAIN t /\ t[j].key = e.from /\ t[j + 1].key = e.to
    BY <1>2 DEF Falling
  <2>1. e \in lineageEdge
    BY <1>1, WalkFields DEF Joined, Listed
  <2>2. e.from \in Products /\ e.to \in Products
    BY <2>1 DEF lineageEdge
  <2>3. CASE e.to \in w.visited /\ w.heights[e.to] < w.heights[e.from]
    <3>1. n.heights[e.to] = w.heights[e.to] /\ w.heights[e.from] <= n.heights[e.from]
      BY <1>15, <2>2, <2>3
    <3>2. w.heights[e.to] \in Nat /\ w.heights[e.from] \in Nat /\ n.heights[e.from] \in Nat
      BY <1>1, <2>2, WalkFields
    <3> QED
      BY <2>3, <3>1, <3>2
  <2>4. ASSUME NEW j \in DOMAIN s, j + 1 \in DOMAIN s, s[j].key = e.from, s[j + 1].key = e.to
        PROVE  \/ e.to \in n.visited /\ n.heights[e.to] < n.heights[e.from]
               \/ \E k \in DOMAIN t : k + 1 \in DOMAIN t /\ t[k].key = e.from /\ t[k + 1].key = e.to
    <3>1. CASE j + 1 = Len(s)
      <4>1. j = Len(s) - 1 /\ j \in DOMAIN t
        BY <1>3, <2>4, <3>1
      <4>2. t # <<>>
        BY <1>14, <4>1
      <4>3. e.from = below /\ e.to = top
        BY <2>4, <3>1, <4>1 DEF below, top
      <4>4. n.heights[top] = w.heights[top]
        BY <1>3, <1>15
      <4> QED
        BY <1>13, <4>2, <4>3, <4>4 DEF top
    <3>2. CASE j + 1 # Len(s)
      <4>1. j \in DOMAIN t /\ j + 1 \in DOMAIN t
        BY <1>3, <2>4, <3>2
      <4> QED
        BY <2>4, <4>1
    <3> QED
      BY <3>1, <3>2
  <2> QED
    BY <1>1, <2>3, <2>4 DEF Falling
<1>17. Realised(n)
  <2>1. CASE t = <<>>
    BY <1>1, <1>14, <2>1 DEF Realised
  <2>2. CASE t # <<>>
    <3>1. Joins(Links(n.products), below, top)
      BY <1>1, <1>7, <2>2, JoinedLinked
    <3>2. Raised(w, n, below, top)
      BY <1>13, <2>2, <3>1 DEF Raised
    <3> QED
      BY <1>1, <1>3, <1>6, <1>9, <1>13, <2>2, <3>2, RaisedRealised
  <2> QED
    BY <2>1, <2>2
<1>18. Flat(n, t)
  <2> SUFFICES ASSUME NEW p \in Products, p \notin n.visited \cup On(t) PROVE n.heights[p] = 0
    BY DEF Flat
  <2>1. p \notin w.visited \cup On(s)
    BY <1>5 DEF top
  <2>2. w.heights[p] = 0
    BY <1>1, <2>1 DEF Flat
  <2>3. t # <<>> => p # below
    BY <1>6, <2>1 DEF On, below
  <2> QED
    BY <1>13, <1>14, <2>2, <2>3
<1>19. Whole(r, n, t)
  <2> SUFFICES ASSUME w.issues = {}
               PROVE  /\ \A p \in Loaded(w) : \A i \in Ports(w, p) :
                           \/ \E e \in Listed(w) : e.from = p /\ e.input = i.name
                           \/ \E j \in DOMAIN t : t[j].key = p /\ i \in t[j].left
                      /\ \A j \in DOMAIN t : j + n.heights[t[j].key] <= MaxDepth
                      /\ t = <<>> => n.heights[r] < MaxDepth
    BY <1>2 DEF Whole
  <2>1. ASSUME NEW p \in Loaded(w), NEW i \in Ports(w, p)
        PROVE  \/ \E e \in Listed(w) : e.from = p /\ e.input = i.name
               \/ \E j \in DOMAIN t : t[j].key = p /\ i \in t[j].left
    <3>1. \/ \E e \in Listed(w) : e.from = p /\ e.input = i.name
          \/ \E j \in DOMAIN s : s[j].key = p /\ i \in s[j].left
      BY <1>1 DEF Whole
    <3>2. ASSUME NEW j \in DOMAIN s, s[j].key = p, i \in s[j].left
          PROVE  \E k \in DOMAIN t : t[k].key = p /\ i \in t[k].left
      <4>1. j # Len(s)
        BY <3>2
      <4>2. j \in DOMAIN t /\ t[j] = s[j]
        BY <1>4, <4>1
      <4> QED
        BY <3>2, <4>2
    <3> QED
      BY <3>1, <3>2
  <2>2. \A j \in DOMAIN s : j + w.heights[s[j].key] <= MaxDepth
    BY <1>1 DEF Whole
  <2>3. MaxDepth \in Nat
    BY Sizes
  <2>4. ASSUME NEW j \in DOMAIN t PROVE j + n.heights[t[j].key] <= MaxDepth
    <3>1. t # <<>> /\ j \in DOMAIN s /\ t[j] = s[j] /\ s[j].key \in Products
      BY <1>3, <1>4, <1>14
    <3>2. CASE s[j].key # below
      BY <1>13, <2>2, <3>1, <3>2
    <3>3. CASE s[j].key = below
      <4>1. j = Len(s) - 1
        BY <1>1, <1>6, <3>1, <3>3 DEF Stacked, below
      <4>2. j + w.heights[below] <= MaxDepth /\ Len(s) + w.heights[top] <= MaxDepth
        BY <1>3, <2>2, <3>1, <3>3 DEF top
      <4>3. j + n.heights[below] <= MaxDepth
        BY <1>3, <1>13, <2>3, <3>1, <4>1, <4>2
      <4> QED
        BY <3>1, <3>3, <4>3
    <3> QED
      BY <3>2, <3>3
  <2>5. ASSUME t = <<>> PROVE n.heights[r] < MaxDepth
    <3>1. 1 + w.heights[r] <= MaxDepth /\ n.heights[r] = w.heights[r] /\ w.heights[r] \in Nat
      BY <1>1, <1>3, <1>14, <2>2, <2>5, WalkFields
    <3> QED
      BY <2>3, <3>1
  <2> QED
    BY <2>1, <2>4, <2>5
<1>20. Hanging(r, n) /\ Budgets(n)
  BY <1>1, <1>2 DEF Walking, Hanging, Budgets
<1>21. \A y \in n.issues : Real(r, n, late, y)
  <2> SUFFICES ASSUME NEW y \in n.issues PROVE Real(r, n, late, y)
    OBVIOUS
  <2>1. Real(r, w, late, y)
    BY DEF Walking
  <2> QED
    BY <1>1, <1>8, <1>9, <2>1, RealStays
<1> QED
  BY <1>8, <1>10, <1>11, <1>16, <1>17, <1>18, <1>19, <1>20, <1>21 DEF Walking


-----------------------------------------------------------------------------
(* One turn of the loop of visit.                                          *)

(* What makes an edge one that may be listed without a visit. *)
Listable(r, w, s, n, port, e, later) ==
  /\ Stated(n, e)
  /\ Len(s) = MaxDepth => e.state \in {"depth-limit", "cross-namespace"}
  /\ e.state = "cycle" => port.ref \in On(s)
  /\ w.heights[e.from] <= n.heights[e.from] /\ Raised(w, n, e.from, port.ref)
  /\ e.state = "resolved" => port.ref \in w.visited /\ n.heights[port.ref] < n.heights[e.from]
  /\ n.issues = {} => Loaded(n) = Loaded(w) /\ Len(s) + n.heights[e.from] <= MaxDepth
  /\ \A x \in n.issues : x \in w.issues \/ Real(r, n, later, x)

(* The input is listed, and its own visit is over or never begun. *)
LEMMA ListKeeps ==
  ASSUME NEW r \in Products, NEW w, NEW n \in Walks, NEW s, NEW t, NEW port, NEW e,
         NEW late \in BOOLEAN, NEW later \in BOOLEAN, late => later, Walking(r, w, s, late), s # <<>>,
         Turn(w, s, n, port, e), Shortened(s, t, port), Listable(r, w, s, n, port, e, later)
  PROVE  Walking(r, n, t, later)
<1>0. /\ Stated(n, e)
      /\ Len(s) = MaxDepth => e.state \in {"depth-limit", "cross-namespace"}
      /\ e.state = "cycle" => port.ref \in On(s)
      /\ w.heights[e.from] <= n.heights[e.from] /\ Raised(w, n, e.from, port.ref)
      /\ e.state = "resolved" => port.ref \in w.visited /\ n.heights[port.ref] < n.heights[e.from]
      /\ n.issues = {} => Loaded(n) = Loaded(w) /\ Len(s) + n.heights[e.from] <= MaxDepth
      /\ \A x \in n.issues : x \in w.issues \/ Real(r, n, later, x)
  BY DEF Listable
<1>1. /\ w \in Walks /\ s \in Seq(Frames) /\ Nodes(w) /\ Stacked(r, w, s) /\ Edged(r, w, s)
      /\ Falling(w, s) /\ Hanging(r, w) /\ Realised(w) /\ Flat(w, s) /\ Whole(r, w, s)
      /\ \A x \in w.issues : Real(r, w, late, x)
  BY DEF Walking
<1>2. /\ Grown(w, n) /\ Nodes(n) /\ Budgets(n) /\ port \in s[Len(s)].left
      /\ e.from = s[Len(s)].key /\ \A p \in Products \ {e.from} : n.heights[p] = w.heights[p]
  BY DEF Turn
<1>3. e.from \in Products /\ port.ref \in Products
  <2>1. s[Len(s)].key \in Products /\ Len(s) \in DOMAIN s
    BY <1>1, TopVisit
  <2>2. s[Len(s)].left \in SUBSET InputPorts
    BY <1>1, <2>1, StackCount
  <2> QED
    BY <1>2, <2>1, <2>2 DEF InputPorts
<1>4. /\ t \in Seq(Frames) /\ DOMAIN t = DOMAIN s /\ \A j \in DOMAIN s : t[j].key = s[j].key
      /\ On(t) = On(s)
  BY DEF Shortened, On
<1>5. Stacked(r, n, t)
  BY <1>1, TurnStacked
<1>6. Edged(r, n, t)
  <2>1. Placed(r, n, e)
    BY <1>0, <1>1, TurnPlaced
  <2> QED
    BY <1>0, <1>1, <1>4, <2>1, TurnEdged
<1>7. Falling(n, t)
  BY <1>0, <1>1, <1>4, TurnFalling
<1>8. Hanging(r, n)
  BY <1>1, TurnHanging
<1>9. Realised(n)
  BY <1>0, <1>1, <1>2, <1>3, RaisedRealised
<1>10. Flat(n, t)
  BY <1>1, <1>4, TurnFlat
<1>11. Whole(r, n, t)
  BY <1>0, <1>1, TurnWhole
<1>12. \A x \in n.issues : Real(r, n, later, x)
  <2> SUFFICES ASSUME NEW x \in w.issues PROVE Real(r, n, later, x)
    BY <1>0
  <2>1. Real(r, w, late, x)
    BY <1>1
  <2> QED
    BY <1>1, <1>2, <2>1, RealStays
<1> QED
  BY <1>2, <1>4, <1>5, <1>6, <1>7, <1>8, <1>9, <1>10, <1>11, <1>12 DEF Walking

(* What makes an edge one whose producer is visited next. *)
Enterable(w, s, n, port, e) ==
  /\ Stated(n, e) /\ e.state = "resolved" /\ Len(s) < MaxDepth
  /\ port.ref \in Loaded(n) /\ port.ref \notin w.visited \cup On(s)
  /\ n.heights = w.heights /\ Loaded(n) \subseteq Loaded(w) \cup {port.ref} /\ n.issues = w.issues

(* The input is listed and its own visit begins. *)
LEMMA EnterKeeps ==
  ASSUME NEW r \in Products, NEW w, NEW n \in Walks, NEW s, NEW t, NEW u, NEW port, NEW e,
         NEW late \in BOOLEAN, NEW later \in BOOLEAN, late => later, Walking(r, w, s, late), s # <<>>,
         Turn(w, s, n, port, e), Shortened(s, t, port), Entered(n, t, u, port.ref),
         Enterable(w, s, n, port, e)
  PROVE  Walking(r, n, u, later)
<1>0. /\ Stated(n, e) /\ e.state = "resolved" /\ Len(s) < MaxDepth
      /\ port.ref \in Loaded(n) /\ port.ref \notin w.visited \cup On(s)
      /\ n.heights = w.heights /\ Loaded(n) \subseteq Loaded(w) \cup {port.ref} /\ n.issues = w.issues
  BY DEF Enterable
<1>1. /\ w \in Walks /\ s \in Seq(Frames) /\ Nodes(w) /\ Stacked(r, w, s) /\ Edged(r, w, s)
      /\ Falling(w, s) /\ Hanging(r, w) /\ Realised(w) /\ Flat(w, s) /\ Whole(r, w, s)
      /\ \A x \in w.issues : Real(r, w, late, x)
  BY DEF Walking
<1>2. /\ Grown(w, n) /\ Nodes(n) /\ Budgets(n) /\ port \in s[Len(s)].left
      /\ e.from = s[Len(s)].key /\ \A p \in Products \ {e.from} : n.heights[p] = w.heights[p]
  BY DEF Turn
<1>3. /\ e.from \in Products /\ port.ref \in Products /\ Len(s) \in DOMAIN s
      /\ Len(s) \in Nat /\ MaxDepth \in Nat
  <2>1. s[Len(s)].key \in Products /\ Len(s) \in DOMAIN s
    BY <1>0, <1>1, TopVisit
  <2> QED
    BY <1>0, <1>1, <1>2, <2>1, StackCount, Sizes DEF Loaded
<1>4. /\ DOMAIN t = DOMAIN s /\ Len(t) = Len(s) /\ \A j \in DOMAIN s : t[j].key = s[j].key
      /\ On(t) = On(s)
  BY DEF Shortened, On
<1>5. /\ u \in Seq(Frames) /\ DOMAIN s \subseteq DOMAIN u /\ On(s) \subseteq On(u)
      /\ \A j \in DOMAIN s : u[j].key = s[j].key
      /\ Len(s) + 1 \in DOMAIN u /\ u[Len(s) + 1].key = port.ref
  BY <1>0, <1>4 DEF Entered
<1>6. Stacked(r, n, u)
  BY <1>0, <1>1, EnterStacked
<1>7. Edged(r, n, u)
  <2>1. Len(s) # MaxDepth
    BY <1>0, <1>3
  <2>2. Placed(r, n, e)
    BY <1>0, <1>1, <2>1, TurnPlaced
  <2> QED
    BY <1>0, <1>1, <1>5, <2>2, TurnEdged
<1>8. w.heights[e.from] <= n.heights[e.from]
  BY <1>0, <1>1, <1>3, WalkFields
<1>9. Falling(n, u)
  BY <1>0, <1>1, <1>5, <1>8, TurnFalling
<1>10. Hanging(r, n)
  BY <1>0, <1>1, TurnHanging
<1>11. Realised(n)
  <2>1. Raised(w, n, e.from, port.ref)
    BY <1>0 DEF Raised
  <2> QED
    BY <1>0, <1>1, <1>2, <1>3, <2>1, RaisedRealised
<1>12. Flat(n, u)
  BY <1>0, <1>1, <1>5, TurnFlat
<1>13. Whole(r, n, u)
  BY <1>0, <1>1, EnterWhole
<1>14. \A x \in n.issues : Real(r, n, later, x)
  <2> SUFFICES ASSUME NEW x \in w.issues PROVE Real(r, n, later, x)
    BY <1>0
  <2>1. Real(r, w, late, x)
    BY <1>0, <1>1
  <2> QED
    BY <1>0, <1>1, <1>2, <2>1, RealStays
<1> QED
  BY <1>0, <1>2, <1>5, <1>6, <1>7, <1>9, <1>10, <1>11, <1>12, <1>13, <1>14 DEF Walking

(* What reading key leaves of the invariant. *)
Got(w, m, key) ==
  /\ m \in Walks /\ Grown(w, m) /\ Nodes(m)
  /\ Cardinality(Attempts(m)) <= MaxProducts /\ m.retained <= MaxMetadata
  /\ \A p \in Attempts(m) \ Attempts(w) : p = key
  /\ Loaded(m) \subseteq Loaded(w) \cup {key}
  /\ m.visited = w.visited /\ m.heights = w.heights /\ m.edges = w.edges

LEMMA NothingGot ==
  ASSUME NEW w \in Walks, Nodes(w), Budgets(w), NEW key
  PROVE  Got(w, w, key)
  BY DEF Got, Grown, Budgets

LEMMA ReadGets ==
  ASSUME NEW w \in Walks, Nodes(w), Budgets(w), "timeout" \notin w.issues, NEW m, NEW key \in Products,
         NEW state, NEW moment, Looked(w, m, key, state, moment)
  PROVE  Got(w, m, key)
<1>1. /\ m \in Walks /\ m.visited = w.visited /\ m.heights = w.heights /\ m.edges = w.edges
      /\ \A p \in Products \ {key} : m.nodes[p] = w.nodes[p] /\ m.products[p] = w.products[p]
  BY DEF Looked
<1>2. Listed(m) = Listed(w)
  BY <1>1 DEF Listed
<1>3. CASE w.nodes[key] # None
  <2>1. m = w
    BY <1>3 DEF Looked
  <2> QED
    BY <2>1, NothingGot
<1>4. CASE w.nodes[key] = None
  <2>1. key \notin Attempts(w) /\ key \notin Loaded(w)
    BY <1>4, LoadedAttempted DEF Attempts
  <2>2. w.issues \subseteq m.issues
    BY DEF Looked
  <2>3. m.nodes = w.nodes \/ Cardinality(Attempts(w)) < MaxProducts
    BY <1>4 DEF Looked
  <2>4. Grown(w, m)
    BY <1>1, <1>2, <2>1, <2>2, <2>3 DEF Grown, Attempts
  <2>5. \A p \in Attempts(m) \ Attempts(w) : p = key
    BY <1>1 DEF Attempts
  <2>6. Loaded(m) \subseteq Loaded(w) \cup {key}
    BY <1>1 DEF Loaded
  <2>7. Cardinality(Attempts(m)) <= MaxProducts
    <3>1. CASE m.nodes = w.nodes
      <4>1. Attempts(m) = Attempts(w)
        BY <3>1 DEF Attempts
      <4> QED
        BY <4>1 DEF Budgets
    <3>2. CASE Cardinality(Attempts(w)) < MaxProducts
      <4>1. Attempts(m) \subseteq Attempts(w) \cup {key}
        BY <2>5
      <4>2. /\ IsFiniteSet(Attempts(w) \cup {key})
            /\ Cardinality(Attempts(w) \cup {key}) = Cardinality(Attempts(w)) + 1
        BY <2>1, AttemptsCounted, FS_AddElement
      <4>3. Cardinality(Attempts(m)) <= Cardinality(Attempts(w) \cup {key})
        BY <4>1, <4>2, FS_Subset
      <4>4. Cardinality(Attempts(m)) \in Nat /\ Cardinality(Attempts(w)) \in Nat /\ MaxProducts \in Nat
        BY AttemptsCounted, LimitsAssumption
      <4> QED
        BY <3>2, <4>2, <4>3, <4>4
    <3> QED
      BY <2>3, <3>1, <3>2
  <2>8. m.retained <= MaxMetadata
    BY <1>4 DEF Looked, Budgets
  <2>9. Nodes(m)
    <3>1. m.visited \subseteq Loaded(m)
      BY <1>1, <2>1 DEF Nodes, Loaded
    <3>2. \A p \in Loaded(m) \ {key} : /\ m.products[p].spec \in Manifests[p]
                                       /\ Witnessed(m.nodes[p], m.products[p].spec)
      BY <1>1, <2>6 DEF Nodes, Loaded
    <3>3. \A p \in (Attempts(m) \ Loaded(m)) \ {key} :
            \E x \in m.issues \cap unread : m.nodes[p] = Failed(x)
      <4> SUFFICES ASSUME NEW p \in (Attempts(m) \ Loaded(m)) \ {key}
                   PROVE  \E x \in m.issues \cap unread : m.nodes[p] = Failed(x)
        OBVIOUS
      <4>1. p \in Attempts(w) \ Loaded(w) /\ m.nodes[p] = w.nodes[p]
        BY <1>1 DEF Attempts, Loaded
      <4> QED
        BY <2>2, <4>1 DEF Nodes
    <3>4. /\ key \in Loaded(m) => /\ m.products[key].spec \in Manifests[key]
                                  /\ Witnessed(m.nodes[key], m.products[key].spec)
          /\ key \in Attempts(m) \ Loaded(m) => \E x \in m.issues \cap unread : m.nodes[key] = Failed(x)
      <4>1. CASE m.nodes = w.nodes /\ m.products = w.products
        BY <1>4, <2>1, <4>1 DEF Loaded, Attempts
      <4>2. CASE m.nodes[key] = Failed(state) /\ m.products = w.products /\ state \in m.issues \cap unread
        BY <2>1, <4>2 DEF Loaded
      <4>3. CASE /\ m.products[key] # None /\ m.products[key].spec \in Manifests[key]
                 /\ Witnessed(m.nodes[key], m.products[key].spec)
        BY <4>3 DEF Loaded
      <4> QED
        BY <1>4, <4>1, <4>2, <4>3 DEF Looked, unread
    <3> QED
      BY <3>1, <3>2, <3>3, <3>4 DEF Nodes
  <2> QED
    BY <1>1, <2>4, <2>5, <2>6, <2>7, <2>8, <2>9 DEF Got
<1> QED
  BY <1>3, <1>4

(* A turn, from what was read and the edge that is appended. *)
LEMMA TurnMade ==
  ASSUME NEW w \in Walks, Budgets(w), NEW s, NEW m, NEW n \in Walks, NEW port, NEW e,
         Got(w, m, port.ref), port.foreign => m = w,
         n.products = m.products, n.nodes = m.nodes, n.visited = m.visited, n.retained = m.retained,
         m.issues \subseteq n.issues, Appends(m, n, e), Len(w.edges) < MaxEdges,
         port \in s[Len(s)].left,
         e.from = s[Len(s)].key, e.to = port.ref, e.foreign = port.foreign,
         e.input = port.name, e.depth = Len(s), e.requirement = port.contract,
         \A p \in Products \ {e.from} : n.heights[p] = w.heights[p]
  PROVE  Turn(w, s, n, port, e)
<1>1. /\ m \in Walks /\ Grown(w, m) /\ Nodes(m)
      /\ Cardinality(Attempts(m)) <= MaxProducts /\ m.retained <= MaxMetadata
      /\ \A p \in Attempts(m) \ Attempts(w) : p = port.ref
      /\ m.visited = w.visited /\ m.edges = w.edges
  BY DEF Got
<1>2. Attempts(n) = Attempts(m) /\ Loaded(n) = Loaded(m)
  BY DEF Attempts, Loaded
<1>3. Appends(w, n, e)
  BY <1>1 DEF Appends
<1>4. Listed(n) = Listed(w) \cup {e} /\ Len(n.edges) = Len(w.edges) + 1
  BY <1>3, TurnListed
<1>5. Grown(w, n)
  BY <1>1, <1>4 DEF Grown
<1>6. Nodes(n)
  BY <1>1, <1>2 DEF Nodes
<1>7. Budgets(n)
  <2>1. Len(w.edges) \in Nat /\ MaxEdges \in Nat
    BY WalkFields, LenProperties, LimitsAssumption
  <2>2. Len(n.edges) <= MaxEdges
    BY <1>4, <2>1
  <2> QED
    BY <1>1, <1>2, <2>2 DEF Budgets
<1>8. \A p \in Attempts(n) \ Attempts(w) : ~port.foreign /\ p = port.ref
  BY <1>1, <1>2
<1> QED
  BY <1>1, <1>3, <1>5, <1>6, <1>7, <1>8 DEF Turn

(* What a failed read leaves of the product, and of the issues. *)
LEMMA ReadFails ==
  ASSUME NEW w \in Walks, Nodes(w), "timeout" \notin w.issues, NEW m, NEW key \in Products,
         NEW state, NEW moment, Looked(w, m, key, state, moment), m.products[key] = None
  PROVE  /\ state \in unread \cup {"product-limit"} /\ state \in m.issues
         /\ m.issues \subseteq w.issues \cup {state}
         /\ state \in readFailures => m.nodes[key] = Failed(state) /\ key \in Attempts(m)
         /\ state = "timeout" => /\ moment # "later"
                                 /\ m.nodes[key] = None \/ m.nodes[key] = Failed("timeout")
         /\ state = "product-limit" => /\ w.nodes[key] = None /\ m.nodes = w.nodes
                                       /\ Cardinality(Attempts(w)) >= MaxProducts
<1>1. \A x \in unread : x \in failures /\ x # "product-limit"
  BY DEF unread, readFailures, failures
<1>2. CASE w.nodes[key] # None
  <2>1. m = w /\ state = w.nodes[key].state
    BY <1>2 DEF Looked
  <2>2. key \in Attempts(w) \ Loaded(w)
    BY <1>2, <2>1 DEF Attempts, Loaded
  <2>3. PICK x \in w.issues \cap unread : w.nodes[key] = Failed(x)
    BY <2>2 DEF Nodes
  <2>4. state = x
    BY <1>1, <2>1, <2>3, FailedFacts
  <2>5. x \in readFailures
    BY <2>3 DEF unread
  <2> QED
    BY <1>1, <2>1, <2>2, <2>3, <2>4, <2>5 DEF unread, readFailures
<1>3. CASE w.nodes[key] = None
  <2>1. CASE /\ m.nodes = w.nodes /\ m.issues = w.issues \cup {state}
             /\ \/ state = "timeout" /\ moment # "later"
                \/ state = "product-limit" /\ Cardinality(Attempts(w)) >= MaxProducts
    BY <1>3, <2>1 DEF unread, readFailures
  <2>2. CASE /\ m.nodes[key] = Failed(state) /\ m.issues = w.issues \cup {state}
             /\ state \in readFailures \/ (state = "timeout" /\ moment # "later")
    <3>1. m.nodes[key] # None
      BY <1>1, <2>2, FailedFacts DEF unread
    <3> QED
      BY <1>1, <2>2, <3>1 DEF unread, readFailures, Attempts
  <2> QED
    BY <1>3, <2>1, <2>2 DEF Looked
<1> QED
  BY <1>2, <1>3

(* A product that is held raised no issue, and was held before if the walk *)
(* has been there.                                                         *)
LEMMA ReadHolds ==
  ASSUME NEW w \in Walks, Nodes(w), NEW m, NEW key \in Products, NEW state, NEW moment,
         Looked(w, m, key, state, moment), m.products[key] # None
  PROVE  /\ key \in Loaded(m) /\ m.issues = w.issues
         /\ key \in Loaded(w) => m = w
<1>1. key \in Loaded(m)
  BY DEF Loaded
<1>2. w.products[key] # None => w.nodes[key] # None
  BY LoadedAttempted DEF Loaded, Attempts
<1> QED
  BY <1>1, <1>2 DEF Looked, Loaded

-----------------------------------------------------------------------------
(* The steps of the request.                                               *)

LEMMA PassedFacts ==
  ASSUME stack \in Seq(Frames), stack # <<>>, frame.left # {}
  PROVE  Shortened(stack, Passed, input)
<1>1. /\ Len(stack) \in DOMAIN stack /\ Len(stack) \in Nat /\ frame = stack[Len(stack)]
      /\ frame.key \in Products /\ frame.left \in SUBSET InputPorts /\ frame \in Frames
  BY TopFrame
<1> DEFINE top == [frame EXCEPT !.left = @ \ {input}]
<1>2. Passed = [stack EXCEPT ![Len(stack)] = top]
  BY <1>1 DEF Passed
<1>3. top \in Frames /\ top.key = frame.key /\ top.left = frame.left \ {input}
  BY <1>1 DEF Frames
<1> HIDE DEF top
<1>4. Passed \in Seq(Frames) /\ Len(Passed) = Len(stack) /\ DOMAIN Passed = DOMAIN stack
  BY <1>1, <1>2, <1>3, ExceptSeq
<1>5. /\ Passed[Len(stack)] = top
      /\ \A j \in DOMAIN stack : j # Len(stack) => Passed[j] = stack[j]
  BY <1>1, <1>2
<1> QED
  BY <1>1, <1>3, <1>4, <1>5 DEF Shortened

TraceInv ==
  /\ StoreTyped /\ expired \in BOOLEAN /\ root \in Products
  /\ pc \in {"read", "visit", "respond", "done"}
  /\ pc = "read" => walk = EmptyWalk
  /\ stack # <<>> <=> pc = "visit"
  /\ pc # "done" => response = None
  /\ answered => response = trace
  /\ pc \in {"visit", "respond"} \/ answered => root \in Loaded(walk)
  /\ Walking(root, walk, stack, expired)

(* What the steps of visit have in common. *)
LEMMA Visiting ==
  ASSUME TraceInv, stack # <<>>, frame.left # {}
  PROVE  /\ walk \in Walks /\ stack \in Seq(Frames) /\ root \in Products /\ expired \in BOOLEAN
         /\ Nodes(walk) /\ Budgets(walk) /\ Stacked(root, walk, stack) /\ Edged(root, walk, stack)
         /\ Hanging(root, walk) /\ Realised(walk) /\ Whole(root, walk, stack)
         /\ frame = stack[Len(stack)] /\ input \in stack[Len(stack)].left
         /\ input \in InputPorts /\ input.ref \in Products /\ input \in Ports(walk, stack[Len(stack)].key)
         /\ stack[Len(stack)].key \in Loaded(walk) /\ stack[Len(stack)].key \in Products
         /\ Len(stack) \in Nat /\ MaxDepth \in Nat
         /\ walk.heights \in [Products -> Nat]
         /\ visiting = On(stack) /\ Shortened(stack, Passed, input)
         /\ ~expired => "timeout" \notin walk.issues
<1>1. /\ walk \in Walks /\ stack \in Seq(Frames) /\ root \in Products /\ expired \in BOOLEAN
      /\ Nodes(walk) /\ Budgets(walk) /\ Stacked(root, walk, stack) /\ Edged(root, walk, stack)
      /\ Hanging(root, walk) /\ Realised(walk) /\ Whole(root, walk, stack)
      /\ \A x \in walk.issues : Real(root, walk, expired, x)
  BY DEF TraceInv, Walking
<1>2. frame = stack[Len(stack)] /\ Len(stack) \in Nat
  BY <1>1, TopFrame
<1>3. input \in frame.left /\ input \in InputPorts /\ input.ref \in Products
  BY <1>1, InputFacts
<1>4. /\ stack[Len(stack)].key \in Loaded(walk) /\ stack[Len(stack)].key \in Products
      /\ Visit(walk, stack[Len(stack)], Len(stack))
  BY <1>1, TopVisit
<1>5. input \in Ports(walk, stack[Len(stack)].key)
  BY <1>2, <1>3, <1>4 DEF Visit
<1>6. Shortened(stack, Passed, input)
  BY <1>1, PassedFacts
<1>7. ~expired => "timeout" \notin walk.issues
  BY <1>1 DEF Real
<1> QED
  BY <1>1, <1>2, <1>3, <1>4, <1>5, <1>6, <1>7, WalkFields, Sizes DEF visiting, On

LEMMA ForeignKeeps ==
  ASSUME TraceInv, InspectForeign
  PROVE  Walking(root, walk', stack', expired)
<1> DEFINE known == WithEdge(walk, "cross-namespace", "not-evaluated")
<1>1. /\ stack # <<>> /\ frame.left # {} /\ Len(walk.edges) < MaxEdges /\ input.foreign
      /\ walk' = incomplete(known, "cross-namespace") /\ stack' = Passed
  BY DEF InspectForeign, looking, active
<1>0. walk \in Walks /\ stack \in Seq(Frames) /\ stack # <<>> /\ frame.left # {}
  BY <1>1, Visiting
<1>13. "cross-namespace" \in failures \cup {"resolved"} /\ "not-evaluated" \in compatibilities
  BY DEF failures, compatibilities
<1>2. /\ known \in Walks /\ known.issues = walk.issues
      /\ known.products = walk.products /\ known.nodes = walk.nodes
      /\ known.visited = walk.visited /\ known.heights = walk.heights /\ known.retained = walk.retained
      /\ \E e \in lineageEdge :
           /\ known.edges = Append(walk.edges, e)
           /\ e.from = frame.key /\ e.to = input.ref /\ e.foreign = input.foreign
           /\ e.input = input.name /\ e.depth = Len(stack) /\ e.requirement = input.contract
           /\ e.state = "cross-namespace" /\ e.compatibility = "not-evaluated"
  BY <1>0, <1>13, WithEdgeFacts
<1> HIDE DEF known
<1>3. PICK e \in lineageEdge :
           /\ known.edges = Append(walk.edges, e)
           /\ e.from = frame.key /\ e.to = input.ref /\ e.foreign = input.foreign
           /\ e.input = input.name /\ e.depth = Len(stack) /\ e.requirement = input.contract
           /\ e.state = "cross-namespace" /\ e.compatibility = "not-evaluated"
  BY <1>2
<1>4. /\ walk' \in Walks /\ walk'.issues = walk.issues \cup {"cross-namespace"}
      /\ walk'.products = walk.products /\ walk'.nodes = walk.nodes
      /\ walk'.visited = walk.visited /\ walk'.heights = walk.heights /\ walk'.retained = walk.retained
      /\ Appends(walk, walk', e)
  BY <1>1, <1>2, <1>3, IncompleteFacts DEF failures, Appends
<1>5. Turn(walk, stack, walk', input, e)
  <2>1. /\ walk \in Walks /\ Nodes(walk) /\ Budgets(walk) /\ input \in stack[Len(stack)].left
        /\ e.from = stack[Len(stack)].key
    BY <1>1, <1>3, Visiting
  <2>2. Got(walk, walk, input.ref)
    BY <2>1, NothingGot
  <2>3. walk.issues \subseteq walk'.issues
    BY <1>4
  <2> QED
    BY <1>1, <1>3, <1>4, <2>1, <2>2, <2>3, TurnMade
<1>6. Stated(walk', e)
  BY <1>1, <1>3, <1>4 DEF Stated, readFailures
<1>7. Real(root, walk', expired, "cross-namespace")
  <2>1. e \in Listed(walk') /\ e.foreign
    BY <1>1, <1>3, <1>4, Visiting, TurnListed
  <2> QED
    BY <2>1 DEF Real, readFailures
<1>8. Raised(walk, walk', e.from, input.ref)
  BY <1>4 DEF Raised
<1>9. walk.heights[e.from] <= walk'.heights[e.from]
  BY <1>1, <1>3, <1>4, Visiting
<1>10. /\ root \in Products /\ expired \in BOOLEAN /\ Walking(root, walk, stack, expired)
       /\ Shortened(stack, stack', input)
  BY <1>1, Visiting DEF TraceInv
<1>11. /\ Len(stack) = MaxDepth => e.state \in {"depth-limit", "cross-namespace"}
       /\ e.state = "cycle" => input.ref \in On(stack)
       /\ e.state = "resolved" => input.ref \in walk.visited /\ walk'.heights[input.ref] < walk'.heights[e.from]
       /\ walk'.issues = {} => Loaded(walk') = Loaded(walk) /\ Len(stack) + walk'.heights[e.from] <= MaxDepth
       /\ \A x \in walk'.issues : x \in walk.issues \/ Real(root, walk', expired, x)
  BY <1>3, <1>4, <1>7
<1>12. Listable(root, walk, stack, walk', input, e, expired)
  BY <1>6, <1>8, <1>9, <1>11 DEF Listable
<1> QED
  BY <1>1, <1>4, <1>5, <1>10, <1>12, ListKeeps

LEMMA TooDeepKeeps ==
  ASSUME TraceInv, InspectTooDeep
  PROVE  Walking(root, walk', stack', expired)
<1> DEFINE known == WithEdge(walk, "depth-limit", "not-evaluated")
<1>1. /\ stack # <<>> /\ frame.left # {} /\ Len(walk.edges) < MaxEdges /\ ~input.foreign
      /\ Len(stack) >= MaxDepth
      /\ walk' = incomplete(known, "depth-limit") /\ stack' = Passed
  BY DEF InspectTooDeep, looking, active
<1>0. walk \in Walks /\ stack \in Seq(Frames) /\ stack # <<>> /\ frame.left # {}
  BY <1>1, Visiting
<1>13. "depth-limit" \in failures \cup {"resolved"} /\ "not-evaluated" \in compatibilities
  BY DEF failures, compatibilities
<1>2. /\ known \in Walks /\ known.issues = walk.issues
      /\ known.products = walk.products /\ known.nodes = walk.nodes
      /\ known.visited = walk.visited /\ known.heights = walk.heights /\ known.retained = walk.retained
      /\ \E e \in lineageEdge :
           /\ known.edges = Append(walk.edges, e)
           /\ e.from = frame.key /\ e.to = input.ref /\ e.foreign = input.foreign
           /\ e.input = input.name /\ e.depth = Len(stack) /\ e.requirement = input.contract
           /\ e.state = "depth-limit" /\ e.compatibility = "not-evaluated"
  BY <1>0, <1>13, WithEdgeFacts
<1> HIDE DEF known
<1>3. PICK e \in lineageEdge :
           /\ known.edges = Append(walk.edges, e)
           /\ e.from = frame.key /\ e.to = input.ref /\ e.foreign = input.foreign
           /\ e.input = input.name /\ e.depth = Len(stack) /\ e.requirement = input.contract
           /\ e.state = "depth-limit" /\ e.compatibility = "not-evaluated"
  BY <1>2
<1>4. /\ walk' \in Walks /\ walk'.issues = walk.issues \cup {"depth-limit"}
      /\ walk'.products = walk.products /\ walk'.nodes = walk.nodes
      /\ walk'.visited = walk.visited /\ walk'.heights = walk.heights /\ walk'.retained = walk.retained
      /\ Appends(walk, walk', e)
  BY <1>1, <1>2, <1>3, IncompleteFacts DEF failures, Appends
<1>5. Turn(walk, stack, walk', input, e)
  <2>1. /\ walk \in Walks /\ Nodes(walk) /\ Budgets(walk) /\ input \in stack[Len(stack)].left
        /\ e.from = stack[Len(stack)].key
    BY <1>1, <1>3, Visiting
  <2>2. Got(walk, walk, input.ref)
    BY <2>1, NothingGot
  <2>3. walk.issues \subseteq walk'.issues
    BY <1>4
  <2> QED
    BY <1>1, <1>3, <1>4, <2>1, <2>2, <2>3, TurnMade
<1>6. Stated(walk', e)
  BY <1>1, <1>3, <1>4 DEF Stated, readFailures
<1>7. Real(root, walk', expired, "depth-limit")
  <2>1. Len(stack) + walk.heights[input.ref] >= MaxDepth
    <3>1. Len(stack) \in Nat /\ MaxDepth \in Nat /\ walk.heights[input.ref] \in Nat
      BY <1>1, Visiting
    <3> QED
      BY <1>1, <3>1
  <2>2. Layers(walk.products, root)[MaxDepth] # {}
    BY <1>1, <2>1, Visiting, RealDepth
  <2> QED
    BY <1>4, <2>2 DEF Real, readFailures
<1>8. Raised(walk, walk', e.from, input.ref)
  BY <1>4 DEF Raised
<1>9. walk.heights[e.from] <= walk'.heights[e.from]
  BY <1>1, <1>3, <1>4, Visiting
<1>10. /\ root \in Products /\ expired \in BOOLEAN /\ Walking(root, walk, stack, expired)
       /\ Shortened(stack, stack', input)
  BY <1>1, Visiting DEF TraceInv
<1>11. /\ Len(stack) = MaxDepth => e.state \in {"depth-limit", "cross-namespace"}
       /\ e.state = "cycle" => input.ref \in On(stack)
       /\ e.state = "resolved" => input.ref \in walk.visited /\ walk'.heights[input.ref] < walk'.heights[e.from]
       /\ walk'.issues = {} => Loaded(walk') = Loaded(walk) /\ Len(stack) + walk'.heights[e.from] <= MaxDepth
       /\ \A x \in walk'.issues : x \in walk.issues \/ Real(root, walk', expired, x)
  BY <1>3, <1>4, <1>7
<1>12. Listable(root, walk, stack, walk', input, e, expired)
  BY <1>6, <1>8, <1>9, <1>11 DEF Listable
<1> QED
  BY <1>1, <1>4, <1>5, <1>10, <1>12, ListKeeps

(* The producer is not held: the edge says why. *)
LEMMA InVainKeeps ==
  ASSUME TraceInv, looking, ~input.foreign, Len(stack) < MaxDepth, NEW m, NEW state, NEW moment,
         Looked(walk, m, input.ref, state, moment), m.products[input.ref] = None,
         walk' = WithEdge(m, state, "not-evaluated"), stack' = Passed
  PROVE  Walking(root, walk', stack', moment # "later")
<1>1. stack # <<>> /\ frame.left # {} /\ Len(walk.edges) < MaxEdges /\ ~expired
  BY DEF looking, active
<1>2. /\ walk \in Walks /\ stack \in Seq(Frames) /\ Nodes(walk) /\ Budgets(walk)
      /\ "timeout" \notin walk.issues /\ input.ref \in Products /\ input \in stack[Len(stack)].left
      /\ frame = stack[Len(stack)] /\ root \in Products
  BY <1>1, Visiting
<1>3. Got(walk, m, input.ref)
  BY <1>2, ReadGets
<1>4. /\ state \in unread \cup {"product-limit"} /\ state \in m.issues
      /\ m.issues \subseteq walk.issues \cup {state}
      /\ state \in readFailures => m.nodes[input.ref] = Failed(state) /\ input.ref \in Attempts(m)
      /\ state = "timeout" => /\ moment # "later"
                              /\ m.nodes[input.ref] = None \/ m.nodes[input.ref] = Failed("timeout")
      /\ state = "product-limit" => /\ walk.nodes[input.ref] = None /\ m.nodes = walk.nodes
                                    /\ Cardinality(Attempts(walk)) >= MaxProducts
  BY <1>2, ReadFails
<1>5. /\ m \in Walks /\ Grown(walk, m) /\ m.visited = walk.visited /\ m.heights = walk.heights
      /\ m.edges = walk.edges
  BY <1>3 DEF Got
<1>6. state \in failures \cup {"resolved"} /\ "not-evaluated" \in compatibilities
  BY <1>4 DEF unread, readFailures, failures, compatibilities
<1>7. /\ walk' \in Walks /\ walk'.issues = m.issues
      /\ walk'.products = m.products /\ walk'.nodes = m.nodes
      /\ walk'.visited = m.visited /\ walk'.heights = m.heights /\ walk'.retained = m.retained
      /\ \E e \in lineageEdge :
           /\ walk'.edges = Append(m.edges, e)
           /\ e.from = frame.key /\ e.to = input.ref /\ e.foreign = input.foreign
           /\ e.input = input.name /\ e.depth = Len(stack) /\ e.requirement = input.contract
           /\ e.state = state /\ e.compatibility = "not-evaluated"
  <2>1. stack \in Seq(Frames) /\ stack # <<>> /\ frame.left # {} /\ m \in Walks
    BY <1>1, <1>2, <1>5
  <2> QED
    BY <1>6, <2>1, WithEdgeFacts
<1>8. PICK e \in lineageEdge :
           /\ Appends(m, walk', e)
           /\ e.from = frame.key /\ e.to = input.ref /\ e.foreign = input.foreign
           /\ e.input = input.name /\ e.depth = Len(stack) /\ e.requirement = input.contract
           /\ e.state = state /\ e.compatibility = "not-evaluated"
  BY <1>7 DEF Appends
<1>9. Turn(walk, stack, walk', input, e)
  <2>1. e.from = stack[Len(stack)].key /\ m.issues \subseteq walk'.issues
    BY <1>2, <1>7, <1>8
  <2>2. \A p \in Products \ {e.from} : walk'.heights[p] = walk.heights[p]
    BY <1>5, <1>7
  <2>3. /\ walk' \in Walks /\ walk'.products = m.products /\ walk'.nodes = m.nodes
        /\ walk'.visited = m.visited /\ walk'.retained = m.retained /\ Appends(m, walk', e)
    BY <1>7, <1>8
  <2>4. /\ e.to = input.ref /\ e.foreign = input.foreign /\ e.input = input.name
        /\ e.depth = Len(stack) /\ e.requirement = input.contract
    BY <1>8
  <2> QED
    BY <1>1, <1>2, <1>3, <2>1, <2>2, <2>3, <2>4, TurnMade
<1>10. Attempts(walk') = Attempts(m) /\ Loaded(walk') = Loaded(m)
  BY <1>7 DEF Attempts, Loaded
<1>11. Stated(walk', e)
  <2>1. state = "product-limit" => /\ walk'.nodes[input.ref] = None
                                   /\ Cardinality(Attempts(walk')) >= MaxProducts
    <3>1. m.nodes = walk.nodes => Attempts(m) = Attempts(walk)
      BY DEF Attempts
    <3> QED
      BY <1>4, <1>7, <1>10, <3>1
  <2> QED
    BY <1>4, <1>7, <1>8, <2>1 DEF Stated, unread, readFailures
<1>12. Real(root, walk', moment # "later", state)
  <2>1. CASE state \in readFailures
    <3>1. input.ref \in Attempts(walk') /\ walk'.products[input.ref] = None
      BY <1>4, <1>7, <1>10, <2>1
    <3> QED
      BY <2>1, <3>1 DEF Real, readFailures
  <2>2. CASE state = "timeout"
    BY <1>4, <2>2 DEF Real, readFailures
  <2>3. CASE state = "product-limit"
    <3>1. Cardinality(Graph(walk.products, root)) > MaxProducts
      <4>1. /\ Stacked(root, walk, stack) /\ Edged(root, walk, stack) /\ Hanging(root, walk)
            /\ input \in Ports(walk, stack[Len(stack)].key)
        BY <1>1, Visiting
      <4>2. walk.nodes[input.ref] = None /\ Cardinality(Attempts(walk)) >= MaxProducts
        BY <1>4, <2>3
      <4> QED
        BY <1>1, <1>2, <4>1, <4>2, RealProducts
    <3>2. Real(root, walk, FALSE, state)
      BY <2>3, <3>1 DEF Real, readFailures
    <3>3. Grown(walk, walk') /\ Nodes(walk')
      BY <1>9 DEF Turn
    <3>4. (moment # "later") \in BOOLEAN
      OBVIOUS
    <3> QED
      BY <1>2, <1>7, <3>2, <3>3, <3>4, RealStays
  <2> QED
    BY <1>4, <2>1, <2>2, <2>3 DEF unread
<1>13. Raised(walk, walk', e.from, input.ref)
  BY <1>5, <1>7 DEF Raised
<1>14. walk.heights[e.from] <= walk'.heights[e.from]
  BY <1>1, <1>5, <1>7, <1>8, Visiting
<1>15. /\ Walking(root, walk, stack, FALSE) /\ Shortened(stack, stack', input)
       /\ (moment # "later") \in BOOLEAN
  BY <1>1, Visiting DEF TraceInv
<1>16. /\ Len(stack) = MaxDepth => e.state \in {"depth-limit", "cross-namespace"}
       /\ e.state = "cycle" => input.ref \in On(stack)
       /\ e.state = "resolved" => input.ref \in walk.visited /\ walk'.heights[input.ref] < walk'.heights[e.from]
       /\ walk'.issues = {} => Loaded(walk') = Loaded(walk) /\ Len(stack) + walk'.heights[e.from] <= MaxDepth
       /\ \A x \in walk'.issues : x \in walk.issues \/ Real(root, walk', moment # "later", x)
  <2>1. Len(stack) # MaxDepth
    BY <1>1, Visiting
  <2>2. state # "cycle" /\ state # "resolved"
    BY <1>4 DEF unread, readFailures
  <2> QED
    BY <1>4, <1>7, <1>8, <1>12, <2>1, <2>2
<1>17. Listable(root, walk, stack, walk', input, e, moment # "later")
  BY <1>11, <1>13, <1>14, <1>16 DEF Listable
<1> QED
  BY <1>1, <1>2, <1>7, <1>9, <1>15, <1>17, ListKeeps

(* The edge to a product that is held, with the verdict on its contract. *)
HeldEdge(m, n, e, state) ==
  /\ Appends(m, n, e) /\ e \in lineageEdge
  /\ e.from = frame.key /\ e.to = input.ref /\ e.foreign = input.foreign
  /\ e.input = input.name /\ e.depth = Len(stack) /\ e.requirement = input.contract
  /\ e.state = state /\ e.compatibility = compatibility(input, m.products[input.ref])

LEMMA HeldStated ==
  ASSUME ~input.foreign, input \in InputPorts, NEW m, NEW n, NEW e, NEW state, HeldEdge(m, n, e, state),
         input.ref \in Loaded(m), n.products = m.products,
         state \in {"resolved", "timeout", "cycle", "depth-limit"},
         state # "resolved" => state \in n.issues
  PROVE  Stated(n, e)
<1> DEFINE fit == compatibility(input, m.products[input.ref])
<1>1. /\ fit # "not-evaluated"
      /\ fit = "contract-incompatible" => input.contract # None
      /\ fit = "compatible" /\ input.contract # None =>
           compatibleVersion(m.products[input.ref].spec.version, input.contract.minimumVersion)
  BY CompatibilityFacts
<1>2. input.ref \in Loaded(n)
  BY DEF Loaded
<1>3. /\ e.to = input.ref /\ e.foreign = input.foreign /\ e.requirement = input.contract
      /\ e.state = state /\ e.compatibility = fit
  BY DEF HeldEdge
<1> HIDE DEF fit
<1> QED
  BY <1>1, <1>2, <1>3 DEF Stated, readFailures

(* The producer is held, and its own visit is over or never begun. *)
LEMMA OverKeeps ==
  ASSUME TraceInv, looking, ~input.foreign, Len(stack) < MaxDepth, NEW m, NEW seen, NEW moment,
         Looked(walk, m, input.ref, seen, moment), m.products[input.ref] # None, NEW e, NEW state,
         walk' \in Walks, HeldEdge(m, walk', e, state), stack' = Passed,
         walk'.products = m.products, walk'.nodes = m.nodes, walk'.visited = m.visited,
         walk'.retained = m.retained,
         walk'.issues = IF state = "resolved" THEN m.issues ELSE m.issues \cup {state},
         \A p \in Products \ {frame.key} : walk'.heights[p] = m.heights[p],
         walk'.heights[frame.key] = IF m.heights[frame.key] > m.heights[input.ref]
                                    THEN m.heights[frame.key] ELSE 1 + m.heights[input.ref],
         \/ state = "timeout" /\ moment # "later"
         \/ state = "cycle" /\ input.ref \in visiting
         \/ /\ state = "depth-limit" /\ input.ref \in m.visited
            /\ Len(stack) + m.heights[input.ref] >= MaxDepth
         \/ /\ state = "resolved" /\ input.ref \in m.visited /\ input.ref \notin visiting
            /\ ~(Len(stack) + m.heights[input.ref] >= MaxDepth)
  PROVE  Walking(root, walk', stack', moment # "later")
<1>1. stack # <<>> /\ frame.left # {} /\ Len(walk.edges) < MaxEdges /\ ~expired
  BY DEF looking, active
<1>2. /\ walk \in Walks /\ stack \in Seq(Frames) /\ Nodes(walk) /\ Budgets(walk)
      /\ "timeout" \notin walk.issues /\ input.ref \in Products /\ input \in stack[Len(stack)].left
      /\ frame = stack[Len(stack)] /\ root \in Products /\ input \in InputPorts
      /\ visiting = On(stack) /\ walk.heights \in [Products -> Nat] /\ Len(stack) \in Nat
      /\ MaxDepth \in Nat /\ frame.key \in Products
  BY <1>1, Visiting
<1>3. /\ Stacked(root, walk, stack) /\ Edged(root, walk, stack) /\ Realised(walk)
      /\ Whole(root, walk, stack) /\ frame.key \in Loaded(walk) /\ input \in Ports(walk, stack[Len(stack)].key)
  BY <1>1, Visiting
<1>4. Got(walk, m, input.ref)
  BY <1>2, ReadGets
<1>5. /\ input.ref \in Loaded(m) /\ m.issues = walk.issues
      /\ input.ref \in Loaded(walk) => m = walk
  BY <1>2, ReadHolds
<1>6. m.visited = walk.visited /\ m.heights = walk.heights /\ m \in Walks
  BY <1>4 DEF Got
<1>7. /\ Appends(m, walk', e) /\ e.from = frame.key /\ e.to = input.ref /\ e.foreign = input.foreign
      /\ e.input = input.name /\ e.depth = Len(stack) /\ e.requirement = input.contract /\ e.state = state
  BY DEF HeldEdge
<1>8. Turn(walk, stack, walk', input, e)
  <2>1. e.from = stack[Len(stack)].key /\ m.issues \subseteq walk'.issues
    BY <1>2, <1>7
  <2>2. \A p \in Products \ {e.from} : walk'.heights[p] = walk.heights[p]
    BY <1>6, <1>7
  <2> QED
    BY <1>1, <1>2, <1>4, <1>7, <2>1, <2>2, TurnMade
<1>9. /\ state \in {"resolved", "timeout", "cycle", "depth-limit"}
      /\ state # "resolved" => state \in walk'.issues
  OBVIOUS
<1>10. Stated(walk', e)
  BY <1>2, <1>5, <1>9, HeldStated
<1>11. Grown(walk, walk') /\ Nodes(walk')
  BY <1>8 DEF Turn
<1>12. Raised(walk, walk', e.from, input.ref)
  <2>1. Joins(Links(walk'.products), frame.key, input.ref)
    <3>1. frame.key \in Loaded(walk') /\ Ports(walk', frame.key) = Ports(walk, frame.key)
      BY <1>2, <1>3, <1>11, GrownFacts
    <3> QED
      BY <1>2, <1>3, <3>1, PortLinks
  <2> QED
    BY <1>6, <1>7, <2>1 DEF Raised
<1>13. walk.heights[e.from] <= walk'.heights[e.from]
  <2>1. walk.heights[frame.key] \in Nat /\ walk.heights[input.ref] \in Nat
    BY <1>2
  <2> QED
    BY <1>6, <1>7, <2>1
<1>14. state = "resolved" => /\ input.ref \in walk.visited /\ input.ref \in Loaded(walk)
                             /\ walk'.heights[input.ref] < walk'.heights[e.from]
  <2> SUFFICES ASSUME state = "resolved"
               PROVE  /\ input.ref \in walk.visited /\ input.ref \in Loaded(walk)
                      /\ walk'.heights[input.ref] < walk'.heights[e.from]
    OBVIOUS
  <2>1. input.ref \in walk.visited /\ input.ref \notin On(stack)
    BY <1>2, <1>6
  <2>2. input.ref \in Loaded(walk)
    BY <2>1 , <1>2 DEF Nodes
  <2>3. input.ref # frame.key
    <3>1. Len(stack) \in DOMAIN stack
      BY <1>1, <1>2, TopFrame
    <3> QED
      BY <1>2, <2>1, <3>1 DEF On
  <2>4. walk'.heights[input.ref] = walk.heights[input.ref]
    BY <1>2, <1>6, <2>3
  <2>5. walk.heights[frame.key] \in Nat /\ walk.heights[input.ref] \in Nat
    BY <1>2
  <2> QED
    BY <1>6, <1>7, <2>1, <2>2, <2>4, <2>5
<1>15. walk'.issues = {} => Loaded(walk') = Loaded(walk) /\ Len(stack) + walk'.heights[e.from] <= MaxDepth
  <2> SUFFICES ASSUME walk'.issues = {}
               PROVE  Loaded(walk') = Loaded(walk) /\ Len(stack) + walk'.heights[e.from] <= MaxDepth
    OBVIOUS
  <2>1. state = "resolved" /\ walk.issues = {}
    BY <1>5
  <2>2. m = walk
    BY <1>5, <1>14, <2>1
  <2>3. Loaded(walk') = Loaded(walk)
    BY <2>2 DEF Loaded
  <2>4. Len(stack) + walk.heights[frame.key] <= MaxDepth
    <3>1. Len(stack) \in DOMAIN stack
      BY <1>1, <1>2, TopFrame
    <3> QED
      BY <1>2, <1>3, <2>1, <3>1 DEF Whole
  <2>5. ~(Len(stack) + walk.heights[input.ref] >= MaxDepth)
    BY <2>1, <2>2
  <2>6. walk.heights[frame.key] \in Nat /\ walk.heights[input.ref] \in Nat
    BY <1>2
  <2>7. Len(stack) + (1 + walk.heights[input.ref]) <= MaxDepth
    BY <1>2, <2>5, <2>6
  <2>8. /\ e.from = frame.key
        /\ walk'.heights[frame.key] \in {walk.heights[frame.key], 1 + walk.heights[input.ref]}
    BY <1>6, <1>7
  <2> QED
    BY <2>3, <2>4, <2>7, <2>8
<1>16. state # "resolved" => Real(root, walk', moment # "later", state)
  <2> SUFFICES ASSUME state # "resolved" PROVE Real(root, walk', moment # "later", state)
    OBVIOUS
  <2>1. CASE state = "timeout" /\ moment # "later"
    BY <2>1 DEF Real, readFailures
  <2>2. CASE state # "timeout"
    <3>1. Real(root, walk, FALSE, state)
      <4>1. CASE state = "cycle" /\ input.ref \in visiting
        <5>1. Cyclic(walk.products, root)
          BY <1>1, <1>2, <1>3, <4>1, RealCycle
        <5> QED
          BY <4>1, <5>1 DEF Real, readFailures
      <4>2. CASE state = "depth-limit" /\ Len(stack) + m.heights[input.ref] >= MaxDepth
        <5>1. Len(stack) + walk.heights[input.ref] >= MaxDepth
          BY <1>6, <4>2
        <5>2. Layers(walk.products, root)[MaxDepth] # {}
          BY <1>1, <1>2, <1>3, <5>1, RealDepth
        <5> QED
          BY <4>2, <5>2 DEF Real, readFailures
      <4> QED
        BY <2>2, <4>1, <4>2
    <3>2. (moment # "later") \in BOOLEAN
      OBVIOUS
    <3> QED
      BY <1>2, <1>11, <3>1, <3>2, RealStays
  <2> QED
    BY <2>1, <2>2
<1>17. /\ Walking(root, walk, stack, FALSE) /\ Shortened(stack, stack', input)
       /\ (moment # "later") \in BOOLEAN
  BY <1>1, Visiting DEF TraceInv
<1>18. /\ Len(stack) = MaxDepth => e.state \in {"depth-limit", "cross-namespace"}
       /\ e.state = "cycle" => input.ref \in On(stack)
       /\ \A x \in walk'.issues : x \in walk.issues \/ Real(root, walk', moment # "later", x)
  <2>1. Len(stack) # MaxDepth
    BY <1>2
  <2>2. state = "cycle" => input.ref \in On(stack)
    BY <1>2
  <2> QED
    BY <1>5, <1>7, <1>16, <2>1, <2>2
<1>19. Listable(root, walk, stack, walk', input, e, moment # "later")
  BY <1>7, <1>10, <1>12, <1>13, <1>14, <1>15, <1>18 DEF Listable
<1> QED
  BY <1>1, <1>2, <1>8, <1>17, <1>19, ListKeeps

Begins(m) == stack' = Append(Passed, Frame(m, input.ref))

(* The producer is held and its own visit begins. *)
LEMMA BeginKeeps ==
  ASSUME TraceInv, looking, ~input.foreign, Len(stack) < MaxDepth, NEW m, NEW seen, NEW moment,
         Looked(walk, m, input.ref, seen, moment), m.products[input.ref] # None, NEW e,
         walk' \in Walks, HeldEdge(m, walk', e, "resolved"),
         Begins(m),
         walk'.products = m.products, walk'.nodes = m.nodes, walk'.visited = m.visited,
         walk'.retained = m.retained, walk'.issues = m.issues, walk'.heights = m.heights,
         input.ref \notin visiting, input.ref \notin m.visited
  PROVE  Walking(root, walk', stack', moment # "later") /\ stack' # <<>>
<1>1. stack # <<>> /\ frame.left # {} /\ Len(walk.edges) < MaxEdges /\ ~expired
  BY DEF looking, active
<1>2. /\ walk \in Walks /\ stack \in Seq(Frames) /\ Nodes(walk) /\ Budgets(walk)
      /\ "timeout" \notin walk.issues /\ input.ref \in Products /\ input \in stack[Len(stack)].left
      /\ frame = stack[Len(stack)] /\ root \in Products /\ input \in InputPorts
      /\ visiting = On(stack) /\ Shortened(stack, Passed, input)
  BY <1>1, Visiting
<1>3. Got(walk, m, input.ref)
  BY <1>2, ReadGets
<1>4. input.ref \in Loaded(m) /\ m.issues = walk.issues
  BY <1>2, ReadHolds
<1>5. m.visited = walk.visited /\ m.heights = walk.heights /\ Loaded(m) \subseteq Loaded(walk) \cup {input.ref}
  BY <1>3 DEF Got
<1>6. /\ Appends(m, walk', e) /\ e.from = frame.key /\ e.to = input.ref /\ e.foreign = input.foreign
      /\ e.input = input.name /\ e.depth = Len(stack) /\ e.requirement = input.contract
      /\ e.state = "resolved"
  BY DEF HeldEdge
<1>7. Turn(walk, stack, walk', input, e)
  <2>1. e.from = stack[Len(stack)].key /\ m.issues \subseteq walk'.issues
    BY <1>2, <1>6
  <2>2. \A p \in Products \ {e.from} : walk'.heights[p] = walk.heights[p]
    BY <1>5
  <2> QED
    BY <1>1, <1>2, <1>3, <1>6, <2>1, <2>2, TurnMade
<1>8. Stated(walk', e)
  BY <1>2, <1>4, HeldStated
<1>9. Loaded(walk') = Loaded(m) /\ Ports(walk', input.ref) = Ports(m, input.ref)
  BY DEF Loaded, Ports
<1>10. Entered(walk', Passed, stack', input.ref)
  <2>1. Passed \in Seq(Frames)
    BY <1>2 DEF Shortened
  <2>2. stack' = Append(Passed, [key |-> input.ref, left |-> Ports(walk', input.ref)])
    BY DEF Begins, Frame, Ports
  <2> QED
    BY <1>4, <1>9, <2>1, <2>2, EnteredFacts
<1>11. Walking(root, walk, stack, FALSE) /\ (moment # "later") \in BOOLEAN
  BY <1>1, Visiting DEF TraceInv
<1>12. /\ input.ref \in Loaded(walk') /\ input.ref \notin walk.visited \cup On(stack)
       /\ walk'.heights = walk.heights /\ Loaded(walk') \subseteq Loaded(walk) \cup {input.ref}
       /\ walk'.issues = walk.issues
  BY <1>2, <1>4, <1>5, <1>9
<1>13. Walking(root, walk', stack', moment # "later")
  <2>1. Enterable(walk, stack, walk', input, e)
    BY <1>6, <1>8, <1>12 DEF Enterable
  <2> QED
    BY <1>1, <1>2, <1>7, <1>10, <1>11, <2>1, EnterKeeps
<1>14. stack' # <<>>
  BY <1>10 DEF Entered
<1> QED
  BY <1>13, <1>14

LEMMA HeldFacts ==
  ASSUME TraceInv, stack # <<>>, frame.left # {}, NEW m \in Walks, NEW state \in failures \cup {"resolved"}
  PROVE  LET known == WithEdge(m, state, compatibility(input, m.products[input.ref]))
         IN  /\ known \in Walks /\ known.issues = m.issues
             /\ known.products = m.products /\ known.nodes = m.nodes
             /\ known.visited = m.visited /\ known.heights = m.heights /\ known.retained = m.retained
             /\ \E e : HeldEdge(m, known, e, state)
<1> DEFINE fit == compatibility(input, m.products[input.ref])
           known == WithEdge(m, state, fit)
<1>1. stack \in Seq(Frames) /\ input \in InputPorts
  BY Visiting
<1>2. fit \in compatibilities
  BY <1>1, CompatibilityFacts
<1>3. known = WithEdge(m, state, fit)
  OBVIOUS
<1> HIDE DEF fit, known
<1>4. stack \in Seq(Frames) /\ stack # <<>> /\ frame.left # {}
  BY <1>1
<1>5. /\ known \in Walks /\ known.issues = m.issues
      /\ known.products = m.products /\ known.nodes = m.nodes
      /\ known.visited = m.visited /\ known.heights = m.heights /\ known.retained = m.retained
      /\ \E e \in lineageEdge :
           /\ known.edges = Append(m.edges, e)
           /\ e.from = frame.key /\ e.to = input.ref /\ e.foreign = input.foreign
           /\ e.input = input.name /\ e.depth = Len(stack) /\ e.requirement = input.contract
           /\ e.state = state /\ e.compatibility = fit
  BY <1>2, <1>3, <1>4, WithEdgeFacts
<1>6. \E e : HeldEdge(m, known, e, state)
  BY <1>5 DEF HeldEdge, Appends, fit
<1> QED
  BY <1>5, <1>6 DEF known, fit

LEMMA InspectKeeps ==
  ASSUME TraceInv, Inspect
  PROVE  /\ Walking(root, walk', stack', expired') /\ expired' \in BOOLEAN
         /\ stack' = Passed \/ stack' # <<>>
<1>1. /\ looking /\ ~input.foreign /\ Len(stack) < MaxDepth
      /\ stack # <<>> /\ frame.left # {} /\ ~expired
  BY DEF Inspect, looking, active
<1>2. PICK moment \in Moments, breakdown \in world.breakdowns \cup {None} :
       LET r == read(walk, input.ref, moment, breakdown)
           object == r.walk.products[input.ref]
           state == verdict(r.walk, input.ref, moment)
           known == WithEdge(r.walk, IF state = "enter" THEN "resolved" ELSE state,
                             compatibility(input, object))
           over == Taller(known, frame.key, input.ref)
       IN  /\ expired' = (moment # "later")
           /\ \/ /\ object = None
                 /\ walk' = WithEdge(r.walk, r.state, "not-evaluated") /\ stack' = Passed
              \/ /\ object # None /\ state = "enter"
                 /\ walk' = known /\ stack' = Append(Passed, Frame(r.walk, input.ref))
              \/ /\ object # None /\ state = "resolved"
                 /\ walk' = over /\ stack' = Passed
              \/ /\ object # None /\ state \in failures
                 /\ walk' = incomplete(over, state) /\ stack' = Passed
  BY DEF Inspect
<1> DEFINE r == read(walk, input.ref, moment, breakdown)
           m == r.walk
           object == m.products[input.ref]
           state == verdict(m, input.ref, moment)
           said == IF state = "enter" THEN "resolved" ELSE state
           known == WithEdge(m, said, compatibility(input, object))
           over == Taller(known, frame.key, input.ref)
<1>3. expired' = (moment # "later")
  BY <1>2
<1>4. \/ /\ object = None
         /\ walk' = WithEdge(m, r.state, "not-evaluated") /\ stack' = Passed
      \/ /\ object # None /\ state = "enter"
         /\ walk' = known /\ Begins(m)
      \/ /\ object # None /\ state = "resolved"
         /\ walk' = over /\ stack' = Passed
      \/ /\ object # None /\ state \in failures
         /\ walk' = incomplete(over, state) /\ stack' = Passed
  BY <1>2 DEF Begins
<1>5. /\ walk \in Walks /\ walk.retained <= MaxMetadata /\ input.ref \in Products /\ StoreTyped
      /\ frame.key \in Products
  BY <1>1, Visiting DEF Budgets, TraceInv
<1>6. Looked(walk, m, input.ref, r.state, moment)
  BY <1>5, ReadFacts
<1>7. m \in Walks
  BY <1>6 DEF Looked
<1>8. \/ state = "timeout" /\ moment # "later"
      \/ state = "cycle" /\ input.ref \in visiting
      \/ /\ state = "depth-limit" /\ input.ref \in m.visited
         /\ Len(stack) + m.heights[input.ref] >= MaxDepth
      \/ /\ state = "resolved" /\ input.ref \in m.visited /\ input.ref \notin visiting
         /\ ~(Len(stack) + m.heights[input.ref] >= MaxDepth)
      \/ state = "enter" /\ input.ref \notin visiting /\ input.ref \notin m.visited
  BY DEF verdict
<1> HIDE DEF r, m, state
<1>9. said \in failures \cup {"resolved"}
  BY <1>8 DEF failures
<1>10. /\ known \in Walks /\ known.issues = m.issues
       /\ known.products = m.products /\ known.nodes = m.nodes
       /\ known.visited = m.visited /\ known.heights = m.heights /\ known.retained = m.retained
       /\ \E e : HeldEdge(m, known, e, said)
  BY <1>1, <1>7, <1>9, HeldFacts
<1>11. PICK e : HeldEdge(m, known, e, said)
  BY <1>10
<1>12. CASE object = None
  <2>1. walk' = WithEdge(m, r.state, "not-evaluated") /\ stack' = Passed
    BY <1>4, <1>12
  <2> QED
    BY <1>1, <1>3, <1>6, <1>12, <2>1, InVainKeeps
<1>13. CASE object # None /\ state = "enter"
  <2>1. walk' = known /\ Begins(m) /\ said = "resolved"
    BY <1>4, <1>13 DEF failures
  <2>2. input.ref \notin visiting /\ input.ref \notin m.visited
    BY <1>8, <1>13
  <2> HIDE DEF known, said
  <2>3. /\ walk' \in Walks /\ walk'.issues = m.issues
        /\ walk'.products = m.products /\ walk'.nodes = m.nodes
        /\ walk'.visited = m.visited /\ walk'.heights = m.heights /\ walk'.retained = m.retained
        /\ HeldEdge(m, walk', e, "resolved")
    BY <1>10, <1>11, <2>1
  <2>4. Walking(root, walk', stack', moment # "later") /\ stack' # <<>>
    BY <1>1, <1>6, <1>13, <2>1, <2>2, <2>3, BeginKeeps
  <2> QED
    BY <1>3, <2>4
<1>14. CASE object # None /\ state # "enter"
  <2>1. said = state /\ stack' = Passed
    BY <1>4, <1>14
  <2> HIDE DEF known, said
  <2>2. /\ over \in Walks /\ over.issues = known.issues
        /\ over.products = known.products /\ over.nodes = known.nodes
        /\ over.visited = known.visited
        /\ over.retained = known.retained /\ over.edges = known.edges
        /\ \A p \in Products \ {frame.key} : over.heights[p] = known.heights[p]
        /\ over.heights[frame.key] = IF known.heights[frame.key] > known.heights[input.ref]
                                     THEN known.heights[frame.key] ELSE 1 + known.heights[input.ref]
    <3>1. known \in Walks
      BY <1>10
    <3> QED
      BY <1>5, <3>1, TallerFacts, ZenonT(30)
  <2>3. walk' = IF state = "resolved" THEN over ELSE incomplete(over, state)
    BY <1>4, <1>14 DEF failures
  <2>4. state # "resolved" => state \in failures
    BY <1>4, <1>14
  <2> HIDE DEF over
  <2>5. /\ walk' \in Walks
        /\ walk'.issues = IF state = "resolved" THEN over.issues ELSE over.issues \cup {state}
        /\ walk'.products = over.products /\ walk'.nodes = over.nodes
        /\ walk'.visited = over.visited /\ walk'.heights = over.heights
        /\ walk'.retained = over.retained /\ walk'.edges = over.edges
    BY <2>2, <2>3, <2>4, IncompleteFacts
  <2>6. /\ walk'.products = m.products /\ walk'.nodes = m.nodes /\ walk'.visited = m.visited
        /\ walk'.retained = m.retained /\ walk'.edges = known.edges
        /\ walk'.issues = IF state = "resolved" THEN m.issues ELSE m.issues \cup {state}
    BY <1>10, <2>2, <2>5
  <2>7. /\ \A p \in Products \ {frame.key} : walk'.heights[p] = m.heights[p]
        /\ walk'.heights[frame.key] = IF m.heights[frame.key] > m.heights[input.ref]
                                      THEN m.heights[frame.key] ELSE 1 + m.heights[input.ref]
    BY <1>10, <2>2, <2>5
  <2>8. HeldEdge(m, walk', e, state)
    BY <1>11, <2>1, <2>6 DEF HeldEdge, Appends
  <2>9. \/ state = "timeout" /\ moment # "later"
        \/ state = "cycle" /\ input.ref \in visiting
        \/ /\ state = "depth-limit" /\ input.ref \in m.visited
           /\ Len(stack) + m.heights[input.ref] >= MaxDepth
        \/ /\ state = "resolved" /\ input.ref \in m.visited /\ input.ref \notin visiting
           /\ ~(Len(stack) + m.heights[input.ref] >= MaxDepth)
    BY <1>8, <1>14
  <2>10. Walking(root, walk', stack', moment # "later")
    BY <1>1, <1>6, <1>14, <2>1, <2>5, <2>6, <2>7, <2>8, <2>9, OverKeeps
  <2> QED
    BY <1>3, <2>1, <2>10
<1> QED
  BY <1>12, <1>13, <1>14

LEMMA BreakOffKeeps ==
  ASSUME TraceInv, BreakOff
  PROVE  Walking(root, walk', stack', expired) /\ stack' # <<>>
<1> DEFINE x == IF Len(walk.edges) >= MaxEdges THEN "edge-limit" ELSE "timeout"
<1>1. stack # <<>> /\ frame.left # {}
  BY DEF BreakOff, active
<1>9. /\ Len(walk.edges) >= MaxEdges \/ expired
      /\ walk' = incomplete(walk, x) /\ stack' = [stack EXCEPT ![Len(stack)].left = {}]
  BY DEF BreakOff
<1>2. /\ walk \in Walks /\ stack \in Seq(Frames) /\ Nodes(walk) /\ Stacked(root, walk, stack)
      /\ Edged(root, walk, stack) /\ input \in stack[Len(stack)].left /\ root \in Products
      /\ expired \in BOOLEAN /\ Walking(root, walk, stack, expired)
  BY <1>1, Visiting DEF TraceInv
<1>3. Real(root, walk, expired, x)
  <2>1. CASE Len(walk.edges) >= MaxEdges
    <3>1. Cardinality(InputNames(walk)) > MaxEdges
      BY <1>1, <1>2, <2>1, RealEdges
    <3> QED
      BY <2>1, <3>1 DEF Real, readFailures
  <2>2. CASE ~(Len(walk.edges) >= MaxEdges)
    BY <1>9, <2>2 DEF Real, readFailures
  <2> QED
    BY <2>1, <2>2
<1>4. x \in failures
  BY DEF failures
<1> HIDE DEF x
<1>5. /\ walk' \in Walks /\ walk'.issues = walk.issues \cup {x}
      /\ walk'.products = walk.products /\ walk'.nodes = walk.nodes
      /\ walk'.visited = walk.visited /\ walk'.heights = walk.heights
      /\ walk'.retained = walk.retained /\ walk'.edges = walk.edges
  BY <1>2, <1>4, <1>9, IncompleteFacts
<1>6. /\ stack' \in Seq(Frames) /\ Len(stack') = Len(stack) /\ DOMAIN stack' = DOMAIN stack
      /\ \A j \in DOMAIN stack : stack'[j].key = stack[j].key /\ stack'[j].left \subseteq stack[j].left
  <2>1. /\ Len(stack) \in DOMAIN stack /\ frame = stack[Len(stack)] /\ frame \in Frames
        /\ frame.key \in Products
    BY <1>1, <1>2, TopFrame
  <2> DEFINE top == [frame EXCEPT !.left = {}]
  <2>2. stack' = [stack EXCEPT ![Len(stack)] = top]
    BY <1>9, <2>1
  <2>3. top \in Frames /\ top.key = frame.key /\ top.left = {}
    BY <2>1 DEF Frames
  <2> HIDE DEF top
  <2>4. stack' \in Seq(Frames) /\ Len(stack') = Len(stack) /\ DOMAIN stack' = DOMAIN stack
    BY <1>2, <2>1, <2>2, <2>3, ExceptSeq
  <2>5. stack'[Len(stack)] = top /\ \A j \in DOMAIN stack : j # Len(stack) => stack'[j] = stack[j]
    BY <2>1, <2>2
  <2> QED
    BY <2>1, <2>3, <2>4, <2>5
<1>7. Walking(root, walk', stack', expired)
  BY <1>2, <1>3, <1>5, <1>6, BreakKeeps
<1>8. stack' # <<>>
  BY <1>1, <1>2, <1>6, EmptySeq
<1> QED
  BY <1>7, <1>8

LEMMA ReturnStep ==
  ASSUME TraceInv, Return
  PROVE  /\ Walking(root, walk', stack', expired) /\ walk'.products = walk.products
         /\ \/ stack' = <<>> /\ pc' = "respond"
            \/ stack' # <<>> /\ pc' = pc
<1> DEFINE w == [walk EXCEPT !.visited = @ \cup {frame.key}]
           rest == SubSeq(stack, 1, Len(stack) - 1)
<1>1. /\ stack # <<>> /\ frame.left = {} /\ stack' = rest
      /\ \/ rest = <<>> /\ walk' = w /\ pc' = "respond"
         \/ /\ rest # <<>> /\ walk' = Taller(w, rest[Len(rest)].key, frame.key)
            /\ pc' = pc
  BY DEF Return, active
<1>2. /\ root \in Products /\ expired \in BOOLEAN /\ Walking(root, walk, stack, expired)
      /\ walk \in Walks /\ stack \in Seq(Frames)
  BY DEF TraceInv, Walking
<1>3. /\ Len(stack) \in DOMAIN stack /\ Len(stack) \in Nat \ {0} /\ frame = stack[Len(stack)]
      /\ frame \in Frames /\ frame.key \in Products
  BY <1>1, <1>2, TopFrame
<1>4. /\ w \in Walks /\ w.visited = walk.visited \cup {frame.key}
      /\ w.issues = walk.issues /\ w.products = walk.products /\ w.nodes = walk.nodes
      /\ w.heights = walk.heights /\ w.retained = walk.retained /\ w.edges = walk.edges
  BY <1>2, <1>3 DEF Walks
<1>5. /\ rest \in Seq(Frames) /\ Len(rest) = Len(stack) - 1 /\ DOMAIN rest = 1 .. Len(stack) - 1
      /\ \A j \in DOMAIN rest : rest[j] = stack[j]
  <2>1. Len(stack) - 1 \in Nat /\ 1 \in Nat /\ Len(stack) - 1 <= Len(stack)
    BY <1>3
  <2>2. DOMAIN stack = 1 .. Len(stack)
    BY <1>2, LenProperties
  <2>3. \A j \in 1 .. Len(stack) - 1 : stack[j] \in Frames
    BY <1>2, <1>3, <2>2
  <2> QED
    BY <1>2, <1>3, <2>1, <2>2, <2>3
<1> HIDE DEF w, rest
<1>6. CASE rest = <<>>
  <2>1. walk' = w /\ pc' = "respond" /\ stack' = rest
    BY <1>1, <1>6
  <2>2. Walking(root, walk', stack', expired)
    <3>1. /\ walk' \in Walks /\ walk'.issues = walk.issues /\ walk'.products = walk.products
          /\ walk'.nodes = walk.nodes /\ walk'.retained = walk.retained /\ walk'.edges = walk.edges
          /\ walk'.visited = walk.visited \cup {stack[Len(stack)].key} /\ walk'.heights = walk.heights
      BY <1>3, <1>4, <2>1
    <3>2. stack # <<>> /\ stack[Len(stack)].left = {}
      BY <1>1, <1>3
    <3>3. /\ stack' \in Seq(Frames) /\ Len(stack') = Len(stack) - 1 /\ DOMAIN stack' = 1 .. Len(stack) - 1
          /\ \A j \in DOMAIN stack' : stack'[j] = stack[j]
      BY <1>5, <2>1
    <3>4. Settled(walk, walk', stack, stack')
      BY <1>6, <2>1, <3>1 DEF Settled
    <3> QED
      BY <1>2, <3>1, <3>2, <3>3, <3>4, ReturnKeeps
  <2> QED
    BY <1>4, <1>6, <2>1, <2>2
<1>7. CASE rest # <<>>
  <2>1. /\ Len(rest) = Len(stack) - 1 /\ Len(stack) - 1 \in DOMAIN rest
        /\ rest[Len(rest)] = stack[Len(stack) - 1]
    <3>1. Len(rest) # 0
      BY <1>5, <1>7, EmptySeq
    <3>2. Len(stack) - 1 \in 1 .. Len(stack) - 1
      BY <1>3, <1>5, <3>1
    <3> QED
      BY <1>5, <3>2
  <2> DEFINE under == stack[Len(stack) - 1].key
  <2>2. under \in Products
    <3>1. rest[Len(rest)] \in Frames
      BY <1>5, <2>1
    <3> QED
      BY <2>1, <3>1 DEF Frames
  <2>3. walk' = Taller(w, under, frame.key) /\ pc' = pc /\ stack' = rest
    BY <1>1, <1>7, <2>1
  <2> HIDE DEF under
  <2>4. /\ walk' \in Walks /\ walk'.issues = w.issues
        /\ walk'.products = w.products /\ walk'.nodes = w.nodes /\ walk'.visited = w.visited
        /\ walk'.retained = w.retained /\ walk'.edges = w.edges
        /\ \A p \in Products \ {under} : walk'.heights[p] = w.heights[p]
        /\ walk'.heights[under] = IF w.heights[under] > w.heights[frame.key]
                                  THEN w.heights[under] ELSE 1 + w.heights[frame.key]
    <3>1. w \in Walks /\ frame.key \in Products
      BY <1>3, <1>4
    <3> QED
      BY <2>2, <2>3, <3>1, TallerFacts, ZenonT(30)
  <2>5. /\ walk'.issues = walk.issues /\ walk'.products = walk.products /\ walk'.nodes = walk.nodes
        /\ walk'.retained = walk.retained /\ walk'.edges = walk.edges
        /\ walk'.visited = walk.visited \cup {stack[Len(stack)].key}
        /\ \A p \in Products \ {under} : walk'.heights[p] = walk.heights[p]
        /\ walk'.heights[under] = IF walk.heights[under] > walk.heights[stack[Len(stack)].key]
                                  THEN walk.heights[under] ELSE 1 + walk.heights[stack[Len(stack)].key]
    BY <1>3, <1>4, <2>4
  <2>6. Walking(root, walk', stack', expired)
    <3>1. Settled(walk, walk', stack, stack')
      BY <1>7, <2>3, <2>5 DEF Settled, under
    <3>2. stack # <<>> /\ stack[Len(stack)].left = {}
      BY <1>1, <1>3
    <3>3. /\ stack' \in Seq(Frames) /\ Len(stack') = Len(stack) - 1 /\ DOMAIN stack' = 1 .. Len(stack) - 1
          /\ \A j \in DOMAIN stack' : stack'[j] = stack[j]
      BY <1>5, <2>3
    <3> QED
      <4>1. /\ walk' \in Walks /\ walk'.issues = walk.issues /\ walk'.products = walk.products
            /\ walk'.nodes = walk.nodes /\ walk'.retained = walk.retained /\ walk'.edges = walk.edges
            /\ walk'.visited = walk.visited \cup {stack[Len(stack)].key}
        BY <2>4, <2>5
      <4> QED
        BY <1>2, <3>1, <3>2, <3>3, <4>1, ReturnKeeps
  <2> QED
    BY <1>7, <2>3, <2>5, <2>6
<1> QED
  BY <1>6, <1>7

(* A walk that has read at most its root. *)
LEMMA RootKeeps ==
  ASSUME NEW r \in Products, NEW m \in Walks, Nodes(m), Budgets(m), m.edges = <<>>, m.visited = {},
         m.heights = [p \in Products |-> 0], \A p \in Attempts(m) : p = r, NEW late,
         \A x \in m.issues : Real(r, m, late, x), NEW s,
         \/ s = <<>> /\ (m.issues = {} => Loaded(m) = {})
         \/ r \in Loaded(m) /\ s = <<[key |-> r, left |-> Ports(m, r)]>>
  PROVE  Walking(r, m, s, late)
<1>1. Listed(m) = {} /\ Joined(m) = {} /\ DOMAIN m.edges = {}
  BY DEF Listed, Joined
<1>2. \A p \in Loaded(m) : p = r
  BY LoadedAttempted
<1>3. /\ s \in Seq(Frames)
      /\ s = <<>> => DOMAIN s = {} /\ Len(s) = 0
      /\ s # <<>> => /\ r \in Loaded(m) /\ DOMAIN s = {1} /\ Len(s) = 1
                     /\ s[1].key = r /\ s[1].left = Ports(m, r)
  <2>1. CASE s = <<>>
    BY <2>1
  <2>2. CASE r \in Loaded(m) /\ s = <<[key |-> r, left |-> Ports(m, r)]>>
    <3>1. m.products[r].spec.inputs \in Seq(InputPorts)
      BY <2>2, WalkFields DEF Loaded, Holdings, Declarations, Specs
    <3>2. Ports(m, r) \in SUBSET InputPorts
      BY <3>1 DEF Ports
    <3> DEFINE f == [key |-> r, left |-> Ports(m, r)]
    <3>3. f \in Frames /\ f.key = r /\ f.left = Ports(m, r)
      BY <3>2 DEF Frames
    <3> HIDE DEF f
    <3>4. s = <<f>>
      BY <2>2 DEF f
    <3> QED
      BY <2>2, <3>3, <3>4
  <2> QED
    BY <2>1, <2>2
<1>4. \A p \in Products : m.heights[p] = 0
  OBVIOUS
<1>5. MaxDepth \in Nat \ {0} /\ 0 \in 0 .. Longest
  BY Sizes
<1>6. Stacked(r, m, s)
  <2>1. CASE s = <<>>
    BY <1>3, <1>5, <2>1 DEF Stacked
  <2>2. CASE s # <<>>
    <3>1. DOMAIN s = {1} /\ Len(s) = 1 /\ s[1].key = r /\ s[1].left = Ports(m, r) /\ r \in Loaded(m)
      BY <1>3, <2>2
    <3>2. Visit(m, s[1], 1)
      BY <1>1, <3>1 DEF Visit
    <3>3. 1 <= MaxDepth /\ 1 + 1 \notin {1}
      BY <1>5
    <3> QED
      BY <3>1, <3>2, <3>3 DEF Stacked
  <2> QED
    BY <2>1, <2>2
<1>7. Edged(r, m, s) /\ Falling(m, s)
  BY <1>1 DEF Edged, Falling
<1>8. Hanging(r, m)
  BY DEF Hanging
<1>9. Realised(m)
  <2> SUFFICES ASSUME NEW p \in Products, NEW n \in 0 .. Longest, n <= m.heights[p]
               PROVE  Layers(m.products, p)[n] # {}
    BY DEF Realised
  <2>1. n = 0
    BY <1>4, <1>5
  <2>2. Layers(m.products, p)[0] = {p}
    BY <1>5, WalkFields, LayersAreSteps, StepsDef
  <2> QED
    BY <2>1, <2>2
<1>10. Flat(m, s)
  BY <1>4 DEF Flat
<1>11. Whole(r, m, s)
  BY <1>2, <1>3, <1>4, <1>5 DEF Whole
<1> QED
  BY <1>3, <1>6, <1>7, <1>8, <1>9, <1>10, <1>11 DEF Walking

LEMMA EmptyFacts ==
  /\ EmptyWalk \in Walks /\ Nodes(EmptyWalk) /\ Budgets(EmptyWalk)
  /\ Attempts(EmptyWalk) = {} /\ Loaded(EmptyWalk) = {} /\ EmptyWalk.issues = {}
  /\ EmptyWalk.edges = <<>> /\ EmptyWalk.visited = {} /\ EmptyWalk.heights = [p \in Products |-> 0]
<1>1. /\ EmptyWalk.issues = {} /\ EmptyWalk.edges = <<>> /\ EmptyWalk.visited = {}
      /\ EmptyWalk.heights = [p \in Products |-> 0] /\ EmptyWalk.retained = 0
      /\ EmptyWalk.nodes = [p \in Products |-> None] /\ EmptyWalk.products = [p \in Products |-> None]
  BY DEF EmptyWalk
<1>2. EmptyWalk \in Walks
  <2>1. [p \in Products |-> 0] \in [Products -> Nat] /\ <<>> \in Seq(lineageEdge) /\ 0 \in Nat
    OBVIOUS
  <2>2. /\ [p \in Products |-> None] \in Holdings
        /\ [p \in Products |-> None] \in [Products -> Observations \cup {None}]
    BY DEF Holdings
  <2> QED
    BY <2>1, <2>2 DEF EmptyWalk, Walks
<1>3. Attempts(EmptyWalk) = {} /\ Loaded(EmptyWalk) = {}
  BY <1>1 DEF Attempts, Loaded
<1>4. Nodes(EmptyWalk)
  BY <1>1, <1>3 DEF Nodes
<1>5. Budgets(EmptyWalk)
  <2>1. Cardinality(Attempts(EmptyWalk)) = 0
    BY <1>3, FS_EmptySet
  <2>2. MaxProducts \in Nat /\ MaxEdges \in Nat /\ MaxMetadata \in Nat /\ Len(<<>>) = 0
    BY LimitsAssumption, TraceAssumption
  <2> QED
    BY <1>1, <2>1, <2>2 DEF Budgets
<1> QED
  BY <1>1, <1>2, <1>3, <1>4, <1>5

LEMMA ReadRootKeeps ==
  ASSUME TraceInv, ReadRoot
  PROVE  /\ Walking(root, walk', stack', expired') /\ expired' \in BOOLEAN
         /\ \/ stack' = <<>> /\ pc' = "done" /\ response'.refused
            \/ stack' = <<>> /\ pc' = "respond" /\ response' = None /\ root \in Loaded(walk')
            \/ stack' # <<>> /\ pc' = "visit" /\ response' = None /\ root \in Loaded(walk')
<1>1. PICK moment \in Moments, breakdown \in world.breakdowns \cup {None} :
       LET r == read(walk, root, IF expired THEN "before" ELSE moment, breakdown)
       IN  /\ expired' = (expired \/ moment # "later")
           /\ \/ /\ r.walk.products[root] = None
                 /\ response' = Refusal(r.state) /\ pc' = "done"
                 /\ walk' = r.walk /\ UNCHANGED stack
              \/ /\ r.walk.products[root] # None /\ moment # "later"
                 /\ walk' = incomplete(r.walk, "timeout") /\ pc' = "respond"
                 /\ UNCHANGED <<stack, response>>
              \/ /\ r.walk.products[root] # None /\ moment = "later"
                 /\ walk' = r.walk /\ stack' = <<Frame(r.walk, root)>> /\ pc' = "visit"
                 /\ UNCHANGED response
  BY DEF ReadRoot
<1> DEFINE when == IF expired THEN "before" ELSE moment
           r == read(walk, root, when, breakdown)
           m == r.walk
<1>2. /\ StoreTyped /\ expired \in BOOLEAN /\ root \in Products /\ walk = EmptyWalk
      /\ stack = <<>> /\ response = None
  BY DEF TraceInv, ReadRoot
<1>3. /\ expired' = (expired \/ moment # "later") /\ expired' \in BOOLEAN
      /\ when # "later" => expired'
  BY <1>1, <1>2
<1>4. Looked(EmptyWalk, m, root, r.state, when)
  <2>1. EmptyWalk \in Walks /\ EmptyWalk.retained <= MaxMetadata
    BY EmptyFacts DEF Budgets
  <2> QED
    BY <1>2, <2>1, ReadFacts
<1>5. \/ /\ m.products[root] = None
         /\ response' = Refusal(r.state) /\ pc' = "done"
         /\ walk' = m /\ stack' = <<>>
      \/ /\ m.products[root] # None /\ moment # "later"
         /\ walk' = incomplete(m, "timeout") /\ pc' = "respond"
         /\ stack' = <<>> /\ response' = None
      \/ /\ m.products[root] # None /\ moment = "later"
         /\ walk' = m /\ stack' = <<Frame(m, root)>> /\ pc' = "visit"
         /\ response' = None
  BY <1>1, <1>2
<1> HIDE DEF r, m, when
<1>6. Got(EmptyWalk, m, root)
  BY <1>2, <1>4, EmptyFacts, ReadGets
<1>7. /\ m \in Walks /\ Nodes(m) /\ m.edges = <<>> /\ m.visited = {}
      /\ m.heights = [p \in Products |-> 0] /\ \A p \in Attempts(m) : p = root
      /\ Cardinality(Attempts(m)) <= MaxProducts /\ m.retained <= MaxMetadata
  BY <1>6, EmptyFacts DEF Got
<1>8. Budgets(m)
  <2>1. Len(<<>>) = 0 /\ MaxEdges \in Nat
    BY LimitsAssumption
  <2> QED
    BY <1>7, <2>1 DEF Budgets
<1>9. CASE m.products[root] = None
  <2>1. response' = Refusal(r.state) /\ pc' = "done" /\ walk' = m /\ stack' = <<>>
    BY <1>5, <1>9
  <2>2. /\ r.state \in unread \cup {"product-limit"} /\ r.state \in m.issues
        /\ m.issues \subseteq EmptyWalk.issues \cup {r.state}
        /\ r.state \in readFailures => root \in Attempts(m)
        /\ r.state = "timeout" => when # "later"
        /\ r.state = "product-limit" => Cardinality(Attempts(EmptyWalk)) >= MaxProducts
    <3>1. EmptyWalk \in Walks /\ Nodes(EmptyWalk) /\ "timeout" \notin EmptyWalk.issues
      BY EmptyFacts
    <3> QED
      BY <1>2, <1>4, <1>9, <3>1, ReadFails
  <2>3. r.state # "product-limit"
    <3>1. Cardinality(Attempts(EmptyWalk)) = 0 /\ MaxProducts \in Nat \ {0}
      BY EmptyFacts, FS_EmptySet, LimitsAssumption
    <3> QED
      BY <2>2, <3>1
  <2>4. \A x \in m.issues : x = r.state
    BY <2>2, EmptyFacts
  <2>5. Real(root, m, expired', r.state)
    <3>1. CASE r.state = "timeout"
      BY <1>3, <2>2, <3>1 DEF Real, readFailures
    <3>2. CASE r.state \in readFailures
      BY <1>9, <2>2, <3>2 DEF Real, readFailures
    <3> QED
      BY <2>2, <2>3, <3>1, <3>2 DEF unread
  <2>6. m.issues # {} /\ \A x \in m.issues : Real(root, m, expired', x)
    BY <2>2, <2>4, <2>5
  <2>7. Walking(root, m, <<>>, expired')
    BY <1>2, <1>7, <1>8, <2>6, RootKeeps
  <2>8. response'.refused
    BY <2>1 DEF Refusal
  <2> QED
    BY <1>3, <2>1, <2>7, <2>8
<1>10. CASE m.products[root] # None
  <2>1. root \in Loaded(m) /\ m.issues = {}
    BY <1>2, <1>4, <1>10, EmptyFacts, ReadHolds
  <2>2. CASE moment = "later"
    <3>1. walk' = m /\ stack' = <<Frame(m, root)>> /\ pc' = "visit" /\ response' = None
      BY <1>5, <1>10, <2>2
    <3>2. stack' = <<[key |-> root, left |-> Ports(m, root)]>>
      BY <3>1 DEF Frame, Ports
    <3>3. Walking(root, m, stack', expired')
      BY <1>2, <1>7, <1>8, <2>1, <3>2, RootKeeps
    <3>4. stack' # <<>>
      BY <3>1
    <3> QED
      BY <1>3, <2>1, <3>1, <3>3, <3>4
  <2>3. CASE moment # "later"
    <3>1. walk' = incomplete(m, "timeout") /\ stack' = <<>> /\ pc' = "respond" /\ response' = None
      BY <1>5, <1>10, <2>3
    <3>2. /\ walk' \in Walks /\ walk'.issues = {"timeout"}
          /\ walk'.products = m.products /\ walk'.nodes = m.nodes
          /\ walk'.visited = m.visited /\ walk'.heights = m.heights
          /\ walk'.retained = m.retained /\ walk'.edges = m.edges
      BY <1>7, <2>1, <3>1, IncompleteFacts DEF failures
    <3>3. Attempts(walk') = Attempts(m) /\ Loaded(walk') = Loaded(m)
      BY <3>2 DEF Attempts, Loaded
    <3>4. Nodes(walk') /\ Budgets(walk')
      BY <1>7, <1>8, <2>1, <3>2, <3>3 DEF Nodes, Budgets
    <3>5. Real(root, walk', expired', "timeout")
      BY <1>3, <2>3 DEF Real, readFailures
    <3>6. walk'.issues # {} /\ \A x \in walk'.issues : Real(root, walk', expired', x)
      BY <3>2, <3>5
    <3>7. /\ walk'.edges = <<>> /\ walk'.visited = {} /\ walk'.heights = [p \in Products |-> 0]
          /\ \A p \in Attempts(walk') : p = root
      BY <1>7, <3>2, <3>3
    <3>8. Walking(root, walk', <<>>, expired')
      BY <1>2, <3>2, <3>4, <3>6, <3>7, RootKeeps
    <3> QED
      BY <1>3, <2>1, <3>1, <3>3, <3>8
  <2> QED
    BY <2>2, <2>3
<1> QED
  BY <1>9, <1>10

LEMMA TraceBegins == Init => TraceInv
<1> SUFFICES ASSUME Init PROVE TraceInv
  OBVIOUS
<1>1. /\ world \in Worlds /\ expired = FALSE /\ root \in Products /\ pc = "read" /\ walk = EmptyWalk
      /\ stack = <<>> /\ response = None
      /\ store \in [Products -> UNION {world.held[p] : p \in Products}]
      /\ \A p \in Products : store[p] \in world.held[p]
  BY DEF Init
<1>2. StoreTyped
  <2>1. \A p \in Products : store[p] = None \/ (store[p] \in Objects /\ store[p].spec \in Manifests[p])
    BY <1>1, TraceAssumption
  <2> QED
    BY <1>1, <2>1 DEF StoreTyped
<1>3. Walking(root, walk, stack, expired)
  <2>1. /\ EmptyWalk \in Walks /\ Nodes(EmptyWalk) /\ Budgets(EmptyWalk)
        /\ Attempts(EmptyWalk) = {} /\ Loaded(EmptyWalk) = {} /\ EmptyWalk.issues = {}
        /\ EmptyWalk.edges = <<>> /\ EmptyWalk.visited = {}
        /\ EmptyWalk.heights = [p \in Products |-> 0]
    BY EmptyFacts
  <2>2. /\ \A p \in Attempts(EmptyWalk) : p = root
        /\ \A x \in EmptyWalk.issues : Real(root, EmptyWalk, FALSE, x)
    BY <2>1
  <2>3. Walking(root, EmptyWalk, <<>>, FALSE)
    BY <1>1, <2>1, <2>2, RootKeeps
  <2> QED
    BY <1>1, <2>3
<1>4. ~answered
  BY <1>1 DEF answered
<1> QED
  BY <1>1, <1>2, <1>3, <1>4 DEF TraceInv

(* The visits are rooted in the product the request is about. *)
LEMMA RootHeld ==
  ASSUME NEW r, NEW w, NEW s, NEW late, Walking(r, w, s, late), s # <<>>
  PROVE  r \in Loaded(w)
<1>1. w \in Walks /\ s \in Seq(Frames) /\ Stacked(r, w, s)
  BY DEF Walking
<1>2. 1 \in DOMAIN s /\ s[1].key = r
  BY <1>1, TopVisit
<1> QED
  BY <1>1, <1>2 DEF Stacked, Visit

LEMMA VisitKeeps ==
  ASSUME TraceInv, visit
  PROVE  TraceInv'
<1>1. /\ StoreTyped /\ root \in Products /\ pc = "visit" /\ response = None /\ expired \in BOOLEAN
      /\ stack # <<>> /\ root \in Loaded(walk)
  BY DEF TraceInv, visit, BreakOff, InspectForeign, InspectTooDeep, Inspect, Return, looking, active
<1>2. world' = world /\ store' = store /\ root' = root /\ response' = None
  BY <1>1 DEF visit, BreakOff, InspectForeign, InspectTooDeep, Inspect, Return
<1>3. StoreTyped'
  BY <1>1, <1>2 DEF StoreTyped
<1>4. ~answered'
  BY <1>2 DEF answered
<1>5. frame.left # {} => Passed # <<>>
  <2> SUFFICES ASSUME frame.left # {} PROVE Passed # <<>>
    OBVIOUS
  <2>1. /\ stack \in Seq(Frames) /\ Passed \in Seq(Frames) /\ Len(Passed) = Len(stack)
    BY <1>1, Visiting DEF Shortened
  <2> QED
    BY <1>1, <2>1, EmptySeq
<1>6. ASSUME Walking(root, walk', stack', expired'), expired' \in BOOLEAN, stack' # <<>>, pc' = pc
      PROVE  TraceInv'
  <2>1. root \in Loaded(walk')
    BY <1>6, RootHeld
  <2> QED
    BY <1>1, <1>2, <1>3, <1>4, <1>6, <2>1 DEF TraceInv
<1>7. CASE BreakOff
  <2>1. pc' = pc /\ expired' = expired
    BY <1>7 DEF BreakOff
  <2> QED
    BY <1>1, <1>6, <1>7, <2>1, BreakOffKeeps
<1>8. CASE InspectForeign
  <2>1. pc' = pc /\ expired' = expired /\ stack' = Passed /\ frame.left # {}
    BY <1>8 DEF InspectForeign, looking
  <2> QED
    BY <1>1, <1>5, <1>6, <1>8, <2>1, ForeignKeeps
<1>9. CASE InspectTooDeep
  <2>1. pc' = pc /\ expired' = expired /\ stack' = Passed /\ frame.left # {}
    BY <1>9 DEF InspectTooDeep, looking
  <2> QED
    BY <1>1, <1>5, <1>6, <1>9, <2>1, TooDeepKeeps
<1>10. CASE Inspect
  <2>1. pc' = pc /\ frame.left # {}
    BY <1>10 DEF Inspect, looking
  <2> QED
    BY <1>1, <1>5, <1>6, <1>10, <2>1, InspectKeeps
<1>11. CASE Return
  <2>1. expired' = expired
    BY <1>11 DEF Return
  <2>2. /\ Walking(root, walk', stack', expired) /\ walk'.products = walk.products
        /\ \/ stack' = <<>> /\ pc' = "respond"
           \/ stack' # <<>> /\ pc' = pc
    BY <1>11, ReturnStep
  <2>3. root \in Loaded(walk')
    BY <1>1, <2>2 DEF Loaded
  <2> QED
    BY <1>1, <1>2, <1>3, <1>4, <2>1, <2>2, <2>3 DEF TraceInv
<1> QED
  BY <1>7, <1>8, <1>9, <1>10, <1>11 DEF visit

LEMMA TraceKept == TraceInv /\ [Next]_vars => TraceInv'
<1> SUFFICES ASSUME TraceInv, [Next]_vars PROVE TraceInv'
  OBVIOUS
<1>1. CASE ReadRoot
  <2>1. /\ Walking(root, walk', stack', expired') /\ expired' \in BOOLEAN
        /\ \/ stack' = <<>> /\ pc' = "done" /\ response'.refused
           \/ stack' = <<>> /\ pc' = "respond" /\ response' = None /\ root \in Loaded(walk')
           \/ stack' # <<>> /\ pc' = "visit" /\ response' = None /\ root \in Loaded(walk')
    BY <1>1, ReadRootKeeps
  <2>2. world' = world /\ store' = store /\ root' = root
    BY <1>1 DEF ReadRoot
  <2>3. StoreTyped' /\ root \in Products
    BY <2>2 DEF StoreTyped, TraceInv
  <2>4. ~answered'
    BY <2>1 DEF answered
  <2> QED
    BY <2>1, <2>2, <2>3, <2>4 DEF TraceInv
<1>2. CASE visit
  BY <1>2, VisitKeeps
<1>3. CASE Respond
  <2>1. /\ pc = "respond" /\ pc' = "done" /\ world' = world /\ store' = store /\ expired' = expired
        /\ root' = root /\ walk' = walk /\ stack' = stack
        /\ response' = trace \/ response' = Refusal("trace-too-large")
    BY <1>3 DEF Respond
  <2>2. StoreTyped'
    BY <2>1 DEF StoreTyped, TraceInv
  <2>3. trace' = trace
    BY <2>1 DEF trace
  <2>4. answered' => response' = trace'
    <3>1. Refusal("trace-too-large").refused
      BY DEF Refusal
    <3> QED
      BY <2>1, <2>3, <3>1 DEF answered
  <2> QED
    BY <2>1, <2>2, <2>4 DEF TraceInv
<1>4. CASE ProductChanges
  <2>1. /\ pc # "done" /\ world' = world /\ expired' = expired /\ root' = root /\ pc' = pc
        /\ walk' = walk /\ stack' = stack /\ response' = response
        /\ \E p \in Products : \E o \in world.held[p] \ {store[p]} : store' = [store EXCEPT ![p] = o]
    BY <1>4 DEF ProductChanges
  <2>2. StoreTyped'
    <3>3. PICK p \in Products : \E o \in world.held[p] : store' = [store EXCEPT ![p] = o]
      BY <2>1
    <3>1. PICK o \in world.held[p] : store' = [store EXCEPT ![p] = o]
      BY <3>3
    <3>2. o = None \/ (o \in Objects /\ o.spec \in Manifests[p])
      BY TraceAssumption DEF StoreTyped, TraceInv
    <3> QED
      BY <2>1, <3>1, <3>2 DEF StoreTyped, TraceInv
  <2>3. ~answered'
    BY <2>1 DEF answered, TraceInv
  <2> QED
    BY <2>1, <2>2, <2>3 DEF TraceInv
<1>5. CASE DeadlinePasses
  <2>1. /\ pc # "done" /\ world' = world /\ store' = store /\ expired' = TRUE /\ ~expired
        /\ root' = root /\ pc' = pc /\ walk' = walk /\ stack' = stack /\ response' = response
    BY <1>5 DEF DeadlinePasses
  <2>2. StoreTyped'
    BY <2>1 DEF StoreTyped, TraceInv
  <2>3. ~answered'
    BY <2>1 DEF answered, TraceInv
  <2>4. Walking(root, walk, stack, TRUE)
    BY DEF TraceInv, Walking, Real
  <2> QED
    BY <2>1, <2>2, <2>3, <2>4 DEF TraceInv
<1>6. CASE UNCHANGED vars
  <2>1. /\ pc' = pc /\ world' = world /\ store' = store /\ expired' = expired
        /\ root' = root /\ walk' = walk /\ stack' = stack /\ response' = response
    BY <1>6 DEF vars
  <2>2. StoreTyped' = StoreTyped /\ answered' = answered /\ trace' = trace
    BY <2>1 DEF StoreTyped, answered, trace
  <2> QED
    BY <2>1, <2>2 DEF TraceInv
<1> QED
  BY <1>1, <1>2, <1>3, <1>4, <1>5, <1>6 DEF Next, productLineage, Finished

-----------------------------------------------------------------------------
(* The theorems.                                                           *)

(* The invariant above holds at every step of a request (lineageWalk). *)
THEOREM WalkInvariant == Spec => []TraceInv
  BY TraceBegins, TraceKept, PTL DEF Spec

(* Whatever the products are and however they change, the walk of          *)
(* lineageWalk.read and visit stays within its budgets of products, edges, *)
(* retained metadata and depth, and never visits a product that it is      *)
(* already visiting.                                                       *)
THEOREM AlwaysBounded == Spec => []WalkBounded
<1>1. TraceInv => WalkBounded
  BY DEF TraceInv, Walking, Budgets, Stacked, WalkBounded
<1> QED
  BY <1>1, WalkInvariant, PTL

LEMMA DeclaredNames ==
  ASSUME walk \in Walks
  PROVE  Declared = InputNames(walk)
<1>1. \A p : {<<p, i.name>> : i \in Ports(walk, p)} =
             {<<p, walk.products[p].spec.inputs[i].name>> : i \in DOMAIN walk.products[p].spec.inputs}
  BY DEF Ports
<1> QED
  BY <1>1 DEF Declared, InputNames, Loaded

(* An issue of a trace (lineageWalk.incomplete) is one that the products   *)
(* it read really have: a cycle, a path too long, too many products or too *)
(* many inputs; and a timeout is reported only after the deadline.         *)
THEOREM AlwaysAccurate == Spec => []IssuesAccurate
<1>1. TraceInv => IssuesAccurate
  <2> SUFFICES ASSUME TraceInv, answered PROVE IssuesAccurate
    BY DEF IssuesAccurate
  <2>1. /\ walk \in Walks /\ response = trace /\ \A x \in walk.issues : Real(root, walk, expired, x)
    BY DEF TraceInv, Walking
  <2>2. response.issues = walk.issues
    BY <2>1 DEF trace
  <2>3. Declared = InputNames(walk)
    BY <2>1, DeclaredNames
  <2> QED
    BY <2>1, <2>2, <2>3 DEF IssuesAccurate, Real
<1> QED
  BY <1>1, WalkInvariant, PTL

(* The inputs of a product, as the reference and as the walk see them. *)
LEMMA PortsAreInputs ==
  ASSUME NEW w \in Walks, NEW p \in Loaded(w)
  PROVE  Ports(w, p) = {InputsOf(w.products, p)[i] : i \in DOMAIN InputsOf(w.products, p)}
  BY DEF Ports, InputsOf, Loaded

(* The walk is over and nothing was amiss: what it holds is the whole      *)
(* graph, and heights fall along every input.                              *)
LEMMA WholeRead ==
  ASSUME NEW r, NEW w, NEW late, Walking(r, w, <<>>, late), w.issues = {}
  PROVE  /\ \A p \in Loaded(w) : \A i \in Ports(w, p) :
              /\ ~i.foreign /\ i.ref \in Loaded(w) /\ w.heights[i.ref] < w.heights[p]
              /\ \E e \in Listed(w) : e.from = p /\ e.input = i.name
         /\ w.heights[r] < MaxDepth
<1>1. /\ w \in Walks /\ Nodes(w) /\ Edged(r, w, <<>>) /\ Falling(w, <<>>) /\ Whole(r, w, <<>>)
  BY DEF Walking
<1>2. w.heights[r] < MaxDepth
  BY <1>1 DEF Whole
<1> SUFFICES ASSUME NEW p \in Loaded(w), NEW i \in Ports(w, p)
             PROVE  /\ ~i.foreign /\ i.ref \in Loaded(w) /\ w.heights[i.ref] < w.heights[p]
                    /\ \E e \in Listed(w) : e.from = p /\ e.input = i.name
  BY <1>2
<1>3. PICK e \in Listed(w) : e.from = p /\ e.input = i.name
  BY <1>1 DEF Whole
<1>4. Lists(w, e) /\ Stated(w, e)
  BY <1>1 DEF Edged
<1>5. PICK j \in Ports(w, p) : e.to = j.ref /\ e.foreign = j.foreign /\ e.input = j.name
  BY <1>3, <1>4 DEF Lists
<1>6. j = i
  BY <1>1, <1>3, <1>5, PortNames
<1>7. e.state = "resolved"
  BY <1>4 DEF Stated
<1>8. e.to \in Loaded(w) /\ ~e.foreign
  BY <1>4, <1>7 DEF Stated
<1>9. w.heights[e.to] < w.heights[e.from]
  BY <1>1, <1>3, <1>7 DEF Falling, Joined
<1> QED
  BY <1>3, <1>5, <1>6, <1>8, <1>9

(* Then the graph is acyclic, all of it held, and not too deep. *)
LEMMA WholeGraph ==
  ASSUME NEW r \in Products, NEW w, NEW late, Walking(r, w, <<>>, late), w.issues = {}, r \in Loaded(w)
  PROVE  /\ Graph(w.products, r) \subseteq Loaded(w) /\ ~Cyclic(w.products, r)
         /\ Layers(w.products, r)[MaxDepth] = {}
<1> DEFINE E == Links(w.products)
<1>1. w \in Walks /\ w.products \in Holdings /\ w.heights \in [Products -> Nat]
  BY WalkFields DEF Walking
<1>2. Loaded(w) \in SUBSET Products
  BY DEF Loaded
<1>3. \A q \in Loaded(w) : \A x : Joins(E, q, x) => x \in Loaded(w) /\ w.heights[x] < w.heights[q]
  <2> SUFFICES ASSUME NEW q \in Loaded(w), NEW x, Joins(E, q, x)
               PROVE  x \in Loaded(w) /\ w.heights[x] < w.heights[q]
    OBVIOUS
  <2>1. Draws(w.products, q, x)
    BY <1>1, LinksJoin
  <2>2. PICK i \in Ports(w, q) : i.ref = x
    BY <1>1, <2>1, PortsAreInputs DEF Draws
  <2> QED
    BY <2>2, WholeRead
<1>4. \A q \in Loaded(w) : w.heights[q] \in Nat
  BY <1>1, <1>2
<1> DEFINE V == Loaded(w)
           h == w.heights
<1>5. V \in SUBSET Products /\ r \in V /\ \A q \in V : h[q] \in Nat
  BY <1>2, <1>4
<1>6. \A q \in V : \A x : Joins(E, q, x) => x \in V /\ h[x] < h[q]
  BY <1>3
<1> HIDE DEF E, V, h
<1>7. \A n \in 0 .. Longest : \A x \in Steps(E, r)[n] : x \in V /\ h[x] + n <= h[r]
  BY <1>5, <1>6, StepsFall
<1>8. Steps(E, r)[Cardinality(Products)] = {}
  BY <1>5, <1>6, StepsEnd
<1>9. \A n \in 0 .. Longest : Layers(w.products, r)[n] = Steps(E, r)[n]
  BY <1>1, LayersAreSteps DEF E
<1>10. ~Cyclic(w.products, r)
  <2>1. Cardinality(Products) \in 0 .. Longest
    BY Sizes
  <2> QED
    BY <1>8, <1>9, <2>1 DEF Cyclic
<1>11. Layers(w.products, r)[MaxDepth] = {}
  <2>1. MaxDepth \in 0 .. Longest /\ MaxDepth \in Nat
    BY Sizes
  <2>2. h[r] < MaxDepth
    BY WholeRead DEF h
  <2>3. ASSUME NEW x \in Steps(E, r)[MaxDepth] PROVE FALSE
    <3>1. h[x] \in Nat /\ h[r] \in Nat /\ h[x] + MaxDepth <= h[r]
      BY <1>5, <1>7, <2>1
    <3> QED
      BY <2>1, <2>2, <3>1
  <2> QED
    BY <1>9, <2>1, <2>3
<1>12. Graph(w.products, r) \subseteq Loaded(w)
  <2> SUFFICES ASSUME NEW q \in Graph(w.products, r) PROVE q \in Loaded(w)
    OBVIOUS
  <2>1. PICK n \in 0 .. Cardinality(Products) : q \in Steps(E, r)[n]
    BY <1>1, GraphReached DEF E
  <2>2. n \in 0 .. Longest
    BY Sizes
  <2> QED
    BY <1>7, <2>1, <2>2 DEF V
<1> QED
  BY <1>10, <1>11, <1>12

(* What the caller has been given is the walk, and the walk is over. *)
LEMMA Answered ==
  ASSUME TraceInv, answered
  PROVE  /\ response = trace /\ root \in Products /\ root \in Loaded(walk) /\ expired \in BOOLEAN
         /\ walk \in Walks /\ Walking(root, walk, <<>>, expired)
         /\ response.root = root /\ response.issues = walk.issues /\ response.edges = walk.edges
         /\ response.complete = (walk.issues = {}) /\ Edges(response) = Listed(walk)
<1>1. pc = "done" /\ stack = <<>>
  BY DEF TraceInv, answered
<1>2. /\ response = trace /\ root \in Products /\ root \in Loaded(walk) /\ expired \in BOOLEAN
      /\ walk \in Walks /\ Walking(root, walk, <<>>, expired)
  BY <1>1 DEF TraceInv, Walking
<1>3. /\ trace.root = root /\ trace.issues = walk.issues /\ trace.edges = walk.edges
      /\ trace.complete = (walk.issues = {})
  BY DEF trace
<1> QED
  BY <1>2, <1>3 DEF Edges, Listed

(* A trace says it is complete exactly when the whole graph below its root *)
(* was read, every input of it listed, none of it foreign, cyclic or too   *)
(* deep (productLineage): never otherwise, and always then unless the      *)
(* deadline passed.                                                        *)
THEOREM AlwaysExact == Spec => []CompleteExact
<1>1. TraceInv => CompleteExact
  <2> SUFFICES ASSUME TraceInv, answered PROVE CompleteExact
    BY DEF CompleteExact
  <2> DEFINE snapshot == walk.products
             inspected == /\ \A p \in Graph(snapshot, root) :
                               /\ snapshot[p] # None
                               /\ \A i \in DOMAIN InputsOf(snapshot, p) : ~InputsOf(snapshot, p)[i].foreign
                          /\ ~Cyclic(snapshot, root)
                          /\ Layers(snapshot, root)[MaxDepth] = {}
             pairs == {<<e.from, e.input>> : e \in Listed(walk)}
  <2>1. /\ root \in Products /\ root \in Loaded(walk) /\ expired \in BOOLEAN
        /\ walk \in Walks /\ Walking(root, walk, <<>>, expired)
        /\ response.complete = (walk.issues = {}) /\ Edges(response) = Listed(walk)
    BY Answered
  <2>2. Declared = InputNames(walk)
    BY <2>1, DeclaredNames
  <2>3. /\ Nodes(walk) /\ Budgets(walk) /\ Edged(root, walk, <<>>) /\ Hanging(root, walk)
        /\ \A x \in walk.issues : Real(root, walk, expired, x)
    BY <2>1 DEF Walking
  <2>4. pairs \subseteq InputNames(walk) /\ Cardinality(pairs) = Len(walk.edges) /\ Len(walk.edges) \in Nat
    BY <2>1, <2>3, ListedCounted
  <2>5. ASSUME walk.issues = {} PROVE inspected /\ pairs = InputNames(walk)
    <3>1. /\ Graph(snapshot, root) \subseteq Loaded(walk) /\ ~Cyclic(snapshot, root)
          /\ Layers(snapshot, root)[MaxDepth] = {}
      BY <2>1, <2>5, WholeGraph
    <3>2. \A p \in Loaded(walk) : \A i \in Ports(walk, p) :
            /\ ~i.foreign
            /\ \E e \in Listed(walk) : e.from = p /\ e.input = i.name
      BY <2>1, <2>5, WholeRead
    <3>3. \A p \in Graph(snapshot, root) :
             /\ snapshot[p] # None
             /\ \A i \in DOMAIN InputsOf(snapshot, p) : ~InputsOf(snapshot, p)[i].foreign
      <4> SUFFICES ASSUME NEW p \in Graph(snapshot, root)
                   PROVE  /\ snapshot[p] # None
                          /\ \A i \in DOMAIN InputsOf(snapshot, p) : ~InputsOf(snapshot, p)[i].foreign
        OBVIOUS
      <4>1. p \in Loaded(walk)
        BY <3>1
      <4>2. \A i \in DOMAIN InputsOf(snapshot, p) : InputsOf(snapshot, p)[i] \in Ports(walk, p)
        BY <2>1, <4>1, PortsAreInputs
      <4> QED
        BY <3>2, <4>1, <4>2 DEF Loaded
    <3>4. InputNames(walk) \subseteq pairs
      BY <3>2 DEF InputNames
    <3> QED
      BY <2>4, <3>1, <3>3, <3>4
  <2>6. ASSUME inspected, pairs = InputNames(walk), ~expired PROVE walk.issues = {}
    <3> SUFFICES ASSUME NEW x \in walk.issues PROVE FALSE
      OBVIOUS
    <3>1. Real(root, walk, FALSE, x) /\ x \in failures
      BY <2>1, <2>3, <2>6, WalkFields
    <3>2. /\ \A p \in Graph(snapshot, root) : snapshot[p] # None
          /\ \A p \in Graph(snapshot, root) :
               \A i \in DOMAIN InputsOf(snapshot, p) : ~InputsOf(snapshot, p)[i].foreign
          /\ ~Cyclic(snapshot, root) /\ Layers(snapshot, root)[MaxDepth] = {}
      BY <2>6
    <3>3. Loaded(walk) \subseteq Attempts(walk) /\ Attempts(walk) \subseteq Graph(snapshot, root)
      BY <2>1, <2>3, LoadedAttempted, AttemptsInGraph
    <3>4. x # "cycle" /\ x # "depth-limit" /\ x # "timeout"
      BY <3>1, <3>2 DEF Real
    <3>5. x # "product-limit"
      <4>1. Graph(snapshot, root) \subseteq Attempts(walk)
        <5>1. Graph(snapshot, root) \in SUBSET Products
          BY <2>1, WalkFields, GraphReached
        <5>2. Graph(snapshot, root) \subseteq Loaded(walk)
          BY <3>2, <5>1 DEF Loaded
        <5> QED
          BY <3>3, <5>2
      <4>2. Graph(snapshot, root) = Attempts(walk)
        BY <3>3, <4>1
      <4>3. Cardinality(Attempts(walk)) <= MaxProducts /\ Cardinality(Attempts(walk)) \in Nat
        BY <2>3, AttemptsCounted DEF Budgets
      <4>4. MaxProducts \in Nat
        BY LimitsAssumption
      <4> QED
        BY <3>1, <4>2, <4>3, <4>4 DEF Real
    <3>6. x # "edge-limit"
      <4>1. Cardinality(InputNames(walk)) <= MaxEdges /\ Cardinality(InputNames(walk)) \in Nat
        BY <2>3, <2>4, <2>6 DEF Budgets
      <4>2. MaxEdges \in Nat
        BY LimitsAssumption
      <4> QED
        BY <3>1, <4>1, <4>2 DEF Real
    <3>7. x # "cross-namespace"
      <4> SUFFICES ASSUME x = "cross-namespace" PROVE FALSE
        OBVIOUS
      <4>1. PICK e \in Listed(walk) : e.foreign
        BY <3>1 DEF Real
      <4>2. e.from \in Loaded(walk) /\ Lists(walk, e)
        BY <2>3 DEF Edged
      <4>3. PICK i \in Ports(walk, e.from) : i.foreign
        BY <4>1, <4>2 DEF Lists
      <4>4. e.from \in Graph(snapshot, root)
        BY <3>3, <4>2
      <4> QED
        BY <2>1, <3>2, <4>2, <4>3, <4>4, PortsAreInputs
    <3>8. x \notin readFailures
      BY <3>1, <3>2, <3>3 DEF Real
    <3> QED
      BY <3>1, <3>4, <3>5, <3>6, <3>7, <3>8 DEF failures, readFailures
  <2>7. {<<e.from, e.input>> : e \in Edges(response)} = pairs
    BY <2>1
  <2> QED
    BY <2>1, <2>2, <2>5, <2>6, <2>7 DEF CompleteExact
<1> QED
  BY <1>1, WalkInvariant, PTL

(* The nodes of a trace, one for each product that was asked for. *)
NodeOf(w, p) ==
  [key |-> p, state |-> w.nodes[p].state, generation |-> w.nodes[p].generation,
   observedGeneration |-> w.nodes[p].observedGeneration, version |-> w.nodes[p].version]

LEMMA NodeFields ==
  ASSUME NEW w, NEW p
  PROVE  /\ NodeOf(w, p).key = p /\ NodeOf(w, p).state = w.nodes[p].state
         /\ NodeOf(w, p).generation = w.nodes[p].generation
         /\ NodeOf(w, p).observedGeneration = w.nodes[p].observedGeneration
         /\ NodeOf(w, p).version = w.nodes[p].version
  BY DEF NodeOf

(* What a node says of a product that is held, and of one that is not. *)
LEMMA NodeSays ==
  ASSUME NEW w \in Walks, Nodes(w), NEW p \in Attempts(w)
  PROVE  /\ NodeOf(w, p) \in lineageNode
         /\ p \in Loaded(w) =>
              /\ NodeOf(w, p).state \in observedStates /\ NodeOf(w, p).state \notin failures
              /\ NodeOf(w, p).version = w.products[p].spec.version
              /\ NodeOf(w, p).state # "deleting" =>
                   validObservation(NodeOf(w, p).state, NodeOf(w, p).generation, NodeOf(w, p).observedGeneration)
         /\ p \notin Loaded(w) =>
              \E x \in w.issues \cap failures :
                /\ w.nodes[p] = Failed(x) /\ NodeOf(w, p).state = x /\ x \notin observedStates
                /\ NodeOf(w, p).generation = 0 /\ NodeOf(w, p).observedGeneration = 0
                /\ NodeOf(w, p).version = None
<1>1. p \in Products /\ w.nodes[p] \in Observations
  BY WalkFields DEF Attempts
<1>2. NodeOf(w, p) \in lineageNode
  <2>1. /\ w.nodes[p].state \in observedStates \cup failures /\ w.nodes[p].generation \in Nat
        /\ w.nodes[p].observedGeneration \in Nat /\ w.nodes[p].version \in Versions \cup {None}
    BY <1>1 DEF Observations
  <2> QED
    BY <1>1, <2>1 DEF NodeOf, lineageNode
<1>3. \A x \in observedStates : x \notin failures
  BY DEF observedStates, failures
<1>4. ASSUME p \in Loaded(w)
      PROVE  /\ NodeOf(w, p).state \in observedStates /\ NodeOf(w, p).state \notin failures
             /\ NodeOf(w, p).version = w.products[p].spec.version
             /\ NodeOf(w, p).state # "deleting" =>
                  validObservation(NodeOf(w, p).state, NodeOf(w, p).generation, NodeOf(w, p).observedGeneration)
  <2>1. Witnessed(w.nodes[p], w.products[p].spec)
    BY <1>4 DEF Nodes
  <2> QED
    BY <1>3, <2>1, NodeFields DEF Witnessed
<1>5. ASSUME p \notin Loaded(w)
      PROVE  \E x \in w.issues \cap failures :
                /\ w.nodes[p] = Failed(x) /\ NodeOf(w, p).state = x /\ x \notin observedStates
                /\ NodeOf(w, p).generation = 0 /\ NodeOf(w, p).observedGeneration = 0
                /\ NodeOf(w, p).version = None
  <2>1. PICK x \in w.issues \cap unread : w.nodes[p] = Failed(x)
    BY <1>5 DEF Nodes
  <2>2. x \in failures
    BY <2>1, WalkFields
  <2> QED
    BY <1>3, <2>1, <2>2, NodeFields, FailedFacts
<1> QED
  BY <1>2, <1>4, <1>5

(* The nodes of the answer, by the product they are about. *)
LEMMA AnswerNodes ==
  ASSUME TraceInv, answered
  PROVE  /\ response.nodes = {NodeOf(walk, p) : p \in Attempts(walk)}
         /\ Keys(response) = Attempts(walk) /\ Observed(response) = Loaded(walk)
<1>1. response = trace /\ walk \in Walks /\ Nodes(walk)
  BY Answered DEF Walking
<1>2. trace.nodes = {NodeOf(walk, p) : p \in Attempts(walk)}
  BY DEF trace, NodeOf
<1>3. Keys(response) = Attempts(walk)
  BY <1>1, <1>2, NodeFields DEF Keys
<1>4. \A p \in Attempts(walk) : NodeOf(walk, p).state \in observedStates <=> p \in Loaded(walk)
  BY <1>1, NodeSays
<1>5. Loaded(walk) \subseteq Attempts(walk)
  BY <1>1, LoadedAttempted
<1>6. \A q \in Observed(response) : q \in Loaded(walk)
  BY <1>1, <1>2, <1>4, NodeFields DEF Observed
<1>7. \A q \in Loaded(walk) : q \in Observed(response)
  <2> SUFFICES ASSUME NEW q \in Loaded(walk) PROVE q \in Observed(response)
    OBVIOUS
  <2>1. q \in Attempts(walk) /\ NodeOf(walk, q) \in response.nodes
    BY <1>1, <1>2, <1>5
  <2>2. NodeOf(walk, q).key = q /\ NodeOf(walk, q).state \in observedStates
    BY <1>4, <2>1, NodeFields
  <2> QED
    BY <2>1, <2>2 DEF Observed
<1> QED
  BY <1>1, <1>2, <1>3, <1>6, <1>7

LEMMA NodesValid ==
  ASSUME TraceInv, answered
  PROVE  /\ Cardinality(response.nodes) <= MaxProducts
         /\ \A m, n \in response.nodes : m.key = n.key => m = n
         /\ \A node \in response.nodes : validNode(response, node)
<1>1. /\ walk \in Walks /\ Nodes(walk) /\ Budgets(walk) /\ response.issues = walk.issues
  BY Answered DEF Walking
<1>2. response.nodes = {NodeOf(walk, p) : p \in Attempts(walk)}
  BY AnswerNodes
<1>3. Cardinality(response.nodes) <= MaxProducts
  <2> DEFINE A == Attempts(walk)
             T == {NodeOf(walk, p) : p \in A}
             f == [p \in A |-> NodeOf(walk, p)]
  <2>1. f \in Surjection(A, T)
    BY DEF Surjection
  <2>2. IsFiniteSet(A) /\ Cardinality(A) \in Nat /\ Cardinality(A) <= MaxProducts /\ MaxProducts \in Nat
    BY <1>1, AttemptsCounted, LimitsAssumption DEF Budgets
  <2>3. response.nodes = T
    BY <1>2
  <2> HIDE DEF A, T, f
  <2>4. IsFiniteSet(T) /\ Cardinality(T) <= Cardinality(A)
    BY <2>1, <2>2, FS_Surjection
  <2>5. Cardinality(T) \in Nat
    BY <2>4, FS_CardinalityType
  <2> QED
    BY <2>2, <2>3, <2>4, <2>5
<1>4. \A m, n \in response.nodes : m.key = n.key => m = n
  BY <1>2, NodeFields
<1>5. \A node \in response.nodes : validNode(response, node)
  <2> SUFFICES ASSUME NEW p \in Attempts(walk) PROVE validNode(response, NodeOf(walk, p))
    BY <1>2
  <2>1. NodeOf(walk, p) \in lineageNode
    BY <1>1, NodeSays
  <2>2. CASE p \in Loaded(walk)
    BY <1>1, <2>1, <2>2, NodeSays DEF validNode
  <2>3. CASE p \notin Loaded(walk)
    BY <1>1, <2>1, <2>3, NodeSays DEF validNode
  <2> QED
    BY <2>2, <2>3
<1> QED
  BY <1>3, <1>4, <1>5

LEMMA EdgesValid ==
  ASSUME TraceInv, answered, NEW e \in Listed(walk)
  PROVE  validEdge(response, e)
<1> DEFINE target == {node \in response.nodes : ~e.foreign /\ node.key = e.to}
           failed == {node \in target : node.state \in failures}
<1>1. /\ walk \in Walks /\ Nodes(walk) /\ Edged(root, walk, <<>>) /\ response.issues = walk.issues
      /\ response.nodes = {NodeOf(walk, p) : p \in Attempts(walk)}
      /\ Observed(response) = Loaded(walk)
  BY Answered, AnswerNodes DEF Walking
<1>2. e \in lineageEdge
  BY <1>1, WalkFields DEF Listed
<1>3. e.from \in Loaded(walk) /\ Placed(root, walk, e) /\ Stated(walk, e)
  BY <1>1 DEF Edged
<1>4. e.depth \in 1 .. MaxDepth
  BY <1>3 DEF Placed
<1>5. e.to \in Products /\ e.state \in failures \cup {"resolved"}
  BY <1>2 DEF lineageEdge
<1>6. \/ /\ e.state = "resolved" /\ e.compatibility # "not-evaluated"
         /\ ~e.foreign /\ e.to \in Observed(response)
      \/ e.state \in failures /\ e.state \in response.issues
  BY <1>1, <1>3, <1>5 DEF Stated
<1>7. /\ e.state = "cross-namespace" <=> e.foreign
      /\ e.state \in {"missing", "unavailable", "invalid", "identity-mismatch",
                      "metadata-limit", "product-limit", "cross-namespace"}
           => e.compatibility = "not-evaluated"
      /\ e.compatibility = "contract-incompatible" => e.requirement # None
  BY <1>3 DEF Stated, readFailures
<1>8. \A node \in target : e.to \in Attempts(walk) /\ node = NodeOf(walk, e.to)
  BY <1>1, NodeFields
<1>9. e.to \in Attempts(walk) /\ ~e.foreign => NodeOf(walk, e.to) \in target
  BY <1>1, NodeFields
<1> HIDE DEF target
<1>10. e.state \in {"missing", "invalid", "identity-mismatch", "metadata-limit"}
         => \E node \in target : node.state = e.state
  <2> SUFFICES ASSUME e.state \in {"missing", "invalid", "identity-mismatch", "metadata-limit"}
               PROVE  \E node \in target : node.state = e.state
    OBVIOUS
  <2>1. e.state \in readFailures /\ e.state \in failures /\ e.state # "cross-namespace"
    BY DEF readFailures, failures
  <2>2. walk.nodes[e.to] = Failed(e.state) /\ ~e.foreign
    BY <1>3, <2>1 DEF Stated
  <2>3. e.to \in Attempts(walk)
    BY <1>5, <2>1, <2>2, FailedFacts DEF Attempts
  <2>4. NodeOf(walk, e.to).state = e.state
    BY <2>1, <2>2, FailedFacts, NodeFields
  <2> QED
    BY <1>9, <2>2, <2>3, <2>4
<1>11. e.state \in {"missing", "unavailable", "invalid", "identity-mismatch",
                    "timeout", "metadata-limit", "product-limit"}
         => \A node \in failed : node.state = e.state
  <2> SUFFICES ASSUME e.state \in {"missing", "unavailable", "invalid", "identity-mismatch",
                                   "timeout", "metadata-limit", "product-limit"},
                      NEW node \in failed
               PROVE  node.state = e.state
    OBVIOUS
  <2>1. e.to \in Attempts(walk) /\ node.state = walk.nodes[e.to].state /\ node.state \in failures
    BY <1>8, NodeFields
  <2>2. walk.nodes[e.to] # None
    BY <2>1 DEF Attempts
  <2>3. e.to \notin Loaded(walk)
    BY <1>1, <1>8, <2>1, NodeSays
  <2>4. e.state # "product-limit"
    BY <1>3, <2>2 DEF Stated
  <2>5. e.state \in readFailures \cup {"timeout"} /\ e.state \in failures
    BY <2>4 DEF readFailures, failures
  <2>6. walk.nodes[e.to] = Failed(e.state)
    BY <1>3, <2>2, <2>3, <2>5 DEF Stated
  <2> QED
    BY <2>1, <2>5, <2>6, FailedFacts
<1>12. e.compatibility = "compatible" /\ e.requirement # None =>
         \A node \in target : node.version = None
                              \/ compatibleVersion(node.version, e.requirement.minimumVersion)
  <2> SUFFICES ASSUME e.compatibility = "compatible", e.requirement # None, NEW node \in target
               PROVE  compatibleVersion(node.version, e.requirement.minimumVersion)
    OBVIOUS
  <2>1. e.to \in Attempts(walk) /\ node.version = NodeOf(walk, e.to).version
    BY <1>8
  <2>2. /\ e.to \in Loaded(walk)
        /\ compatibleVersion(walk.products[e.to].spec.version, e.requirement.minimumVersion)
    BY <1>3 DEF Stated
  <2>3. NodeOf(walk, e.to).version = walk.products[e.to].spec.version
    BY <1>1, <2>1, <2>2, NodeSays
  <2> QED
    BY <2>1, <2>2, <2>3
<1>13. e.from \in Observed(response)
  BY <1>1, <1>3
<1> QED
  BY <1>2, <1>4, <1>6, <1>7, <1>10, <1>11, <1>12, <1>13 DEF validEdge, target

LEMMA GraphValid ==
  ASSUME TraceInv, answered
  PROVE  validGraph(response)
<1> DEFINE E == Listed(walk)
           J == Joined(walk)
           named == {e \in E : ~e.foreign /\ e.to \in Attempts(walk)}
<1>1. /\ walk \in Walks /\ Nodes(walk) /\ Edged(root, walk, <<>>) /\ Falling(walk, <<>>)
      /\ Hanging(root, walk) /\ root \in Products
      /\ response.root = root /\ Edges(response) = E
      /\ Keys(response) = Attempts(walk) /\ Observed(response) = Loaded(walk)
  BY Answered, AnswerNodes DEF Walking
<1>2. Resolved(response) = J
  BY <1>1 DEF Resolved, Joined
<1>3. \A e \in E : Placed(root, walk, e) /\ Stated(walk, e) /\ e.from \in Loaded(walk)
  BY <1>1 DEF Edged
<1>4. \A e, f \in E : e.from = f.from => e.depth = f.depth
  BY <1>1 DEF Edged
<1>5. J \subseteq named
  BY <1>1, <1>3, LoadedAttempted DEF Joined, Stated
<1>6. \A q, x : Joins(J, q, x) => Joins(named, q, x)
  BY <1>5 DEF Joins
<1>7. \A n \in 0 .. Longest : Steps(J, root)[n] \subseteq Steps(named, root)[n]
  <2> HIDE DEF J, named
  <2> QED
    BY <1>6, StepsGrow
<1>8. Attempts(walk) \subseteq Reached(named, root)
  <2> SUFFICES ASSUME NEW p \in Attempts(walk) PROVE p \in Reached(named, root)
    OBVIOUS
  <2>1. CASE p = root
    <3>1. 0 \in 0 .. Cardinality(Products) /\ p \in Steps(named, root)[0]
      BY <2>1, Sizes, StepsDef
    <3> QED
      BY <3>1 DEF Reached
  <2>2. CASE p # root
    <3>1. PICK e \in E : e.to = p /\ ~e.foreign
      BY <1>1, <2>2 DEF Hanging
    <3>2. /\ e.depth \in 1 .. MaxDepth /\ e.depth <= Cardinality(Products)
          /\ e.from \in Steps(J, root)[e.depth - 1]
      BY <1>3, <3>1 DEF Placed
    <3> DEFINE d == e.depth - 1
    <3>3. d \in 0 .. Longest /\ d + 1 <= Longest /\ d + 1 \in 0 .. Cardinality(Products)
      BY <3>2, Sizes
    <3>4. e.from \in Steps(named, root)[d]
      BY <1>7, <3>2, <3>3
    <3>5. Joins(named, e.from, p)
      BY <3>1 DEF Joins
    <3> HIDE DEF d, named
    <3>6. p \in Steps(named, root)[d + 1]
      BY <3>3, <3>4, <3>5, NextStep
    <3> QED
      BY <3>3, <3>6 DEF Reached
  <2> QED
    BY <2>1, <2>2
<1>9. \A p \in Loaded(walk) : Steps(J, p)[Cardinality(Products)] = {}
  <2> SUFFICES ASSUME NEW p \in Loaded(walk) PROVE Steps(J, p)[Cardinality(Products)] = {}
    OBVIOUS
  <2> DEFINE V == Loaded(walk)
             h == walk.heights
  <2>1. V \in SUBSET Products /\ p \in V /\ \A q \in V : h[q] \in Nat
    BY <1>1, WalkFields DEF Loaded
  <2>2. \A e \in J : e.to \in walk.visited /\ h[e.to] < h[e.from]
    BY <1>1 DEF Falling
  <2>3. \A q \in V : \A x : Joins(J, q, x) => x \in V /\ h[x] < h[q]
    BY <1>1, <2>2 DEF Joins, Nodes
  <2> HIDE DEF V, h, J
  <2> QED
    BY <2>1, <2>3, StepsEnd
<1>10. \A e \in E : /\ e.from = root => e.depth = 1
                    /\ e.depth = MaxDepth => e.state \in {"depth-limit", "cross-namespace"}
                    /\ e.from \in Steps(J, root)[e.depth - 1]
                    /\ e.state = "cycle" => e.from \in Reached(J, e.to)
  BY <1>3 DEF Placed
<1> HIDE DEF E, J
<1> QED
  BY <1>1, <1>2, <1>4, <1>8, <1>9, <1>10 DEF validGraph

(* Every trace a request is answered with passes the checks the browser    *)
(* makes before it renders one (validTrace in lineage.js), whatever the    *)
(* products are, however they change under the walk, and wherever a limit, *)
(* a failing read or the deadline cuts it short.                           *)
THEOREM AlwaysAccepted == Spec => []BrowserAccepts
<1>1. TraceInv => BrowserAccepts
  <2> SUFFICES ASSUME TraceInv, answered PROVE validTrace(response, root)
    BY DEF BrowserAccepts
  <2>1. /\ walk \in Walks /\ Edged(root, walk, <<>>) /\ Budgets(walk) /\ root \in Loaded(walk)
        /\ response.root = root /\ response.issues = walk.issues /\ response.edges = walk.edges
        /\ response.complete = (walk.issues = {}) /\ Edges(response) = Listed(walk)
    BY Answered DEF Walking
  <2>2. root \in Observed(response)
    BY <2>1, AnswerNodes
  <2>3. response.issues \subseteq failures /\ Len(response.edges) <= MaxEdges
    BY <2>1, WalkFields DEF Budgets
  <2>4. \A i, j \in DOMAIN response.edges :
          response.edges[i].from = response.edges[j].from /\ response.edges[i].input = response.edges[j].input
            => i = j
    BY <2>1 DEF Edged
  <2>5. response.complete <=> response.issues = {}
    BY <2>1
  <2>6. \A e \in Edges(response) : validEdge(response, e)
    BY <2>1, EdgesValid
  <2> QED
    BY <2>1, <2>2, <2>3, <2>4, <2>5, <2>6, NodesValid, GraphValid DEF validTrace
<1> QED
  BY <1>1, WalkInvariant, PTL
=============================================================================
