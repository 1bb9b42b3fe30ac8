----------------------- MODULE CompositionWalkProofs -----------------------
(***************************************************************************)
(* Machine-checked theorems about CompositionObservation: the walk of      *)
(* observeComposition decides exactly what DependencyGraphs states without *)
(* any traversal, for every namespace, every set of limits, every graph,   *)
(* and every cache that moves under the walk.                              *)
(***************************************************************************)
EXTENDS CompositionObservation, CompositionProofs

-----------------------------------------------------------------------------
(* The invariant.                                                          *)

(* The inductive invariant of CompositionObservation. *)
CompositionInv ==
  /\ TypeOK
  /\ world \in Worlds /\ \A p \in Products : cache[p] \in world.held[p]
  /\ pc = "composition" =>
       /\ product # None /\ product.spec \in Manifests[target]
       /\ graph = EmptyGraph /\ stack = <<>>
  /\ pc \in {"visit", "lineage"} =>
       /\ graph.products[target] = product /\ product # None
       /\ Standing(pc, graph, stack, observation, target)
  /\ pc = "done" => stack = <<>> /\ Kept(graph, target)
  /\ VerdictExact /\ ReasonAccurate

(* An object a world holds is one its publisher may apply. *)
LEMMA HeldObject ==
  ASSUME NEW w \in Worlds, NEW p \in Products, NEW o \in w.held[p], o # None
  PROVE  o \in Objects /\ o.spec \in Manifests[p]
<1> DEFINE stores == {v.held[p] : v \in Worlds}
           held == (UNION stores) \ {None}
<1>1. o \in held
  <2>1. w.held[p] \in stores
    OBVIOUS
  <2> HIDE DEF stores
  <2> QED
    BY <2>1
<1>2. held \subseteq Objects /\ {x.spec : x \in held} \subseteq Manifests[p]
  BY WorldsAssumption
<1> HIDE DEF held
<1> QED
  BY <1>1, <1>2

(* The judgement is what VerdictExact and ReasonAccurate ask for. *)
LEMMA Recorded ==
  ASSUME CompositionInv, Record
  PROVE  product' \in Objects /\ observation' \in Observations /\ VerdictExact' /\ ReasonAccurate'
<1> DEFINE st == graph.products
           o == compositionObservation
           condition == Composed.status.composition
<1>1. /\ pc = "lineage" /\ pc' = "done" /\ product' = Composed /\ observation' = o
      /\ graph' = graph /\ target' = target
  BY DEF Record
<1>2. Judgement(graph, target, o)
  BY <1>1, Judges DEF CompositionInv, TypeOK
<1>3. Kept(graph, target) /\ stack = <<>>
  BY <1>1 DEF CompositionInv, Standing
<1>4. WalkOK /\ product \in Objects
  BY <1>3 DEF CompositionInv, TypeOK, WalkOK, FramesLoaded
<1>5. /\ Composed \in Objects /\ (condition.ok <=> o.reason = "")
      /\ condition.reason = IF o.reason = "" THEN "CompositionVerified" ELSE o.reason
  BY <1>4, ComposedType
<1>6. o \in Observations
  BY <1>4, VerdictType
<1>7. graph.missing \subseteq Upstream(st, target)
  BY <1>3 DEF Kept, Reached
<1> HIDE DEF o, condition, st
<1>8. VerdictExact'
  <2>1. o.reason = "" => CompositionHolds(st, target)
    BY <1>2 DEF Judgement, Defect, st
  <2>2. ~o.err /\ CompositionHolds(st, target) => o.reason = ""
    BY <1>2, BrokenFails DEF Judgement, Defect, CompositionHolds, st
  <2> QED
    BY <1>1, <1>5, <2>1, <2>2 DEF VerdictExact, condition, st
<1>9. ReasonAccurate'
  <2> DEFINE r == condition.reason
  <2>1. r = "DependencyCycle" => Cyclic(st, target)
    BY <1>2, <1>5 DEF Judgement, Defect, st
  <2>2. r = "CompositionLimitExceeded" => ~WithinLimits(st, target) \/ ~LineageFits(st, target)
    BY <1>2, <1>5 DEF Judgement, Defect, st
  <2>3. r = "DependencyNotFound" => graph.missing # {} /\ graph.missing \subseteq Upstream(st, target)
    BY <1>2, <1>5, <1>7 DEF Judgement, Defect
  <2>4. r \in {"OutputNotFound", "ContractIncompatible"} => ~ContractsHold(st, target)
    BY <1>2, <1>5, BrokenFails DEF Judgement, Defect, st
  <2>5. r = "DependencyNotReady" => /\ ~Cyclic(st, target) /\ WithinLimits(st, target)
                                    /\ ContractsHold(st, target)
    BY <1>2, <1>5 DEF Judgement, Defect, st
  <2> HIDE DEF r
  <2>6. product'.status.composition.reason = r /\ graph'.products = st /\ graph'.missing = graph.missing
    BY <1>1 DEF r, condition, st
  <2> QED
    BY <1>1, <2>1, <2>2, <2>3, <2>4, <2>5, <2>6 DEF ReasonAccurate
<1> QED
  BY <1>1, <1>5, <1>6, <1>8, <1>9

-----------------------------------------------------------------------------
(* The theorems.                                                           *)

LEMMA InitEstablishes == Init => CompositionInv
<1> SUFFICES ASSUME Init PROVE CompositionInv
  OBVIOUS
<1>1. /\ world \in Worlds /\ reachable = TRUE /\ pc = "composition" /\ product = cache[target]
      /\ graph = EmptyGraph /\ stack = <<>> /\ observation = NoObservation
      /\ target \in Products /\ InputsOf(cache, target) # <<>>
      /\ DOMAIN cache = Products /\ cache = [p \in Products |-> cache[p]]
      /\ \A p \in Products : cache[p] \in world.held[p]
  BY DEF Init
<1>2. \A p \in Products : cache[p] = None \/ (cache[p] \in Objects /\ cache[p].spec \in Manifests[p])
  BY <1>1, HeldObject
<1>3. product # None
  BY <1>1 DEF InputsOf
<1>4. product \in Objects /\ product.spec \in Manifests[target]
  BY <1>1, <1>2, <1>3
<1>5. cache \in [Products -> Objects \cup {None}]
  BY <1>1, <1>2
<1>6. graph \in Graphs /\ stack \in Seq(Frames)
  BY <1>1, EmptyWalking
<1>7. observation \in Observations
  BY <1>1 DEF NoObservation, Observations, Reasons
<1>8. TypeOK
  BY <1>1, <1>4, <1>5, <1>6, <1>7 DEF TypeOK
<1> QED
  BY <1>1, <1>3, <1>4, <1>8 DEF CompositionInv, VerdictExact, ReasonAccurate

(* While the walk stands the types hold. *)
LEMMA WalkTyped ==
  ASSUME CompositionInv, pc = "visit" \/ pc = "lineage"
  PROVE  WalkOK
<1>1. graph \in Graphs /\ stack \in Seq(Frames) /\ observation \in Observations
  BY DEF CompositionInv, TypeOK
<1>2. \A j \in DOMAIN stack : graph.products[stack[j].key] # None
  <2>1. CASE stack = <<>>
    BY <2>1
  <2>2. CASE stack # <<>>
    <3>1. Stacked(graph, stack, target)
      BY <2>2 DEF CompositionInv, Standing, Walking
    <3> QED
      BY <3>1 DEF Stacked, Open
  <2> QED
    BY <2>1, <2>2
<1>3. \A j \in DOMAIN stack : stack[j].key \in Products
  BY <1>1, FramesTyped
<1> QED
  BY <1>1, <1>2, <1>3 DEF WalkOK, FramesLoaded, Graphs

LEMMA StepKeeps == CompositionInv /\ [Next]_vars => CompositionInv'
<1> SUFFICES ASSUME CompositionInv, [Next]_vars PROVE CompositionInv'
  OBVIOUS
<1>1. /\ TypeOK /\ world \in Worlds /\ \A p \in Products : cache[p] \in world.held[p]
      /\ VerdictExact /\ ReasonAccurate
  BY DEF CompositionInv
<1>2. CASE Begin
  <2>1. /\ pc = "composition" /\ product # None /\ product.spec \in Manifests[target]
        /\ graph = EmptyGraph /\ stack = <<>> /\ product \in Objects /\ target \in Products
    BY <1>1, <1>2 DEF Begin, CompositionInv, TypeOK
  <2>2. UNCHANGED <<world, cache, reachable, target, product>>
    BY <1>2 DEF Begin, BeginComposition
  <2>3. Enter(Read(graph, target, product), stack, target, Len(stack))
    BY <1>2, <2>1 DEF Begin, BeginComposition, Read
  <2>4. /\ graph \in Graphs /\ stack \in Seq(Frames) /\ Walking(graph, stack, target)
        /\ Cardinality(Loaded(graph)) < MaxProducts
    BY <2>1, EmptyWalking
  <2>5. Unseen(graph, stack, target, target)
    <3>1. graph.visited = {} /\ DOMAIN stack = {}
      BY <2>1 DEF EmptyGraph
    <3> QED
      BY <2>1, <2>4, <3>1 DEF Unseen
  <2>6. /\ Standing(pc', graph', stack', observation', target)
        /\ graph'.products = [graph.products EXCEPT ![target] = product]
    <3>1. product \in Objects /\ product # None /\ product.spec \in Manifests[target] /\ target \in Products
      BY <2>1
    <3> QED
      BY <2>3, <2>4, <2>5, <3>1, EnterStanding
  <2>7. graph'.products[target] = product
    BY <2>1, <2>4, <2>6 DEF Graphs
  <2>8. WalkOK' /\ pc' \in {"visit", "lineage"}
    <3> DEFINE g == Read(graph, target, product)
    <3>1. g \in Graphs /\ g.products[target] \in Objects
      <4>1. graph.products \in [Products -> Objects \cup {None}]
        BY <2>4 DEF Graphs
      <4>2. g \in Graphs /\ g.products = [graph.products EXCEPT ![target] = product]
        <5>1. product \in Objects /\ product # None /\ product.spec \in Manifests[target] /\ target \in Products
          BY <2>1
        <5> QED
          BY <2>4, <2>5, <5>1, ReadKeeps
      <4> HIDE DEF g
      <4> QED
        BY <2>1, <4>1, <4>2
    <3>2. FramesLoaded(g, stack)
      BY <2>1 DEF FramesLoaded
    <3> HIDE DEF g
    <3>3. \E full \in BOOLEAN : EnterUnless(full, g, stack, target)
      BY <2>3 DEF Enter, g
    <3> QED
      BY <2>1, <2>4, <3>1, <3>2, <3>3, EnterType
  <2>9. TypeOK'
    BY <1>1, <2>2, <2>8 DEF TypeOK, WalkOK
  <2>10. VerdictExact' /\ ReasonAccurate' /\ pc' # "composition" /\ pc' # "done"
    BY <2>8 DEF VerdictExact, ReasonAccurate
  <2> QED
    BY <1>1, <2>1, <2>2, <2>6, <2>7, <2>9, <2>10 DEF CompositionInv
<1>3. CASE Visit
  <2>1. visit /\ UNCHANGED <<world, cache, reachable, target, product>>
    BY <1>3 DEF Visit, visit
  <2>2. pc = "visit"
    BY <2>1 DEF visit, VisitForeign, VisitTooMany, VisitMissing, VisitUnavailable, VisitCycle,
                VisitAgain, VisitNew, Return, pending, resolves, active
  <2>3. /\ Standing(pc', graph', stack', observation', target)
        /\ graph'.products[target] = graph.products[target]
    <3>1. Manifested(cache)
      BY <1>1, HeldObject DEF Manifested
    <3>2. Standing(pc, graph, stack, observation, target)
      BY <2>2 DEF CompositionInv
    <3> QED
      BY <1>1, <2>1, <3>1, <3>2, VisitStanding DEF TypeOK
  <2>4. graph.products[target] = product /\ product # None
    BY <2>2 DEF CompositionInv
  <2>5. WalkOK' /\ pc' \in {"visit", "lineage"}
    BY <1>1, <2>1, <2>2, WalkTyped, VisitType DEF TypeOK
  <2>6. TypeOK'
    BY <1>1, <2>1, <2>5 DEF TypeOK, WalkOK
  <2>7. VerdictExact' /\ ReasonAccurate' /\ pc' # "composition" /\ pc' # "done"
    BY <2>5 DEF VerdictExact, ReasonAccurate
  <2> QED
    BY <1>1, <2>1, <2>3, <2>4, <2>6, <2>7 DEF CompositionInv
<1>4. CASE Record
  <2>1. /\ pc = "lineage" /\ pc' = "done" /\ UNCHANGED <<world, cache, reachable, target, graph, stack>>
    BY <1>4 DEF Record
  <2>2. stack = <<>> /\ Kept(graph, target)
    BY <2>1 DEF CompositionInv, Standing
  <2>3. product' \in Objects /\ observation' \in Observations /\ VerdictExact' /\ ReasonAccurate'
    BY <1>4, Recorded
  <2>4. TypeOK'
    BY <1>1, <2>1, <2>3 DEF TypeOK
  <2> QED
    BY <1>1, <2>1, <2>2, <2>3, <2>4 DEF CompositionInv
<1>5. CASE InformerUpdates
  <2>1. UNCHANGED <<world, reachable, target, product, pc, graph, stack, observation>>
    BY <1>5 DEF InformerUpdates
  <2>2. PICK p \in Products : \E o \in world.held[p] \ {cache[p]} : cache' = [cache EXCEPT ![p] = o]
    BY <1>5 DEF InformerUpdates
  <2>3. PICK o \in world.held[p] : cache' = [cache EXCEPT ![p] = o]
    BY <2>2
  <2>4. o \in Objects \cup {None}
    BY <1>1, HeldObject
  <2>5. /\ cache' \in [Products -> Objects \cup {None}]
        /\ \A q \in Products : cache'[q] \in world.held[q]
    BY <1>1, <2>3, <2>4 DEF TypeOK
  <2>6. TypeOK'
    BY <1>1, <2>1, <2>5 DEF TypeOK
  <2>7. VerdictExact' /\ ReasonAccurate'
    BY <1>1, <2>1 DEF VerdictExact, ReasonAccurate
  <2> QED
    BY <1>1, <2>1, <2>5, <2>6, <2>7 DEF CompositionInv
<1>6. CASE ApiFails \/ Finished \/ UNCHANGED vars
  <2>1. UNCHANGED <<world, cache, target, product, pc, graph, stack, observation>> /\ reachable' \in BOOLEAN
    BY <1>1, <1>6 DEF ApiFails, Finished, vars, TypeOK
  <2>2. TypeOK'
    BY <1>1, <2>1 DEF TypeOK
  <2>3. VerdictExact' /\ ReasonAccurate'
    BY <1>1, <2>1 DEF VerdictExact, ReasonAccurate
  <2> QED
    BY <1>1, <2>1, <2>2, <2>3 DEF CompositionInv
<1> QED
  BY <1>2, <1>3, <1>4, <1>5, <1>6 DEF Next

LEMMA AlwaysInv == Spec => []CompositionInv
  BY InitEstablishes, StepKeeps, PTL DEF Spec

(* The records of the walk keep their types, and a height is never         *)
(* negative, however the informer replaces objects under observeComposition.*)
THEOREM TypeCorrect == Spec => []TypeOK
<1>1. CompositionInv => TypeOK
  BY DEF CompositionInv
<1> QED
  BY <1>1, AlwaysInv, PTL

(* The verdict is exact for what visit read: for every namespace, every    *)
(* set of limits and every graph, CompositionReady is True exactly when    *)
(* the products it read form an acyclic, bounded, compatible and ready     *)
(* composition, unless a read failed.                                      *)
THEOREM VerdictIsExact == Spec => []VerdictExact
<1>1. CompositionInv => VerdictExact
  BY DEF CompositionInv
<1> QED
  BY <1>1, AlwaysInv, PTL

(* The reason compositionObservation reports is a defect that what was     *)
(* read really has, and DependencyNotReady is never reported over a        *)
(* structural or a contract failure.                                       *)
THEOREM ReasonIsAccurate == Spec => []ReasonAccurate
<1>1. CompositionInv => ReasonAccurate
  BY DEF CompositionInv
<1> QED
  BY <1>1, AlwaysInv, PTL

(* heights holds the longest path below every product whose visit          *)
(* returned, in every state of the walk.                                   *)
THEOREM HeightsAreExact == Spec => []HeightsExact
<1>1. CompositionInv => HeightsExact
  <2> SUFFICES ASSUME CompositionInv, NEW q \in graph.visited
               PROVE  /\ Layers(graph.products, q)[graph.heights[q]] # {}
                      /\ Layers(graph.products, q)[graph.heights[q] + 1] = {}
    BY DEF HeightsExact
  <2>1. graph \in Graphs /\ target \in Products
    BY DEF CompositionInv, TypeOK
  <2>2. Kept(graph, target)
    BY <2>1, EmptyWalking DEF CompositionInv, Standing, Walking, TypeOK
  <2>3. /\ graph.heights[q] \in Nat /\ graph.heights[q] < Cardinality(Products)
        /\ Layers(graph.products, q)[graph.heights[q]] # {}
        /\ \A n \in 0 .. Longest : \A x \in Layers(graph.products, q)[n] : n <= graph.heights[q]
    BY <2>1, <2>2, HeightsMeasure DEF Kept
  <2>4. graph.heights[q] + 1 \in 0 .. Longest /\ ~(graph.heights[q] + 1 <= graph.heights[q])
    BY <2>3, Sizes DEF Longest
  <2> QED
    BY <2>3, <2>4
<1> QED
  BY <1>1, AlwaysInv, PTL

(* The walk stays within MaxProducts, MaxEdges and MaxDepth at every step, *)
(* and is never twice in the same product, whatever the cache answers.     *)
THEOREM WalkIsBounded == Spec => []WalkBounded
<1>1. CompositionInv => WalkBounded
  <2> SUFFICES ASSUME CompositionInv PROVE WalkBounded
    OBVIOUS
  <2>1. target \in Products /\ pc \in {"composition", "visit", "lineage", "done"}
    BY DEF CompositionInv, TypeOK
  <2>2. Bounded(graph)
    BY <2>1, EmptyWalking DEF CompositionInv, Standing, Walking, Kept
  <2>3. stack = <<>> \/ Stacked(graph, stack, target)
    BY <2>1 DEF CompositionInv, Standing, Walking
  <2>4. /\ Len(stack) <= MaxDepth
        /\ \A i, j \in DOMAIN stack : i # j => stack[i].key # stack[j].key
    BY <2>3, Sizes DEF Stacked
  <2> QED
    BY <2>2, <2>4 DEF WalkBounded, Bounded
<1> QED
  BY <1>1, AlwaysInv, PTL

=============================================================================
