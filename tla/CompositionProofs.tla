-------------------------- MODULE CompositionProofs --------------------------
(***************************************************************************)
(* Machine-checked lemmas about the objects of DataProducts, the reference *)
(* definitions of DependencyGraphs and the walk of CompositionGraph, for   *)
(* every set of products, manifests and limits: types, the layers of a     *)
(* graph, the invariant of a walk and what each of its steps keeps, what a *)
(* finished walk may conclude, and that two stores which agree below a     *)
(* product have the same verdict on it.                                    *)
(***************************************************************************)
EXTENDS CompositionGraph, SequenceTheorems, FiniteSetTheorems, WellFoundedInduction, TLAPS

-----------------------------------------------------------------------------
(* Objects and conditions.                                                 *)

(* Replacing the status of an object gives an object of the same spec and  *)
(* generation.                                                             *)
LEMMA StatusReplaced ==
  ASSUME NEW o \in Objects, NEW s \in Statuses
  PROVE  /\ [o EXCEPT !.status = s] \in Objects
         /\ [o EXCEPT !.status = s].status = s
         /\ [o EXCEPT !.status = s].spec = o.spec
         /\ [o EXCEPT !.status = s].generation = o.generation
  BY DEF Objects

(* Condition builds a condition with the fields it was given. *)
LEMMA ConditionType ==
  ASSUME NEW ok \in BOOLEAN, NEW reason \in Reasons, NEW n \in Nat
  PROVE  /\ Condition(ok, reason, n) \in Conditions
         /\ Condition(ok, reason, n).ok = ok
         /\ Condition(ok, reason, n).reason = reason
         /\ Condition(ok, reason, n).observedGeneration = n
  BY DEF Condition, Conditions

(* inputCompatibility answers with a reason. *)
LEMMA CompatibilityIsReason ==
  ASSUME NEW port, NEW object
  PROVE  inputCompatibility(port, object) \in Reasons
  BY DEF inputCompatibility, Reasons

-----------------------------------------------------------------------------
(* The walk keeps its types because it only descends into objects it read. *)

(* The products of the frames of s have been read into g. *)
FramesLoaded(g, s) == \A i \in DOMAIN s : g.products[s[i].key] \in Objects

WalkOK ==
  /\ graph \in Graphs /\ stack \in Seq(Frames) /\ observation \in Observations
  /\ FramesLoaded(graph, stack)

(* The top frame, its inputs and, while one is left, the input it is at. *)
LEMMA TopFrame ==
  ASSUME WalkOK, active
  PROVE  /\ frame \in Frames
         /\ graph.products[frame.key] \in Objects
         /\ inputs \in Seq(InputPorts)
         /\ pending => input \in InputPorts
<1>1. stack # <<>> /\ Len(stack) \in DOMAIN stack
  BY DEF WalkOK, active
<1>2. frame \in Frames
  BY <1>1 DEF WalkOK, frame
<1>3. graph.products[frame.key] \in Objects
  BY <1>1 DEF WalkOK, FramesLoaded, frame
<1>4. inputs \in Seq(InputPorts)
  BY <1>3 DEF inputs, Objects, Specs
<1>5. pending => input \in InputPorts
  BY <1>2, <1>4 DEF pending, input, Frames
<1> QED
  BY <1>2, <1>3, <1>4, <1>5

(* A failure leaves an empty stack and an observation. *)
LEMMA StopType ==
  ASSUME NEW reason \in Reasons, NEW err \in BOOLEAN, graph' \in Graphs, Stop(reason, err)
  PROVE  WalkOK' /\ pc' = "lineage"
  BY DEF Stop, WalkOK, FramesLoaded, Observations

(* Entering a product that was read keeps the types. *)
LEMMA EnterType ==
  ASSUME NEW full \in BOOLEAN, NEW g \in Graphs, NEW s \in Seq(Frames), NEW key \in Products,
         FramesLoaded(g, s), g.products[key] \in Objects, EnterUnless(full, g, s, key)
  PROVE  WalkOK' /\ pc' \in {"visit", "lineage"}
<1>1. CASE full /\ graph' = g /\ Stop(compositionLimit, FALSE)
  BY <1>1, StopType DEF compositionLimit, Reasons
<1>2. CASE /\ ~full
           /\ graph' = [g EXCEPT !.edges = @ + Len(g.products[key].spec.inputs)]
           /\ stack' = Append(s, [key |-> key, next |-> 1])
           /\ pc' = "visit"
           /\ observation' = NoObservation
  <2>1. Len(g.products[key].spec.inputs) \in Nat
    BY DEF Objects, Specs
  <2>2. graph' \in Graphs /\ graph'.products = g.products
    <3>1. g.edges + Len(g.products[key].spec.inputs) \in Nat
      BY <2>1 DEF Graphs
    <3>2. graph' = [g EXCEPT !.edges = g.edges + Len(g.products[key].spec.inputs)]
      BY <1>2
    <3> QED
      BY <3>1, <3>2 DEF Graphs
  <2>3. [key |-> key, next |-> 1] \in Frames
    BY DEF Frames
  <2>4. stack' \in Seq(Frames)
    BY <1>2, <2>3
  <2>5. FramesLoaded(graph', stack')
    BY <1>2, <2>2, <2>3 DEF FramesLoaded
  <2>6. observation' \in Observations
    BY <1>2 DEF NoObservation, Observations, Reasons
  <2> QED
    BY <1>2, <2>2, <2>4, <2>5, <2>6 DEF WalkOK
<1> QED
  BY <1>1, <1>2 DEF EnterUnless

(* So does coming back to the consumer on top of s. *)
LEMMA ReturnedType ==
  ASSUME NEW g \in Graphs, NEW s \in Seq(Frames), s # <<>>, NEW key \in Products,
         observation \in Observations,
         FramesLoaded(g, s), Returned(g, s, key)
  PROVE  WalkOK' /\ pc' \in {"visit", "lineage"}
<1> DEFINE top == s[Len(s)]
           reason == inputCompatibility(g.products[top.key].spec.inputs[top.next],
                                        g.products[key])
           height == Taller(g, top.key, key)
           unready == ~producerReady(g.products[key])
<1>1. reason \in Reasons
  BY CompatibilityIsReason
<1>2. Len(s) \in DOMAIN s /\ top \in Frames /\ top.key \in Products
  <2>1. Len(s) \in 1 .. Len(s)
    OBVIOUS
  <2>2. top \in Frames
    BY <2>1
  <2> QED
    BY <2>1, <2>2 DEF Frames
<1>3. height \in Nat
  BY <1>2 DEF Taller, Graphs
<1>4. CASE reason # "" /\ graph' = g /\ Stop(reason, FALSE)
  BY <1>1, <1>4, StopType
<1>5. CASE /\ graph' = [g EXCEPT !.heights[top.key] = height,
                                 !.notReady = IF @ = None /\ unready THEN key ELSE @]
           /\ stack' = [s EXCEPT ![Len(s)].next = @ + 1]
           /\ pc' = "visit"
           /\ UNCHANGED observation
  <2>1. graph' \in Graphs /\ graph'.products = g.products
    BY <1>2, <1>3, <1>5 DEF Graphs
  <2>2. [top EXCEPT !.next = @ + 1] \in Frames /\ [top EXCEPT !.next = @ + 1].key = top.key
    BY <1>2 DEF Frames
  <2>3. stack' = [s EXCEPT ![Len(s)] = [top EXCEPT !.next = @ + 1]]
    BY <1>5
  <2>4. stack' \in Seq(Frames)
    BY <1>2, <2>2, <2>3, ExceptSeq
  <2>5. \A i \in DOMAIN stack' : i \in DOMAIN s /\ stack'[i].key = s[i].key
    BY <1>2, <2>2, <2>3
  <2>6. FramesLoaded(graph', stack')
    BY <2>1, <2>5 DEF FramesLoaded
  <2> QED
    BY <1>5, <2>1, <2>4, <2>6 DEF WalkOK
<1> QED
  BY <1>4, <1>5 DEF Returned, ReturnedWith

(* Every step of visit keeps the types. *)
LEMMA VisitType ==
  ASSUME WalkOK, cache \in [Products -> Objects \cup {None}], visit
  PROVE  WalkOK' /\ pc' \in {"visit", "lineage"}
<1>1. active
  BY DEF visit, VisitForeign, VisitTooMany, VisitMissing, VisitUnavailable, VisitCycle,
         VisitAgain, VisitNew, Return, pending, resolves
<1>2. /\ frame \in Frames /\ frame.key \in Products
      /\ graph.products[frame.key] \in Objects
      /\ inputs \in Seq(InputPorts)
      /\ pending => input \in InputPorts /\ input.ref \in Products
  BY <1>1, TopFrame DEF Frames, InputPorts
<1>3. /\ graph \in Graphs /\ stack \in Seq(Frames) /\ stack # <<>>
      /\ observation \in Observations /\ FramesLoaded(graph, stack)
  BY <1>1 DEF WalkOK, active
<1>4. CASE VisitForeign \/ VisitTooMany \/ VisitUnavailable \/ VisitCycle
  <2>1. graph' \in Graphs
    BY <1>3, <1>4 DEF VisitForeign, VisitTooMany, VisitUnavailable, VisitCycle
  <2>2. \E reason \in Reasons, err \in BOOLEAN : Stop(reason, err)
    BY <1>4 DEF VisitForeign, VisitTooMany, VisitUnavailable, VisitCycle, compositionLimit, Reasons
  <2> QED
    BY <2>1, <2>2, StopType
<1>5. CASE VisitMissing
  <2>1. graph' \in Graphs
    BY <1>2, <1>3, <1>5 DEF VisitMissing, Graphs
  <2>2. Stop("DependencyNotFound", FALSE)
    BY <1>5 DEF VisitMissing
  <2> QED
    BY <2>1, <2>2, StopType DEF Reasons
<1>6. CASE VisitAgain
  <2>1. CASE Stop(compositionLimit, FALSE) /\ UNCHANGED graph
    BY <1>3, <2>1, StopType DEF compositionLimit, Reasons
  <2>2. CASE Returned(graph, stack, input.ref)
    <3>1. input.ref \in Products
      BY <1>2, <1>6 DEF VisitAgain, resolves
    <3> QED
      BY <1>3, <2>2, <3>1, ReturnedType
  <2> QED
    BY <1>6, <2>1, <2>2 DEF VisitAgain
<1>7. CASE VisitNew
  <2>1. input.ref \in Products /\ producer # None
    BY <1>2, <1>7 DEF VisitNew, resolves
  <2>2. producer \in Objects
    BY <1>3, <2>1 DEF producer, Graphs
  <2>3. read \in Graphs /\ read.products = [graph.products EXCEPT ![input.ref] = producer]
    BY <1>3, <2>1, <2>2 DEF read, Graphs
  <2>4. read.products[input.ref] \in Objects
    BY <1>3, <2>1, <2>2, <2>3 DEF Graphs
  <2>5. FramesLoaded(read, stack)
    <3> SUFFICES ASSUME NEW i \in DOMAIN stack
                 PROVE  read.products[stack[i].key] \in Objects
      BY DEF FramesLoaded
    <3>1. stack[i].key \in Products /\ graph.products[stack[i].key] \in Objects
      <4>1. stack[i] \in Frames
        BY <1>3
      <4> QED
        BY <1>3, <4>1 DEF FramesLoaded, Frames
    <3>2. graph.products \in [Products -> Objects \cup {None}]
      BY <1>3 DEF Graphs
    <3> QED
      BY <2>1, <2>2, <2>3, <3>1, <3>2
  <2>6. \E full \in BOOLEAN : EnterUnless(full, read, stack, input.ref)
    BY <1>7 DEF VisitNew, Enter
  <2> QED
    BY <1>3, <2>1, <2>3, <2>4, <2>5, <2>6, EnterType
<1>8. CASE Return
  <2> DEFINE g == [graph EXCEPT !.visited = @ \cup {frame.key}]
             below == SubSeq(stack, 1, Len(stack) - 1)
  <2>1. g \in Graphs /\ g.products = graph.products
    BY <1>2, <1>3 DEF Graphs
  <2>2. below \in Seq(Frames) /\ \A i \in DOMAIN below : i \in DOMAIN stack /\ below[i] = stack[i]
    BY <1>3
  <2>3. FramesLoaded(g, below)
    BY <1>3, <2>1, <2>2 DEF FramesLoaded
  <2>4. CASE graph' = g /\ stack' = <<>> /\ pc' = "lineage" /\ UNCHANGED observation
    BY <1>3, <2>1, <2>4 DEF WalkOK, FramesLoaded
  <2>5. CASE below # <<>> /\ Returned(g, below, frame.key)
    BY <1>2, <1>3, <2>1, <2>2, <2>3, <2>5, ReturnedType
  <2> QED
    BY <1>8, <2>4, <2>5 DEF Return
<1> QED
  BY <1>4, <1>5, <1>6, <1>7, <1>8 DEF visit

-----------------------------------------------------------------------------
(* The lineage and the verdict.                                            *)

(* A non-empty set of naturals has a least element. *)
LEMMA LeastNat ==
  ASSUME NEW S \in SUBSET Nat, S # {}
  PROVE  \E m \in S : \A k \in S : m <= k
<1> DEFINE R == OpToRel(<, Nat)
<1>1. IsWellFoundedOn(R, Nat)
  BY NatLessThanWellFounded
<1>2. \A x \in Nat, y \in Nat : y < x => <<y, x>> \in R
  BY DEF OpToRel
<1> HIDE DEF R
<1>3. PICK m \in S : \A k \in S : <<k, m>> \notin R
  BY <1>1, WFMin
<1>4. \A k \in S : ~(k < m)
  BY <1>2, <1>3
<1> QED
  BY <1>4

(* A record with these fields is an entry. *)
LEMMA EntryType ==
  ASSUME NEW n \in Nat, NEW p \in Products, NEW ok \in BOOLEAN, NEW reason \in Reasons,
         NEW g \in Nat, NEW foreign \in BOOLEAN, NEW output \in OutputNames
  PROVE  [name |-> n, ref |-> p, foreign |-> foreign, output |-> output, ready |-> ok,
          reason |-> reason, observedGeneration |-> g] \in InputStatuses
  BY DEF InputStatuses

(* The entry of an input identifies it and always gives a reason. *)
LEMMA InputStatusType ==
  ASSUME graph \in Graphs, NEW port \in InputPorts
  PROVE  /\ inputStatus(port) \in InputStatuses
         /\ inputStatus(port).name = port.name /\ inputStatus(port).ref = port.ref
         /\ inputStatus(port).reason # ""
<1> DEFINE origin == IF port.foreign THEN None ELSE graph.products[port.ref]
           mismatch == inputCompatibility(port, origin)
           reason == IF port.foreign THEN "CrossNamespaceDependencyDenied"
                     ELSE IF origin = None
                     THEN IF port.ref \in graph.missing THEN "DependencyNotFound"
                          ELSE "DependencyUnobserved"
                     ELSE IF mismatch # "" THEN mismatch
                     ELSE IF producerReady(origin) THEN "InputReady" ELSE "DependencyNotReady"
           ready == reason = "InputReady"
           seen == IF origin = None THEN 0 ELSE origin.generation
<1>1. inputStatus(port) = [name |-> port.name, ref |-> port.ref, foreign |-> port.foreign,
                           output |-> port.output, ready |-> ready,
                           reason |-> reason, observedGeneration |-> seen]
  BY DEF inputStatus
<1>2. mismatch \in Reasons
  BY CompatibilityIsReason
<1>3. reason \in Reasons /\ reason # ""
  <2> HIDE DEF mismatch, origin
  <2> QED
    BY <1>2 DEF Reasons
<1>4. seen \in Nat
  BY DEF Graphs, Objects, InputPorts
<1>5. ready \in BOOLEAN
  OBVIOUS
<1>6. /\ port.name \in Nat /\ port.ref \in Products
      /\ port.foreign \in BOOLEAN /\ port.output \in OutputNames
  BY DEF InputPorts
<1> HIDE DEF reason, ready, seen
<1>7. inputStatus(port) \in InputStatuses
  <2>1. [name |-> port.name, ref |-> port.ref, foreign |-> port.foreign,
         output |-> port.output, ready |-> ready, reason |-> reason,
         observedGeneration |-> seen] \in InputStatuses
    BY <1>3, <1>4, <1>5, <1>6, EntryType, ZenonT(30)
  <2> QED
    BY <1>1, <2>1, Zenon
<1>8. /\ inputStatus(port).name = port.name /\ inputStatus(port).ref = port.ref
      /\ inputStatus(port).reason = reason
  BY <1>1
<1> QED
  BY <1>3, <1>7, <1>8

(* The lineage holds the entries of the product's own inputs, or nothing. *)
LEMMA LineageType ==
  ASSUME graph \in Graphs, product \in Objects
  PROVE  /\ lineage \in SUBSET InputStatuses
         /\ \A entry \in lineage : entry.reason # ""
         /\ lineage # {} =>
              {<<entry.name, entry.ref>> : entry \in lineage}
                = {<<product.spec.inputs[i].name, product.spec.inputs[i].ref>> :
                     i \in DOMAIN product.spec.inputs}
<1> DEFINE ports == product.spec.inputs
<1>1. \A i \in DOMAIN ports : ports[i] \in InputPorts
  BY DEF Objects, Specs
<1>2. \A i \in DOMAIN ports : /\ inputStatus(ports[i]) \in InputStatuses
                              /\ inputStatus(ports[i]).name = ports[i].name
                              /\ inputStatus(ports[i]).ref = ports[i].ref
                              /\ inputStatus(ports[i]).reason # ""
  BY <1>1, InputStatusType
<1>3. lineage \in {{}, {inputStatus(ports[i]) : i \in DOMAIN ports}}
  BY DEF lineage
<1> HIDE DEF ports
<1>4. lineage \in SUBSET InputStatuses /\ \A entry \in lineage : entry.reason # ""
  BY <1>2, <1>3
<1>5. lineage # {} => {<<entry.name, entry.ref>> : entry \in lineage}
                        = {<<ports[i].name, ports[i].ref>> : i \in DOMAIN ports}
  <2> SUFFICES ASSUME lineage = {inputStatus(ports[i]) : i \in DOMAIN ports}
               PROVE  {<<entry.name, entry.ref>> : entry \in lineage}
                        = {<<ports[i].name, ports[i].ref>> : i \in DOMAIN ports}
    BY <1>3
  <2>1. \A entry \in lineage : \E i \in DOMAIN ports :
          <<entry.name, entry.ref>> = <<ports[i].name, ports[i].ref>>
    BY <1>2
  <2>2. \A i \in DOMAIN ports : \E entry \in lineage :
          <<entry.name, entry.ref>> = <<ports[i].name, ports[i].ref>>
    BY <1>2
  <2> QED
    BY <2>1, <2>2
<1> QED
  BY <1>4, <1>5 DEF ports

(* A verdict without a reason leaves no recorded input unready. *)
LEMMA VerdictType ==
  ASSUME WalkOK, product \in Objects
  PROVE  /\ compositionObservation \in Observations
         /\ compositionObservation.reason = "" => \A entry \in lineage : entry.ready
<1> DEFINE unready == {entry \in lineage : ~entry.ready}
           first == CHOOSE entry \in unready :
                      \A other \in unready : entry.name <= other.name
<1>1. lineage \in SUBSET InputStatuses /\ \A entry \in lineage : entry.reason # ""
  BY LineageType DEF WalkOK
<1>2. unready # {} => first \in unready
  <2> SUFFICES ASSUME unready # {}
               PROVE  \E entry \in unready : \A other \in unready : entry.name <= other.name
    OBVIOUS
  <2> DEFINE names == {entry.name : entry \in unready}
  <2>1. names \in SUBSET Nat /\ names # {}
    BY <1>1 DEF InputStatuses
  <2>2. PICK m \in names : \A k \in names : m <= k
    <3> HIDE DEF names
    <3> QED
      BY <2>1, LeastNat
  <2> QED
    BY <2>2
<1>3. unready # {} => first.reason \in Reasons /\ first.reason # ""
  BY <1>1, <1>2 DEF InputStatuses
<1>4. compositionObservation =
        IF lineageTooLarge THEN [reason |-> compositionLimit, err |-> FALSE]
        ELSE IF observation.reason # "" THEN observation
        ELSE IF graph.notReady # None THEN [reason |-> "DependencyNotReady", err |-> FALSE]
        ELSE IF unready # {} THEN [reason |-> first.reason, err |-> FALSE]
        ELSE NoObservation
  BY DEF compositionObservation
<1>5. unready = {} => \A entry \in lineage : entry.ready
  OBVIOUS
<1> HIDE DEF unready, first
<1>6. observation \in Observations
  BY DEF WalkOK
<1> QED
  BY <1>3, <1>4, <1>5, <1>6 DEF Observations, NoObservation, compositionLimit, Reasons

(* What RecordLineage puts into the working copy. *)
LEMMA ComposedType ==
  ASSUME WalkOK, product \in Objects
  PROVE  /\ Composed \in Objects
         /\ Composed.spec = product.spec /\ Composed.generation = product.generation
         /\ Composed.status.connector = product.status.connector
         /\ Composed.status.contracts = product.status.contracts
         /\ Composed.status.source = product.status.source
         /\ Composed.status.inputs = lineage
         /\ Composed.status.composition \in Conditions
         /\ Composed.status.composition.observedGeneration = product.generation
         /\ Composed.status.composition.ok <=> compositionObservation.reason = ""
         /\ Composed.status.composition.reason = IF compositionObservation.reason = "" THEN "CompositionVerified"
                                                 ELSE compositionObservation.reason
<1> DEFINE reason == compositionObservation.reason
           condition == IF reason = ""
                        THEN Condition(TRUE, "CompositionVerified", product.generation)
                        ELSE Condition(FALSE, reason, product.generation)
           status == [[product.status EXCEPT !.composition = condition] EXCEPT !.inputs = lineage]
<1>1. reason \in Reasons
  BY VerdictType DEF Observations
<1>2. product.generation \in Nat /\ product.status \in Statuses
  BY DEF Objects
<1>3. /\ condition \in Conditions /\ condition.observedGeneration = product.generation
      /\ condition.ok <=> reason = ""
      /\ condition.reason = IF reason = "" THEN "CompositionVerified" ELSE reason
  <2>1. "CompositionVerified" \in Reasons
    BY DEF Reasons
  <2>2. CASE reason = ""
    <3>1. condition = Condition(TRUE, "CompositionVerified", product.generation)
      BY <2>2
    <3> HIDE DEF condition, reason
    <3>2. /\ condition \in Conditions /\ condition.ok = TRUE /\ condition.reason = "CompositionVerified"
          /\ condition.observedGeneration = product.generation
      BY <1>2, <2>1, <3>1 DEF Condition, Conditions
    <3> QED
      BY <2>2, <3>2
  <2>3. CASE reason # ""
    <3>1. condition = Condition(FALSE, reason, product.generation)
      BY <2>3
    <3> HIDE DEF condition, reason
    <3> QED
      BY <1>1, <1>2, <2>3, <3>1, ConditionType
  <2> QED
    BY <2>2, <2>3
<1>4. lineage \in SUBSET InputStatuses
  BY LineageType DEF WalkOK
<1>5. Composed = [product EXCEPT !.status = status]
  BY DEF Composed, setCompositionCondition
<1> HIDE DEF condition, reason
<1>6. /\ status \in Statuses
      /\ status.composition = condition /\ status.inputs = lineage
      /\ status.connector = product.status.connector
      /\ status.contracts = product.status.contracts
      /\ status.source = product.status.source
  BY <1>2, <1>3, <1>4 DEF Statuses
<1> HIDE DEF status
<1>7. /\ Composed \in Objects /\ Composed.status = status
      /\ Composed.spec = product.spec /\ Composed.generation = product.generation
  BY <1>5, <1>6, StatusReplaced
<1> QED
  BY <1>3, <1>6, <1>7 DEF reason

-----------------------------------------------------------------------------
(* Layers.                                                                 *)

Longest == Cardinality(Products) + MaxDepth

LEMMA Sizes == Cardinality(Products) \in Nat /\ MaxDepth \in Nat \ {0} /\ Longest \in Nat
<1>1. Cardinality(Products) \in Nat
  BY NamespaceAssumption, FS_CardinalityType
<1> QED
  BY <1>1, LimitsAssumption DEF Longest

(* f holds the layers below p up to layer m. *)
Layering(f, store, p, m) == f = [n \in 0 .. m |-> IF n = 0 THEN {p} ELSE Producers(store, f[n - 1])]

(* The recursive definition of the layers has a solution. *)
LEMMA LayersExist ==
  ASSUME NEW store, NEW p, NEW m \in Nat
  PROVE  \E f : Layering(f, store, p, m)
<1> USE DEF Layering
<1> DEFINE Solves(f, k) == Layering(f, store, p, k)
           Unsolved == {k \in Nat : ~ \E f : Solves(f, k)}
<1> SUFFICES ASSUME Unsolved # {} PROVE FALSE
  OBVIOUS
<1>1. PICK k \in Unsolved : \A j \in Unsolved : k <= j
  <2> HIDE DEF Unsolved
  <2>1. Unsolved \in SUBSET Nat
    BY DEF Unsolved
  <2> QED
    BY <2>1, LeastNat
<1>2. k # 0
  <2>1. Solves([n \in 0 .. 0 |-> {p}], 0)
    OBVIOUS
  <2> QED
    BY <1>1, <2>1
<1>3. PICK f : Solves(f, k - 1)
  <2>1. k \in Nat /\ k - 1 \in Nat /\ ~(k <= k - 1)
    BY <1>1, <1>2
  <2>2. k - 1 \notin Unsolved
    <3> HIDE DEF Unsolved
    <3> QED
      BY <1>1, <2>1
  <2>3. \E f : Solves(f, k - 1)
    BY <2>1, <2>2
  <2> QED
    BY <2>3
<1> DEFINE g == [n \in 0 .. k |-> IF n = k THEN Producers(store, f[k - 1]) ELSE f[n]]
<1>4. \A n \in 0 .. k : g[n] = IF n = 0 THEN {p} ELSE Producers(store, g[n - 1])
  <2> SUFFICES ASSUME NEW n \in 0 .. k PROVE g[n] = IF n = 0 THEN {p} ELSE Producers(store, g[n - 1])
    OBVIOUS
  <2>1. CASE n = k
    <3>1. g[n - 1] = f[k - 1]
      BY <1>2, <2>1
    <3> QED
      BY <1>2, <2>1, <3>1
  <2>2. CASE n # k
    <3>1. g[n] = f[n] /\ n \in 0 .. k - 1
      BY <2>2
    <3>2. f[n] = IF n = 0 THEN {p} ELSE Producers(store, f[n - 1])
      BY <1>3, <3>1
    <3>3. n # 0 => g[n - 1] = f[n - 1]
      BY <3>1
    <3> QED
      BY <3>1, <3>2, <3>3
  <2> QED
    BY <2>1, <2>2
<1>5. Solves(g, k)
  <2>1. g = [n \in 0 .. k |-> g[n]]
    OBVIOUS
  <2> HIDE DEF g
  <2> QED
    BY <1>4, <2>1
<1> QED
  BY <1>1, <1>5

LEMMA LayersDef ==
  ASSUME NEW store, NEW p
  PROVE  /\ Layers(store, p)[0] = {p}
         /\ \A n \in 1 .. Longest : Layers(store, p)[n] = Producers(store, Layers(store, p)[n - 1])
<1> DEFINE Solves(f) == Layering(f, store, p, Longest)
           layer == CHOOSE f : Solves(f)
<1>1. Layers(store, p) = layer
  BY DEF Layers, Longest, Layering
<1>2. \E f : Solves(f)
  BY Sizes, LayersExist
<1>3. Solves(layer)
  <2> HIDE DEF Solves
  <2> QED
    BY <1>2
<1>4. \A n \in 0 .. Longest : layer[n] = IF n = 0 THEN {p} ELSE Producers(store, layer[n - 1])
  <2> HIDE DEF layer
  <2> QED
    BY <1>3 DEF Layering
<1> HIDE DEF layer, Solves
<1>5. layer[0] = {p}
  BY <1>4, Sizes
<1>6. \A n \in 1 .. Longest : layer[n] = Producers(store, layer[n - 1])
  BY <1>4, Sizes
<1> QED
  BY <1>1, <1>5, <1>6

(* Induction up to a bound, on a set of numbers. *)
LEMMA UpTo ==
  ASSUME NEW m \in Nat, NEW S, 0 \in S, \A n \in 0 .. m : n \in S /\ n + 1 <= m => n + 1 \in S
  PROVE  \A n \in 0 .. m : n \in S
<1> DEFINE Others == (0 .. m) \ S
<1> SUFFICES ASSUME Others # {} PROVE FALSE
  OBVIOUS
<1>1. PICK k \in Others : \A j \in Others : k <= j
  <2>1. Others \in SUBSET Nat
    OBVIOUS
  <2> HIDE DEF Others
  <2> QED
    BY <2>1, LeastNat
<1>2. k \in 0 .. m /\ k # 0 /\ k \notin S
  BY <1>1
<1>3. k - 1 \in 0 .. m /\ ~(k <= k - 1) /\ (k - 1) + 1 = k
  BY <1>2
<1>4. k - 1 \in S
  BY <1>1, <1>3
<1> QED
  BY <1>2, <1>3, <1>4

(* q names x as a producer inside the namespace. *)
Draws(store, q, x) ==
  \E i \in DOMAIN InputsOf(store, q) : ~InputsOf(store, q)[i].foreign /\ InputsOf(store, q)[i].ref = x

LEMMA ProducersNamed ==
  ASSUME NEW store, NEW S, NEW x
  PROVE  x \in Producers(store, S) <=> \E q \in S : Draws(store, q, x)
  BY DEF Producers, Draws

LEMMA NextLayer ==
  ASSUME NEW store, NEW p, NEW n \in 0 .. Longest, n + 1 <= Longest, NEW x
  PROVE  x \in Layers(store, p)[n + 1] <=> \E q \in Layers(store, p)[n] : Draws(store, q, x)
<1>1. n + 1 \in 1 .. Longest /\ (n + 1) - 1 = n
  BY Sizes
<1>2. Layers(store, p)[n + 1] = Producers(store, Layers(store, p)[n])
  BY <1>1, LayersDef
<1> QED
  BY <1>2, ProducersNamed

(* Where heights fall along every input, a layer lies that much lower. *)
LEMMA LayersBelow ==
  ASSUME NEW store, NEW V, NEW h, \A q \in V : h[q] \in Nat,
         \A q \in V : \A x : Draws(store, q, x) => x \in V /\ h[x] < h[q],
         NEW p \in V
  PROVE  \A n \in 0 .. Longest : \A x \in Layers(store, p)[n] : x \in V /\ h[x] + n <= h[p]
<1> DEFINE S == {n \in 0 .. Longest : \A x \in Layers(store, p)[n] : x \in V /\ h[x] + n <= h[p]}
<1>1. 0 \in S
  BY Sizes, LayersDef
<1>2. \A n \in 0 .. Longest : n \in S /\ n + 1 <= Longest => n + 1 \in S
  <2> SUFFICES ASSUME NEW n \in 0 .. Longest, n \in S, n + 1 <= Longest,
                      NEW x \in Layers(store, p)[n + 1]
               PROVE  x \in V /\ h[x] + (n + 1) <= h[p]
    BY Sizes
  <2>1. PICK q \in Layers(store, p)[n] : Draws(store, q, x)
    BY NextLayer
  <2>2. q \in V /\ h[q] + n <= h[p] /\ x \in V /\ h[x] < h[q]
    BY <2>1
  <2> QED
    BY <2>2, Sizes
<1> HIDE DEF S
<1>3. \A n \in 0 .. Longest : n \in S
  BY <1>1, <1>2, Sizes, UpTo
<1> QED
  BY <1>3 DEF S

(* A height is one more than that of some input. *)
Measured(store, V, h) ==
  /\ \A q \in V : h[q] \in Nat
  /\ \A q \in V : h[q] = 0 \/ \E x \in V : Draws(store, q, x) /\ h[q] = h[x] + 1

(* There a path goes down one by one. *)
LEMMA LayersDescend ==
  ASSUME NEW store, NEW V, NEW h, Measured(store, V, h),
         NEW p, NEW a \in 0 .. Longest, NEW x \in V, x \in Layers(store, p)[a]
  PROVE  \A n \in 0 .. h[x] : a + n <= Longest =>
           \E y \in V : y \in Layers(store, p)[a + n] /\ h[y] = h[x] - n
<1> USE DEF Measured
<1> DEFINE S == {n \in 0 .. h[x] : a + n <= Longest =>
                   \E y \in V : y \in Layers(store, p)[a + n] /\ h[y] = h[x] - n}
<1>1. 0 \in S
  <2>1. a + 0 = a /\ h[x] - 0 = h[x] /\ 0 \in 0 .. h[x]
    BY Sizes
  <2> QED
    BY <2>1
<1>2. \A n \in 0 .. h[x] : n \in S /\ n + 1 <= h[x] => n + 1 \in S
  <2> SUFFICES ASSUME NEW n \in 0 .. h[x], n \in S, n + 1 <= h[x], a + (n + 1) <= Longest
               PROVE  \E y \in V : y \in Layers(store, p)[a + (n + 1)] /\ h[y] = h[x] - (n + 1)
    OBVIOUS
  <2>1. a + n <= Longest /\ a + n \in 0 .. Longest /\ (a + n) + 1 = a + (n + 1)
    BY Sizes
  <2>2. PICK q \in V : q \in Layers(store, p)[a + n] /\ h[q] = h[x] - n
    BY <2>1
  <2>3. h[q] # 0
    BY <2>2
  <2>4. PICK y \in V : Draws(store, q, y) /\ h[q] = h[y] + 1
    BY <2>2, <2>3
  <2>5. y \in Layers(store, p)[(a + n) + 1]
    BY <2>1, <2>2, <2>4, NextLayer
  <2>6. h[y] = h[x] - (n + 1)
    BY <2>2, <2>4
  <2> QED
    BY <2>1, <2>5, <2>6
<1> HIDE DEF S
<1>3. \A n \in 0 .. h[x] : n \in S
  BY <1>1, <1>2, UpTo
<1> QED
  BY <1>3 DEF S

(* Products that keep naming one another are in every layer. *)
LEMMA LayersStay ==
  ASSUME NEW store, NEW C, \A q \in C : \E x \in C : Draws(store, q, x), NEW p \in C
  PROVE  \A n \in 0 .. Longest : \E x \in C : x \in Layers(store, p)[n]
<1> DEFINE S == {n \in 0 .. Longest : \E x \in C : x \in Layers(store, p)[n]}
<1>1. 0 \in S
  BY Sizes, LayersDef
<1>2. \A n \in 0 .. Longest : n \in S /\ n + 1 <= Longest => n + 1 \in S
  <2> SUFFICES ASSUME NEW n \in 0 .. Longest, n \in S, n + 1 <= Longest
               PROVE  \E x \in C : x \in Layers(store, p)[n + 1]
    BY Sizes
  <2>1. PICK q \in C : q \in Layers(store, p)[n]
    OBVIOUS
  <2>2. PICK x \in C : Draws(store, q, x)
    OBVIOUS
  <2> QED
    BY <2>1, <2>2, NextLayer
<1> HIDE DEF S
<1>3. \A n \in 0 .. Longest : n \in S
  BY <1>1, <1>2, Sizes, UpTo
<1> QED
  BY <1>3 DEF S

(* The producers an object of the namespace names are in the namespace. *)
Local(store) == \A q \in Products : \A x : Draws(store, q, x) => x \in Products

(* Reading one more product takes none out of a layer. *)
LEMMA LayersGrow ==
  ASSUME NEW old, NEW new, \A q \in Products : old[q] # None => new[q] = old[q], Local(old),
         NEW p \in Products
  PROVE  \A n \in 0 .. Longest : Layers(old, p)[n] \subseteq Products \cap Layers(new, p)[n]
<1> DEFINE S == {n \in 0 .. Longest : Layers(old, p)[n] \subseteq Products \cap Layers(new, p)[n]}
<1>1. 0 \in S
  BY Sizes, LayersDef
<1>2. \A q \in Products : \A x : Draws(old, q, x) => Draws(new, q, x)
  <2> SUFFICES ASSUME NEW q \in Products, NEW x, Draws(old, q, x) PROVE Draws(new, q, x)
    OBVIOUS
  <2>1. DOMAIN InputsOf(old, q) # {}
    BY DEF Draws
  <2>2. old[q] # None
    BY <2>1 DEF InputsOf
  <2>3. InputsOf(new, q) = InputsOf(old, q)
    BY <2>2 DEF InputsOf
  <2> QED
    BY <2>3 DEF Draws
<1>3. \A n \in 0 .. Longest : n \in S /\ n + 1 <= Longest => n + 1 \in S
  <2> SUFFICES ASSUME NEW n \in 0 .. Longest, n \in S, n + 1 <= Longest, NEW x \in Layers(old, p)[n + 1]
               PROVE  x \in Products /\ x \in Layers(new, p)[n + 1]
    BY Sizes
  <2>1. PICK q \in Layers(old, p)[n] : Draws(old, q, x)
    BY NextLayer
  <2>2. q \in Products /\ q \in Layers(new, p)[n] /\ Draws(new, q, x)
    BY <1>2, <2>1
  <2>3. x \in Products
    BY <2>1, <2>2 DEF Local
  <2> QED
    BY <2>2, <2>3, NextLayer
<1> HIDE DEF S
<1>4. \A n \in 0 .. Longest : n \in S
  BY <1>1, <1>3, Sizes, UpTo
<1> QED
  BY <1>4 DEF S

(* Heights that go down one by one are fewer than the products. *)
LEMMA HeightsFew ==
  ASSUME NEW store, NEW V \in SUBSET Products, NEW h, Measured(store, V, h),
         NEW p \in V
  PROVE  h[p] < Cardinality(Products)
<1> USE DEF Measured
<1> DEFINE S == {n \in 0 .. h[p] : \E y \in V : h[y] = h[p] - n}
<1>1. 0 \in S
  OBVIOUS
<1>2. \A n \in 0 .. h[p] : n \in S /\ n + 1 <= h[p] => n + 1 \in S
  <2> SUFFICES ASSUME NEW n \in 0 .. h[p], n \in S, n + 1 <= h[p] PROVE \E y \in V : h[y] = h[p] - (n + 1)
    OBVIOUS
  <2>1. PICK q \in V : h[q] = h[p] - n
    OBVIOUS
  <2>2. PICK y \in V : h[q] = h[y] + 1
    BY <2>1
  <2> QED
    BY <2>1, <2>2
<1>3. \A n \in 0 .. h[p] : \E y \in V : h[y] = h[p] - n
  <2> HIDE DEF S
  <2>1. \A n \in 0 .. h[p] : n \in S
    BY <1>1, <1>2, UpTo
  <2> QED
    BY <2>1 DEF S
<1> DEFINE at == [n \in 0 .. h[p] |-> CHOOSE y \in V : h[y] = h[p] - n]
<1>4. \A n \in 0 .. h[p] : at[n] \in V /\ h[at[n]] = h[p] - n
  BY <1>3
<1> HIDE DEF at
<1>5. at \in Injection(0 .. h[p], Products)
  <2>1. at \in [0 .. h[p] -> Products]
    BY <1>4 DEF at
  <2>2. \A m, n \in 0 .. h[p] : at[m] = at[n] => m = n
    BY <1>4
  <2> QED
    BY <2>1, <2>2 DEF Injection, IsInjective
<1>6. Cardinality(0 .. h[p]) <= Cardinality(Products)
  BY <1>5, NamespaceAssumption, FS_Injection
<1>7. Cardinality(0 .. h[p]) = h[p] + 1
  <2>1. Cardinality(0 .. h[p]) = IF 0 > h[p] THEN 0 ELSE h[p] - 0 + 1
    BY FS_Interval
  <2> QED
    BY <2>1
<1> QED
  BY <1>6, <1>7, Sizes

-----------------------------------------------------------------------------
(* Contracts.                                                              *)

(* findOutput returns the first output of that name. *)
LEMMA FirstOutput ==
  ASSUME NEW object \in Objects, NEW name, hasOutput(object, name)
  PROVE  \E i \in DOMAIN object.spec.outputs :
           object.spec.outputs[i].name = name /\ findOutput(object, name) = object.spec.outputs[i]
<1> DEFINE ports == object.spec.outputs
           First(i) == ports[i].name = name /\ \A j \in 1 .. i - 1 : ports[j].name # name
<1>1. ports \in Seq(OutputPorts) /\ DOMAIN ports = 1 .. Len(ports) /\ Len(ports) \in Nat
  BY DEF Objects, Specs
<1>2. \E i \in DOMAIN ports : First(i)
  <2> DEFINE S == {i \in DOMAIN ports : ports[i].name = name}
  <2>1. S # {} /\ S \in SUBSET Nat
    BY <1>1 DEF hasOutput
  <2> HIDE DEF S
  <2>2. PICK i \in S : \A j \in S : i <= j
    BY <2>1, LeastNat
  <2>3. i \in 1 .. Len(ports) /\ ports[i].name = name
    BY <1>1 DEF S
  <2>4. \A j \in 1 .. i - 1 : j \in 1 .. Len(ports) /\ ~(i <= j)
    BY <1>1, <2>3
  <2> QED
    BY <1>1, <2>2, <2>3, <2>4 DEF S
<1>3. findOutput(object, name) = ports[CHOOSE i \in DOMAIN ports : First(i)]
  BY DEF findOutput
<1> HIDE DEF ports
<1> QED
  BY <1>2, <1>3 DEF ports

LEMMA VersionMeets ==
  ASSUME NEW v \in Versions, NEW minimum \in Versions
  PROVE  compatibleVersion(v, minimum) <=> Meets(v, minimum)
<1>1. CASE v = Unstable \/ minimum = Unstable
  BY <1>1 DEF compatibleVersion, Meets
<1>2. CASE v # Unstable /\ minimum # Unstable
  <2>1. v \in [major : Nat, rest : Nat] /\ minimum \in [major : Nat, rest : Nat]
    BY <1>2 DEF Versions
  <2>2. v.major \in Nat /\ v.rest \in Nat /\ minimum.major \in Nat /\ minimum.rest \in Nat
    BY <2>1
  <2>3. {v, minimum} \cap {Unstable} = {}
    BY <1>2
  <2> QED
    BY <1>2, <2>2, <2>3 DEF compatibleVersion, Meets
<1> QED
  BY <1>1, <1>2

(* inputCompatibility finds nothing exactly where an output satisfies the  *)
(* input; the converse needs output names to be unique.                    *)
LEMMA CompatibleSatisfies ==
  ASSUME NEW port \in InputPorts, NEW object \in Objects
  PROVE  /\ inputCompatibility(port, object) \in {"", "OutputNotFound", "ContractIncompatible"}
         /\ inputCompatibility(port, object) = "" => Satisfies(object, port)
         /\ /\ Satisfies(object, port)
            /\ \A i, j \in DOMAIN object.spec.outputs :
                 object.spec.outputs[i].name = object.spec.outputs[j].name => i = j
            => inputCompatibility(port, object) = ""
<1> DEFINE outputs == object.spec.outputs
           found == findOutput(object, port.output)
           Contract == /\ found.protocol = port.contract.protocol
                       /\ compatibleVersion(object.spec.version, port.contract.minimumVersion)
<1>1. inputCompatibility(port, object) = IF ~hasOutput(object, port.output) THEN "OutputNotFound"
                                         ELSE IF port.contract = None \/ Contract THEN "" ELSE "ContractIncompatible"
  BY DEF inputCompatibility
<1>2. port.contract # None => (compatibleVersion(object.spec.version, port.contract.minimumVersion)
                                 <=> Meets(object.spec.version, port.contract.minimumVersion))
  <2>1. object.spec.version \in Versions
    BY DEF Objects, Specs
  <2>2. port.contract # None => port.contract.minimumVersion \in Versions
    BY DEF InputPorts, Contracts
  <2> QED
    BY <2>1, <2>2, VersionMeets
<1>3. inputCompatibility(port, object) = "" => Satisfies(object, port)
  <2> SUFFICES ASSUME hasOutput(object, port.output), port.contract = None \/ Contract PROVE Satisfies(object, port)
    BY <1>1
  <2>1. PICK i \in DOMAIN outputs : outputs[i].name = port.output /\ found = outputs[i]
    BY FirstOutput
  <2> QED
    BY <1>2, <2>1 DEF Satisfies
<1>4. ASSUME Satisfies(object, port), \A i, j \in DOMAIN outputs : outputs[i].name = outputs[j].name => i = j
      PROVE  inputCompatibility(port, object) = ""
  <2>1. PICK i \in DOMAIN outputs :
          /\ outputs[i].name = port.output
          /\ port.contract # None => /\ outputs[i].protocol = port.contract.protocol
                                     /\ Meets(object.spec.version, port.contract.minimumVersion)
    BY <1>4 DEF Satisfies
  <2>2. hasOutput(object, port.output)
    BY <2>1 DEF hasOutput
  <2>3. PICK j \in DOMAIN outputs : outputs[j].name = port.output /\ found = outputs[j]
    BY <2>2, FirstOutput
  <2>4. found = outputs[i]
    BY <1>4, <2>1, <2>3
  <2> HIDE DEF found, outputs
  <2> QED
    BY <1>1, <1>2, <2>1, <2>2, <2>4
<1> QED
  BY <1>1, <1>3, <1>4

-----------------------------------------------------------------------------
(* The invariant of the walk, about a graph g and a stack s of frames that *)
(* started at product t.                                                   *)

(* Input i of q is behind the walk: local, its producer visited, its       *)
(* contract met, an unready producer noted, and the producer lower than q. *)
Checked(g, q, i) ==
  LET port == InputsOf(g.products, q)[i]
  IN  /\ ~port.foreign /\ port.ref \in g.visited
      /\ inputCompatibility(port, g.products[port.ref]) = ""
      /\ producerReady(g.products[port.ref]) \/ g.notReady # None
      /\ g.heights[port.ref] < g.heights[q]

(* So are the first n inputs of q, and q stands right above one of them.   *)
Behind(g, q, n) ==
  /\ \A i \in 1 .. n : Checked(g, q, i)
  /\ \/ g.heights[q] = 0
     \/ \E i \in 1 .. n : g.heights[q] = g.heights[InputsOf(g.products, q)[i].ref] + 1

(* A visited product has all its inputs behind the walk. *)
Complete(g) ==
  \A q \in g.visited : g.products[q] # None /\ Behind(g, q, Len(InputsOf(g.products, q)))

(* A frame is of a product that was read and not left, at one of its       *)
(* inputs or past them, with room below.                                   *)
Open(g, f, depth) ==
  /\ f.key \notin g.visited /\ g.products[f.key] # None
  /\ f.next <= Len(InputsOf(g.products, f.key)) + 1
  /\ Behind(g, f.key, f.next - 1)
  /\ depth + g.heights[f.key] < MaxDepth

(* The input frame f is at leads to x. *)
Leads(g, f, x) ==
  /\ f.next \in DOMAIN InputsOf(g.products, f.key)
  /\ ~InputsOf(g.products, f.key)[f.next].foreign
  /\ InputsOf(g.products, f.key)[f.next].ref = x

(* The stack is a path without repetition from t. *)
Stacked(g, s, t) ==
  /\ Len(s) <= MaxDepth
  /\ s # <<>> => s[1].key = t
  /\ \A i, j \in DOMAIN s : s[i].key = s[j].key => i = j
  /\ \A j \in DOMAIN s : Open(g, s[j], j - 1)
  /\ \A j \in 1 .. Len(s) - 1 : Leads(g, s[j], s[j + 1].key)

(* What was not read has no height, and what was read is what the          *)
(* publisher of that name may apply.                                       *)
Known(g) ==
  \A p \in Products : /\ g.products[p] = None => g.heights[p] = 0
                      /\ g.products[p] # None => g.products[p].spec \in Manifests[p]

(* Everything read is visited or on the stack. *)
Fresh(g, s) == \A p \in Loaded(g) : p \in g.visited \/ \E j \in DOMAIN s : s[j].key = p

EdgeSet(store, S) ==
  {e \in S \X (1 .. MaxEdges + 1) : e[2] \in DOMAIN InputsOf(store, e[1])}

Bounded(g) == Cardinality(Loaded(g)) <= MaxProducts /\ g.edges <= MaxEdges

(* The budget counts every input read once. *)
Counted(g) ==
  /\ g.edges = Cardinality(EdgeSet(g.products, Products))
  /\ \A p \in Products : Len(InputsOf(g.products, p)) <= MaxEdges

(* Whatever the walk touched lies below t. *)
Reached(g, t) ==
  /\ Loaded(g) \subseteq Graph(g.products, t)
  /\ g.missing \subseteq Upstream(g.products, t)
  /\ g.notReady # None => /\ g.notReady \in Upstream(g.products, t)
                          /\ g.products[g.notReady] # None
                          /\ ~producerReady(g.products[g.notReady])

Kept(g, t) == Known(g) /\ Complete(g) /\ Bounded(g) /\ Reached(g, t)

Walking(g, s, t) == Kept(g, t) /\ Stacked(g, s, t) /\ Fresh(g, s) /\ Counted(g)

(* What a walk without a failure leaves behind. *)
Sound(g, t) == Counted(g) /\ t \in g.visited /\ g.heights[t] < MaxDepth

(* An input below t leaves the namespace or does not fit what was read. *)
Broken(g, t) ==
  \E q \in Graph(g.products, t) : \E i \in DOMAIN InputsOf(g.products, q) :
    LET port == InputsOf(g.products, q)[i]
    IN  port.foreign \/ (g.products[port.ref] # None /\ ~Satisfies(g.products[port.ref], port))

(* A reported failure is a defect of what was read, unless a read failed.  *)
Defect(g, t, o) ==
  \/ o.reason = "DependencyUnavailable" /\ o.err
  \/ /\ ~o.err
     /\ \/ o.reason = "DependencyCycle" /\ Cyclic(g.products, t)
        \/ o.reason = "CompositionLimitExceeded" /\ ~WithinLimits(g.products, t)
        \/ o.reason = "DependencyNotFound" /\ ~ContractsHold(g.products, t) /\ g.missing # {}
        \/ /\ o.reason \in {"CrossNamespaceDependencyDenied", "OutputNotFound", "ContractIncompatible"}
           /\ Broken(g, t)

(* What a store holds is what the publisher of that name may apply. *)
Manifested(store) == \A p \in Products : store[p] # None => store[p].spec \in Manifests[p]

(* Where a walk from t stands: at c, with graph g, stack s and result o. *)
Standing(c, g, s, o, t) ==
  \/ c = "visit" /\ s # <<>> /\ o = NoObservation /\ Walking(g, s, t)
  \/ /\ c = "lineage" /\ s = <<>> /\ Kept(g, t)
     /\ IF o.reason = "" THEN ~o.err /\ Sound(g, t) ELSE Defect(g, t, o)

-----------------------------------------------------------------------------
(* Where the stack stands.                                                 *)

LEMMA InputsTyped ==
  ASSUME NEW g \in Graphs, NEW q \in Products
  PROVE  /\ InputsOf(g.products, q) \in Seq(InputPorts)
         /\ Len(InputsOf(g.products, q)) \in Nat
         /\ DOMAIN InputsOf(g.products, q) = 1 .. Len(InputsOf(g.products, q))
         /\ \A i \in DOMAIN InputsOf(g.products, q) :
              /\ InputsOf(g.products, q)[i] \in InputPorts
              /\ InputsOf(g.products, q)[i].ref \in Products
<1>1. InputsOf(g.products, q) \in Seq(InputPorts)
  <2>1. g.products[q] \in Objects \cup {None}
    BY DEF Graphs
  <2> QED
    BY <2>1 DEF InputsOf, Objects, Specs
<1> DEFINE ports == InputsOf(g.products, q)
<1>2. Len(ports) \in Nat /\ DOMAIN ports = 1 .. Len(ports) /\ \A i \in 1 .. Len(ports) : ports[i] \in InputPorts
  BY <1>1
<1>3. \A port \in InputPorts : port.ref \in Products
  BY DEF InputPorts
<1> QED
  BY <1>1, <1>2, <1>3

LEMMA FramesTyped ==
  ASSUME NEW s \in Seq(Frames)
  PROVE  /\ Len(s) \in Nat /\ DOMAIN s = 1 .. Len(s)
         /\ \A j \in DOMAIN s : s[j] \in Frames /\ s[j].key \in Products /\ s[j].next \in Nat \ {0}
<1>1. Len(s) \in Nat /\ DOMAIN s = 1 .. Len(s) /\ \A j \in 1 .. Len(s) : s[j] \in Frames
  OBVIOUS
<1>2. \A f \in Frames : f.key \in Products /\ f.next \in Nat \ {0}
  BY DEF Frames
<1> QED
  BY <1>1, <1>2

LEMMA LeadsNames ==
  ASSUME NEW g, NEW f, NEW x, Leads(g, f, x)
  PROVE  Draws(g.products, f.key, x)
  BY DEF Leads, Draws

LEMMA StackLayers ==
  ASSUME NEW g \in Graphs, NEW s \in Seq(Frames), NEW t \in Products, Stacked(g, s, t), s # <<>>
  PROVE  /\ Len(s) \in 1 .. Cardinality(Products) /\ Len(s) <= MaxDepth
         /\ \A j \in 1 .. Len(s) : s[j].key \in Layers(g.products, t)[j - 1]
<1>1. Len(s) \in Nat \ {0} /\ DOMAIN s = 1 .. Len(s)
  OBVIOUS
<1>2. Len(s) <= Cardinality(Products)
  <2> DEFINE key == [j \in 1 .. Len(s) |-> s[j].key]
  <2>1. key \in [1 .. Len(s) -> Products]
    BY FramesTyped
  <2>2. \A i, j \in 1 .. Len(s) : key[i] = key[j] => i = j
    BY <1>1 DEF Stacked
  <2> HIDE DEF key
  <2>3. key \in Injection(1 .. Len(s), Products)
    BY <2>1, <2>2 DEF Injection, IsInjective
  <2>4. Cardinality(1 .. Len(s)) <= Cardinality(Products)
    BY <2>3, NamespaceAssumption, FS_Injection
  <2>5. Cardinality(1 .. Len(s)) = IF 1 > Len(s) THEN 0 ELSE Len(s) - 1 + 1
    BY <1>1, FS_Interval
  <2> QED
    BY <1>1, <2>4, <2>5, Sizes
<1>3. Len(s) <= MaxDepth
  BY DEF Stacked
<1> DEFINE S == {n \in 0 .. Len(s) - 1 : s[n + 1].key \in Layers(g.products, t)[n]}
<1>4. 0 \in S
  BY <1>1, LayersDef DEF Stacked
<1>5. \A n \in 0 .. Len(s) - 1 : n \in S /\ n + 1 <= Len(s) - 1 => n + 1 \in S
  <2> SUFFICES ASSUME NEW n \in 0 .. Len(s) - 1, n \in S, n + 1 <= Len(s) - 1
               PROVE  s[(n + 1) + 1].key \in Layers(g.products, t)[n + 1]
    BY <1>1
  <2>1. n + 1 \in 1 .. Len(s) - 1 /\ n \in 0 .. Longest /\ n + 1 <= Longest
    BY <1>1, <1>2, Sizes DEF Longest
  <2>2. Leads(g, s[n + 1], s[(n + 1) + 1].key)
    BY <2>1 DEF Stacked
  <2>3. Draws(g.products, s[n + 1].key, s[(n + 1) + 1].key)
    BY <2>2, LeadsNames
  <2>4. s[n + 1].key \in Layers(g.products, t)[n]
    OBVIOUS
  <2> QED
    BY <2>1, <2>3, <2>4, NextLayer
<1> HIDE DEF S
<1>6. Len(s) - 1 \in Nat
  BY <1>1
<1>7. \A n \in 0 .. Len(s) - 1 : n \in S
  BY <1>4, <1>5, <1>6, UpTo
<1>8. \A j \in 1 .. Len(s) : s[j].key \in Layers(g.products, t)[j - 1]
  <2> SUFFICES ASSUME NEW j \in 1 .. Len(s) PROVE s[j].key \in Layers(g.products, t)[j - 1]
    OBVIOUS
  <2>1. j - 1 \in 0 .. Len(s) - 1 /\ (j - 1) + 1 = j
    BY <1>1
  <2> QED
    BY <1>7, <2>1 DEF S
<1> QED
  BY <1>1, <1>2, <1>3, <1>8

(* What an active product names lies that deep below t. *)
LEMMA TopLeads ==
  ASSUME NEW g \in Graphs, NEW s \in Seq(Frames), NEW t \in Products, Stacked(g, s, t), s # <<>>,
         NEW x, Draws(g.products, s[Len(s)].key, x)
  PROVE  x \in Layers(g.products, t)[Len(s)] /\ x \in Upstream(g.products, t)
<1>1. /\ Len(s) \in 1 .. Cardinality(Products)
      /\ s[Len(s)].key \in Layers(g.products, t)[Len(s) - 1]
  BY StackLayers
<1>2. Len(s) - 1 \in 0 .. Longest /\ (Len(s) - 1) + 1 <= Longest /\ (Len(s) - 1) + 1 = Len(s)
  BY <1>1, Sizes DEF Longest
<1>3. x \in Layers(g.products, t)[(Len(s) - 1) + 1]
  BY <1>1, <1>2, NextLayer
<1> QED
  BY <1>1, <1>2, <1>3 DEF Upstream

LEMMA KeysReached ==
  ASSUME NEW g \in Graphs, NEW s \in Seq(Frames), NEW t \in Products, Stacked(g, s, t),
         NEW j \in DOMAIN s
  PROVE  s[j].key \in Graph(g.products, t)
<1>1. s # <<>> /\ j \in 1 .. Len(s)
  OBVIOUS
<1>2. Len(s) \in 1 .. Cardinality(Products) /\ s[j].key \in Layers(g.products, t)[j - 1]
  BY <1>1, StackLayers
<1>3. CASE j = 1
  BY <1>1, <1>3 DEF Stacked, Graph
<1>4. CASE j # 1
  <2>1. j - 1 \in 1 .. Cardinality(Products)
    BY <1>1, <1>2, <1>4, Sizes
  <2> QED
    BY <1>2, <2>1 DEF Graph, Upstream
<1> QED
  BY <1>3, <1>4

LEMMA StoreLocal ==
  ASSUME NEW g \in Graphs
  PROVE  Local(g.products)
  BY InputsTyped DEF Local, Draws

(* Reading on keeps what was reached. *)
LEMMA GraphGrows ==
  ASSUME NEW old, NEW new, \A q \in Products : old[q] # None => new[q] = old[q], Local(old),
         NEW t \in Products
  PROVE  /\ Upstream(old, t) \subseteq Upstream(new, t)
         /\ Graph(old, t) \subseteq Graph(new, t)
         /\ Graph(old, t) \subseteq Products
<1>1. \A n \in 1 .. Cardinality(Products) : Layers(old, t)[n] \subseteq Products \cap Layers(new, t)[n]
  BY LayersGrow, Sizes DEF Longest
<1>2. Upstream(old, t) \subseteq Products \cap Upstream(new, t)
  BY <1>1 DEF Upstream
<1> QED
  BY <1>2 DEF Graph

-----------------------------------------------------------------------------
(* What the steps of the walk keep.                                        *)

(* h knows all that g knew. *)
Extends(g, h) ==
  /\ \A p \in Products : g.products[p] # None => h.products[p] = g.products[p]
  /\ g.visited \subseteq h.visited
  /\ g.notReady # None => h.notReady # None
  /\ \A p \in g.visited : h.heights[p] = g.heights[p]

LEMMA CheckedStays ==
  ASSUME NEW g \in Graphs, NEW h \in Graphs, Extends(g, h), Complete(g),
         NEW q \in Products, g.products[q] # None, g.heights[q] <= h.heights[q],
         NEW i \in DOMAIN InputsOf(g.products, q), Checked(g, q, i)
  PROVE  Checked(h, q, i)
<1> DEFINE port == InputsOf(g.products, q)[i]
<1>1. InputsOf(h.products, q) = InputsOf(g.products, q)
  BY DEF Extends, InputsOf
<1>2. port.ref \in Products /\ port.ref \in g.visited
  BY InputsTyped DEF Checked
<1>3. g.products[port.ref] # None
  BY <1>2 DEF Complete
<1>4. /\ h.products[port.ref] = g.products[port.ref]
      /\ port.ref \in h.visited
      /\ h.heights[port.ref] = g.heights[port.ref]
  BY <1>2, <1>3 DEF Extends
<1>5. /\ g.heights[port.ref] \in Nat /\ g.heights[q] \in Nat /\ h.heights[q] \in Nat
  BY <1>2 DEF Graphs
<1>6. h.heights[port.ref] < h.heights[q]
  <2>1. g.heights[port.ref] < g.heights[q]
    BY DEF Checked
  <2> HIDE DEF port
  <2> QED
    BY <1>4, <1>5, <2>1
<1>7. producerReady(g.products[port.ref]) \/ h.notReady # None
  BY DEF Extends, Checked
<1> QED
  BY <1>1, <1>4, <1>6, <1>7 DEF Checked

LEMMA BehindStays ==
  ASSUME NEW g \in Graphs, NEW h \in Graphs, Extends(g, h), Complete(g),
         NEW q \in Products, g.products[q] # None, g.heights[q] = h.heights[q],
         NEW n \in Nat, n <= Len(InputsOf(g.products, q)), Behind(g, q, n)
  PROVE  Behind(h, q, n)
<1>1. InputsOf(h.products, q) = InputsOf(g.products, q)
  BY DEF Extends, InputsOf
<1>2. \A i \in 1 .. n : i \in DOMAIN InputsOf(g.products, q)
  BY InputsTyped
<1>3. g.heights[q] \in Nat
  BY DEF Graphs
<1>4. \A i \in 1 .. n : Checked(h, q, i)
  <2> SUFFICES ASSUME NEW i \in 1 .. n PROVE Checked(h, q, i)
    OBVIOUS
  <2>1. Checked(g, q, i) /\ i \in DOMAIN InputsOf(g.products, q) /\ g.heights[q] <= h.heights[q]
    BY <1>2, <1>3 DEF Behind
  <2> QED
    BY <2>1, CheckedStays
<1>5. \A i \in 1 .. n : h.heights[InputsOf(g.products, q)[i].ref] = g.heights[InputsOf(g.products, q)[i].ref]
  BY DEF Behind, Checked, Extends
<1> QED
  BY <1>1, <1>4, <1>5 DEF Behind

LEMMA CompleteStays ==
  ASSUME NEW g \in Graphs, NEW h \in Graphs, Extends(g, h), Complete(g), NEW q \in g.visited
  PROVE  h.products[q] # None /\ Behind(h, q, Len(InputsOf(h.products, q)))
<1>1. q \in Products /\ g.products[q] # None /\ g.heights[q] = h.heights[q]
  BY DEF Complete, Extends, Graphs
<1>2. InputsOf(h.products, q) = InputsOf(g.products, q) /\ h.products[q] # None
  BY <1>1 DEF Extends, InputsOf
<1>3. Len(InputsOf(g.products, q)) \in Nat /\ Len(InputsOf(g.products, q)) <= Len(InputsOf(g.products, q))
  BY <1>1, InputsTyped
<1>4. Behind(g, q, Len(InputsOf(g.products, q)))
  BY DEF Complete
<1>5. Behind(h, q, Len(InputsOf(g.products, q)))
  BY <1>1, <1>3, <1>4, BehindStays
<1> QED
  BY <1>2, <1>5

LEMMA OpenStays ==
  ASSUME NEW g \in Graphs, NEW h \in Graphs, Extends(g, h), Complete(g), NEW f \in Frames, NEW depth,
         Open(g, f, depth), f.key \notin h.visited, g.heights[f.key] = h.heights[f.key]
  PROVE  Open(h, f, depth)
<1>1. f.key \in Products /\ f.next \in Nat \ {0} /\ g.products[f.key] # None
  BY DEF Frames, Open
<1>2. InputsOf(h.products, f.key) = InputsOf(g.products, f.key) /\ h.products[f.key] # None
  BY <1>1 DEF Extends, InputsOf
<1>3. f.next - 1 \in Nat /\ f.next - 1 <= Len(InputsOf(g.products, f.key))
  BY <1>1, InputsTyped DEF Open
<1>4. Behind(h, f.key, f.next - 1)
  BY <1>1, <1>3, BehindStays DEF Open
<1> QED
  BY <1>2, <1>4 DEF Open

LEMMA LeadsStays ==
  ASSUME NEW g, NEW h, Extends(g, h), NEW f, f.key \in Products, NEW x, Leads(g, f, x)
  PROVE  Leads(h, f, x)
<1>1. g.products[f.key] # None
  BY DEF Leads, InputsOf
<1>2. InputsOf(h.products, f.key) = InputsOf(g.products, f.key)
  BY <1>1 DEF Extends, InputsOf
<1> QED
  BY <1>2 DEF Leads

(* The producer came back to the consumer on top of s, which moves on. *)
MovedOn(g, s, key) ==
  [g EXCEPT !.heights[s[Len(s)].key] = Taller(g, s[Len(s)].key, key),
            !.notReady = IF @ = None /\ ~producerReady(g.products[key]) THEN key ELSE @]

LEMMA MovedOnFields ==
  ASSUME NEW g \in Graphs, NEW s \in Seq(Frames), s # <<>>, NEW key \in Products
  PROVE  LET h == MovedOn(g, s, key)
             top == s[Len(s)].key
         IN  /\ h \in Graphs
             /\ h.products = g.products /\ h.visited = g.visited
             /\ h.missing = g.missing /\ h.edges = g.edges
             /\ h.notReady = IF g.notReady = None /\ ~producerReady(g.products[key]) THEN key ELSE g.notReady
             /\ h.heights[top] = Taller(g, top, key)
             /\ \A q \in Products \ {top} : h.heights[q] = g.heights[q]
<1> DEFINE top == s[Len(s)].key
           noted == IF g.notReady = None /\ ~producerReady(g.products[key]) THEN key ELSE g.notReady
           height == Taller(g, top, key)
<1>1. top \in Products /\ Len(s) \in DOMAIN s
  <2>1. Len(s) \in DOMAIN s
    OBVIOUS
  <2> QED
    BY <2>1, FramesTyped
<1>2. height \in Nat
  BY <1>1 DEF Taller, Graphs
<1>3. noted \in Products \cup {None}
  BY DEF Graphs
<1>4. MovedOn(g, s, key) = [g EXCEPT !.heights = [g.heights EXCEPT ![top] = height], !.notReady = noted]
  BY DEF MovedOn, Graphs
<1> HIDE DEF top, noted, height
<1>5. [g.heights EXCEPT ![top] = height] \in [Products -> Nat]
  BY <1>1, <1>2 DEF Graphs
<1>6. \A hs \in [Products -> Nat] : [g EXCEPT !.heights = hs, !.notReady = noted] \in Graphs
  BY <1>3 DEF Graphs
<1>7. g.heights \in [Products -> Nat]
  BY DEF Graphs
<1>8. /\ MovedOn(g, s, key).products = g.products /\ MovedOn(g, s, key).visited = g.visited
      /\ MovedOn(g, s, key).missing = g.missing /\ MovedOn(g, s, key).edges = g.edges
      /\ MovedOn(g, s, key).notReady = noted
      /\ MovedOn(g, s, key).heights = [g.heights EXCEPT ![top] = height]
  BY <1>4 DEF Graphs
<1>9. MovedOn(g, s, key) \in Graphs
  BY <1>4, <1>5, <1>6
<1>10. /\ [g.heights EXCEPT ![top] = height][top] = height
       /\ \A q \in Products \ {top} : [g.heights EXCEPT ![top] = height][q] = g.heights[q]
  BY <1>1, <1>7
<1> QED
  BY <1>8, <1>9, <1>10 DEF top, noted, height

(* Its stack. *)
Advanced(s) == [s EXCEPT ![Len(s)].next = @ + 1]

LEMMA AdvancedFrames ==
  ASSUME NEW s \in Seq(Frames), s # <<>>
  PROVE  /\ Advanced(s) \in Seq(Frames) /\ Len(Advanced(s)) = Len(s) /\ Advanced(s) # <<>>
         /\ DOMAIN Advanced(s) = DOMAIN s
         /\ \A j \in DOMAIN s : Advanced(s)[j].key = s[j].key
         /\ \A j \in DOMAIN s \ {Len(s)} : Advanced(s)[j] = s[j]
         /\ Advanced(s)[Len(s)].next = s[Len(s)].next + 1
<1> DEFINE top == s[Len(s)]
           next == [top EXCEPT !.next = @ + 1]
<1>1. Len(s) \in DOMAIN s /\ top \in Frames
  <2>1. Len(s) \in DOMAIN s
    OBVIOUS
  <2> QED
    BY <2>1, FramesTyped
<1>2. next \in Frames /\ next.key = top.key /\ next.next = top.next + 1
  BY <1>1 DEF Frames
<1>3. Advanced(s) = [s EXCEPT ![Len(s)] = next]
  BY DEF Advanced
<1> HIDE DEF next, top
<1>4. Advanced(s) \in Seq(Frames) /\ Len(Advanced(s)) = Len(s)
  BY <1>1, <1>2, <1>3, ExceptSeq
<1>5. DOMAIN Advanced(s) = DOMAIN s
  BY <1>3
<1>6. Advanced(s)[Len(s)] = next /\ \A j \in DOMAIN s \ {Len(s)} : Advanced(s)[j] = s[j]
  BY <1>1, <1>3
<1>7. \A j \in DOMAIN s : Advanced(s)[j].key = s[j].key
  BY <1>2, <1>6 DEF top
<1> QED
  BY <1>1, <1>2, <1>4, <1>5, <1>6, <1>7 DEF top

(* The consumer on top of s may accept key. *)
Acceptable(g, s, key) ==
  /\ key \in g.visited /\ Leads(g, s[Len(s)], key)
  /\ Len(s) + g.heights[key] < MaxDepth
  /\ inputCompatibility(InputsOf(g.products, s[Len(s)].key)[s[Len(s)].next], g.products[key]) = ""

LEMMA ReturnedKeeps ==
  ASSUME NEW g \in Graphs, NEW s \in Seq(Frames), NEW t \in Products, s # <<>>,
         Walking(g, s, t), NEW key, Acceptable(g, s, key)
  PROVE  Walking(MovedOn(g, s, key), Advanced(s), t)
<1> DEFINE h == MovedOn(g, s, key)
           r == Advanced(s)
           top == s[Len(s)]
           ports == InputsOf(g.products, top.key)
<1>1. /\ Known(g) /\ Complete(g) /\ Bounded(g) /\ Reached(g, t)
      /\ Stacked(g, s, t) /\ Fresh(g, s) /\ Counted(g)
  BY DEF Walking, Kept
<1>2. /\ key \in Products /\ Len(s) \in DOMAIN s /\ Len(s) \in Nat \ {0} /\ DOMAIN s = 1 .. Len(s)
      /\ top \in Frames /\ top.key \in Products /\ top.next \in Nat \ {0}
  <2>1. Len(s) \in DOMAIN s /\ Len(s) \in Nat \ {0} /\ DOMAIN s = 1 .. Len(s)
    OBVIOUS
  <2>2. key \in Products
    BY DEF Graphs, Acceptable
  <2> QED
    BY <2>1, <2>2, FramesTyped
<1>3. /\ h \in Graphs
      /\ h.products = g.products /\ h.visited = g.visited
      /\ h.missing = g.missing /\ h.edges = g.edges
      /\ h.notReady = IF g.notReady = None /\ ~producerReady(g.products[key]) THEN key ELSE g.notReady
      /\ h.heights[top.key] = Taller(g, top.key, key)
      /\ \A q \in Products \ {top.key} : h.heights[q] = g.heights[q]
  BY <1>2, MovedOnFields
<1>4. /\ r \in Seq(Frames) /\ Len(r) = Len(s) /\ r # <<>> /\ DOMAIN r = DOMAIN s
      /\ \A j \in DOMAIN s : r[j].key = s[j].key
      /\ \A j \in DOMAIN s \ {Len(s)} : r[j] = s[j]
      /\ r[Len(s)].next = top.next + 1
  BY AdvancedFrames
<1>5. Open(g, top, Len(s) - 1)
  BY <1>1, <1>2 DEF Stacked
<1>6. top.key \notin g.visited /\ g.products[top.key] # None
  BY <1>5 DEF Open
<1> HIDE DEF h, r, top
<1>7. Extends(g, h)
  <2>1. \A p \in g.visited : p \in Products \ {top.key}
    BY <1>6 DEF Graphs
  <2>2. g.notReady # None => h.notReady # None
    BY <1>3
  <2> QED
    BY <1>3, <2>1, <2>2 DEF Extends
<1>8. /\ g.heights[top.key] \in Nat /\ g.heights[key] \in Nat
      /\ h.heights[top.key] \in Nat
      /\ h.heights[key] = g.heights[key]
      /\ h.heights[key] < h.heights[top.key] /\ g.heights[top.key] <= h.heights[top.key]
      /\ h.heights[top.key] \in {g.heights[top.key], g.heights[key] + 1}
  <2>1. g.heights[top.key] \in Nat /\ g.heights[key] \in Nat
    BY <1>2 DEF Graphs
  <2>2. h.heights[key] = g.heights[key]
    BY <1>7 DEF Extends, Acceptable
  <2> QED
    BY <1>3, <2>1, <2>2 DEF Taller
<1>9. Complete(h)
  BY <1>1, <1>3, <1>7, CompleteStays DEF Complete
<1>10. ports = InputsOf(h.products, top.key) /\ Len(ports) \in Nat /\ DOMAIN ports = 1 .. Len(ports)
  BY <1>2, <1>3, InputsTyped
<1>11. top.next \in 1 .. Len(ports) /\ ~ports[top.next].foreign /\ ports[top.next].ref = key
  BY <1>10 DEF Leads, top, Acceptable
<1>12. Checked(h, top.key, top.next)
  <2>1. inputCompatibility(ports[top.next], h.products[key]) = ""
    BY <1>3 DEF top, Acceptable
  <2>2. producerReady(h.products[key]) \/ h.notReady # None
    BY <1>2, <1>3, NoneAssumption
  <2>3. key \in h.visited
    BY <1>3 DEF Acceptable
  <2> HIDE DEF ports
  <2> QED
    BY <1>8, <1>10, <1>11, <2>1, <2>2, <2>3 DEF Checked
<1>13. \A i \in 1 .. top.next - 1 : Checked(h, top.key, i)
  <2> SUFFICES ASSUME NEW i \in 1 .. top.next - 1 PROVE Checked(h, top.key, i)
    OBVIOUS
  <2>1. Checked(g, top.key, i)
    BY <1>5 DEF Open, Behind
  <2>2. i \in DOMAIN InputsOf(g.products, top.key)
    BY <1>10, <1>11
  <2> QED
    BY <1>1, <1>2, <1>3, <1>6, <1>7, <1>8, <2>1, <2>2, CheckedStays
<1>14. Behind(h, top.key, top.next)
  <2>1. \A i \in 1 .. top.next : Checked(h, top.key, i)
    BY <1>2, <1>12, <1>13
  <2>2. CASE h.heights[top.key] = g.heights[key] + 1
    <3>1. top.next \in 1 .. top.next /\ h.heights[top.key] = h.heights[InputsOf(h.products, top.key)[top.next].ref] + 1
      BY <1>2, <1>8, <1>10, <1>11, <2>2
    <3> QED
      BY <2>1, <3>1 DEF Behind
  <2>3. CASE h.heights[top.key] = g.heights[top.key]
    <3>1. CASE g.heights[top.key] = 0
      BY <2>1, <2>3, <3>1 DEF Behind
    <3>2. CASE g.heights[top.key] # 0
      <4>1. PICK i \in 1 .. top.next - 1 : g.heights[top.key] = g.heights[ports[i].ref] + 1
        BY <1>5, <3>2 DEF Open, Behind
      <4>2. ports[i].ref \in g.visited
        BY <1>5, <4>1 DEF Open, Behind, Checked
      <4>3. h.heights[ports[i].ref] = g.heights[ports[i].ref]
        BY <1>7, <4>2 DEF Extends
      <4>4. i \in 1 .. top.next /\ h.heights[top.key] = h.heights[InputsOf(h.products, top.key)[i].ref] + 1
        BY <1>2, <1>10, <2>3, <4>1, <4>3
      <4> QED
        BY <2>1, <4>4 DEF Behind
    <3> QED
      BY <3>1, <3>2
  <2> QED
    BY <1>8, <2>2, <2>3
<1>15. Open(h, r[Len(s)], Len(s) - 1)
  <2>1. r[Len(s)].key = top.key /\ r[Len(s)].next = top.next + 1 /\ (top.next + 1) - 1 = top.next
    BY <1>2, <1>4 DEF top
  <2>2. top.next + 1 <= Len(InputsOf(h.products, top.key)) + 1
    BY <1>10, <1>11
  <2>3. (Len(s) - 1) + h.heights[top.key] < MaxDepth
    <3>1. (Len(s) - 1) + g.heights[top.key] < MaxDepth
      BY <1>5 DEF Open
    <3>2. Len(s) + g.heights[key] < MaxDepth
      BY DEF Acceptable
    <3>3. Len(s) \in Nat /\ g.heights[key] \in Nat /\ MaxDepth \in Nat
      BY <1>2, <1>8, Sizes
    <3>4. (Len(s) - 1) + (g.heights[key] + 1) < MaxDepth
      BY <3>2, <3>3
    <3> QED
      BY <1>8, <3>1, <3>4
  <2>4. top.key \notin h.visited /\ h.products[top.key] # None
    BY <1>3, <1>6
  <2> QED
    BY <1>14, <2>1, <2>2, <2>3, <2>4 DEF Open
<1>16. \A j \in DOMAIN s \ {Len(s)} : Open(h, r[j], j - 1)
  <2> SUFFICES ASSUME NEW j \in DOMAIN s \ {Len(s)} PROVE Open(h, s[j], j - 1)
    BY <1>4
  <2>1. Open(g, s[j], j - 1) /\ s[j].key # top.key
    BY <1>1, <1>2 DEF Stacked, top
  <2>2. s[j] \in Frames /\ s[j].key \in Products
    BY FramesTyped
  <2>3. s[j].key \notin h.visited /\ g.heights[s[j].key] = h.heights[s[j].key]
    BY <1>3, <2>1, <2>2 DEF Open
  <2> QED
    BY <1>1, <1>3, <1>7, <2>1, <2>2, <2>3, OpenStays
<1>17. \A j \in 1 .. Len(r) - 1 : Leads(h, r[j], r[j + 1].key)
  <2> SUFFICES ASSUME NEW j \in 1 .. Len(s) - 1 PROVE Leads(h, r[j], r[j + 1].key)
    BY <1>4
  <2>1. j \in DOMAIN s \ {Len(s)} /\ j + 1 \in DOMAIN s
    <3>1. Len(s) \in Nat
      BY <1>2
    <3>2. j \in (1 .. Len(s)) \ {Len(s)} /\ j + 1 \in 1 .. Len(s)
      BY <3>1
    <3> QED
      BY <1>2, <3>2
  <2>2. r[j] = s[j] /\ r[j + 1].key = s[j + 1].key
    BY <1>4, <2>1
  <2>3. Leads(g, s[j], s[j + 1].key) /\ s[j].key \in Products
    BY <1>1, <2>1, FramesTyped DEF Stacked
  <2> QED
    BY <1>7, <2>2, <2>3, LeadsStays
<1>18. Stacked(h, r, t)
  <2>1. \A j \in DOMAIN r : Open(h, r[j], j - 1)
    BY <1>4, <1>15, <1>16
  <2>2. \A i, j \in DOMAIN r : r[i].key = r[j].key => i = j
    BY <1>1, <1>4 DEF Stacked
  <2>3. r[1].key = t /\ Len(r) <= MaxDepth
    BY <1>1, <1>2, <1>4 DEF Stacked
  <2> QED
    BY <1>17, <2>1, <2>2, <2>3 DEF Stacked
<1>19. Known(h)
  BY <1>1, <1>2, <1>3, <1>6 DEF Known
<1>20. Loaded(h) = Loaded(g)
  BY <1>3 DEF Loaded
<1>21. Bounded(h) /\ Counted(h)
  BY <1>1, <1>3, <1>20 DEF Bounded, Counted
<1>22. Fresh(h, r)
  BY <1>1, <1>3, <1>4, <1>20 DEF Fresh
<1>23. Reached(h, t)
  <2>1. Draws(g.products, top.key, key)
    BY LeadsNames DEF top, Acceptable
  <2>2. key \in Upstream(g.products, t)
    BY <1>1, <2>1, TopLeads DEF top
  <2>3. g.products[key] # None
    BY <1>1 DEF Complete, Acceptable
  <2> QED
    BY <1>1, <1>3, <1>20, <2>2, <2>3 DEF Reached
<1> QED
  BY <1>9, <1>18, <1>19, <1>21, <1>22, <1>23 DEF Walking, Kept, h, r

(* The visit of the product on top of s ends. *)
Left(g, s) == [g EXCEPT !.visited = @ \cup {s[Len(s)].key}]

Below(s) == SubSeq(s, 1, Len(s) - 1)

LEMMA LeaveKeeps ==
  ASSUME NEW g \in Graphs, NEW s \in Seq(Frames), NEW t \in Products, s # <<>>, Walking(g, s, t),
         s[Len(s)].next > Len(InputsOf(g.products, s[Len(s)].key))
  PROVE  /\ Left(g, s) \in Graphs /\ Below(s) \in Seq(Frames) /\ Walking(Left(g, s), Below(s), t)
         /\ Left(g, s).products = g.products
         /\ s[Len(s)].key \in Left(g, s).visited
         /\ Len(Below(s)) = Len(s) - 1
         /\ Len(Below(s)) + Left(g, s).heights[s[Len(s)].key] < MaxDepth
         /\ IF Below(s) = <<>> THEN s[Len(s)].key = t
            ELSE Leads(Left(g, s), Below(s)[Len(Below(s))], s[Len(s)].key)
<1> DEFINE h == Left(g, s)
           r == Below(s)
           top == s[Len(s)]
           ports == InputsOf(g.products, top.key)
<1>1. /\ Known(g) /\ Complete(g) /\ Bounded(g) /\ Reached(g, t)
      /\ Stacked(g, s, t) /\ Fresh(g, s) /\ Counted(g)
  BY DEF Walking, Kept
<1>2. Len(s) \in DOMAIN s /\ Len(s) \in Nat \ {0} /\ DOMAIN s = 1 .. Len(s)
  OBVIOUS
<1>3. top \in Frames /\ top.key \in Products /\ top.next \in Nat \ {0}
  BY <1>2, FramesTyped
<1>4. /\ h \in Graphs /\ h.products = g.products /\ h.heights = g.heights /\ h.missing = g.missing
      /\ h.edges = g.edges /\ h.notReady = g.notReady /\ h.visited = g.visited \cup {top.key}
  BY <1>3 DEF Graphs, Left
<1>5. /\ r \in Seq(Frames) /\ Len(r) = Len(s) - 1 /\ DOMAIN r = 1 .. Len(s) - 1
      /\ \A j \in 1 .. Len(s) - 1 : r[j] = s[j]
  BY <1>2 DEF Below
<1>6. Open(g, top, Len(s) - 1)
  BY <1>1, <1>2 DEF Stacked
<1>7. Len(ports) \in Nat /\ top.next > Len(ports)
  BY <1>3, InputsTyped
<1> HIDE DEF h, r, top, ports
<1>8. Extends(g, h)
  BY <1>4 DEF Extends
<1>9. Behind(h, top.key, Len(InputsOf(h.products, top.key))) /\ h.products[top.key] # None
  <2>1. top.next <= Len(ports) + 1 /\ g.products[top.key] # None
    BY <1>6 DEF Open, ports
  <2>2. top.next - 1 = Len(ports)
    BY <1>3, <1>7, <2>1
  <2>3. Behind(g, top.key, Len(ports))
    BY <1>6, <2>2 DEF Open
  <2>4. Len(ports) <= Len(InputsOf(g.products, top.key)) /\ ports = InputsOf(h.products, top.key)
    BY <1>4, <1>7 DEF ports
  <2>5. Behind(h, top.key, Len(ports))
    BY <1>1, <1>3, <1>4, <1>7, <1>8, <2>1, <2>3, <2>4, BehindStays
  <2> QED
    BY <1>4, <2>1, <2>4, <2>5
<1>10. Complete(h)
  BY <1>1, <1>4, <1>8, <1>9, CompleteStays DEF Complete
<1>11. \A j \in 1 .. Len(s) - 1 : j \in DOMAIN s /\ j # Len(s)
  <2>1. Len(s) \in Nat
    BY <1>2
  <2>2. \A j \in 1 .. Len(s) - 1 : j \in 1 .. Len(s) /\ j # Len(s)
    BY ONLY <2>1
  <2> QED
    BY <1>2, <2>2
<1>12. \A j \in DOMAIN r : Open(h, r[j], j - 1)
  <2> SUFFICES ASSUME NEW j \in 1 .. Len(s) - 1 PROVE Open(h, s[j], j - 1)
    BY <1>5
  <2>1. Open(g, s[j], j - 1) /\ s[j].key # top.key
    BY <1>1, <1>2, <1>11 DEF Stacked, top
  <2>2. s[j] \in Frames /\ s[j].key \in Products
    BY <1>11, FramesTyped
  <2>3. s[j].key \notin h.visited /\ g.heights[s[j].key] = h.heights[s[j].key]
    BY <1>4, <2>1, <2>2 DEF Open
  <2> QED
    BY <1>1, <1>4, <1>8, <2>1, <2>2, <2>3, OpenStays
<1>13. \A j \in 1 .. Len(s) - 1 : Leads(h, s[j], s[j + 1].key)
  <2> SUFFICES ASSUME NEW j \in 1 .. Len(s) - 1 PROVE Leads(h, s[j], s[j + 1].key)
    OBVIOUS
  <2>1. Leads(g, s[j], s[j + 1].key) /\ s[j].key \in Products
    BY <1>1, <1>11, FramesTyped DEF Stacked
  <2> QED
    BY <1>8, <2>1, LeadsStays
<1>14. Stacked(h, r, t)
  <2>1. \A i, j \in DOMAIN r : r[i].key = r[j].key => i = j
    BY <1>1, <1>5, <1>11 DEF Stacked
  <2>2. r # <<>> => 1 \in 1 .. Len(s) - 1
    BY <1>2, <1>5
  <2>3. (r # <<>> => r[1].key = t) /\ Len(r) <= MaxDepth
    <3>1. Len(s) <= MaxDepth /\ s[1].key = t
      BY <1>1 DEF Stacked
    <3>2. r # <<>> => r[1].key = t
      BY <1>5, <2>2, <3>1
    <3> QED
      BY <1>2, <1>5, <3>1, <3>2, Sizes
  <2>4. \A j \in 1 .. Len(r) - 1 : Leads(h, r[j], r[j + 1].key)
    <3> SUFFICES ASSUME NEW j \in 1 .. (Len(s) - 1) - 1 PROVE Leads(h, r[j], r[j + 1].key)
      BY <1>5
    <3>1. Len(s) \in Nat
      BY <1>2
    <3>2. j \in 1 .. Len(s) - 1 /\ j + 1 \in 1 .. Len(s) - 1
      BY <3>1
    <3> QED
      BY <1>5, <1>13, <3>2
  <2> QED
    BY <1>12, <2>1, <2>3, <2>4 DEF Stacked
<1>15. Loaded(h) = Loaded(g)
  BY <1>4 DEF Loaded
<1>16. Known(h) /\ Bounded(h) /\ Counted(h) /\ Reached(h, t)
  BY <1>1, <1>4, <1>15 DEF Known, Bounded, Counted, Reached
<1>17. Fresh(h, r)
  <2> SUFFICES ASSUME NEW p \in Loaded(g), p \notin h.visited PROVE \E j \in DOMAIN r : r[j].key = p
    BY <1>15 DEF Fresh
  <2>1. p \notin g.visited /\ p # top.key
    BY <1>4
  <2>2. PICK j \in DOMAIN s : s[j].key = p
    BY <1>1, <2>1 DEF Fresh
  <2>3. j \in 1 .. Len(s) /\ j # Len(s)
    BY <1>2, <2>1, <2>2 DEF top
  <2>4. j \in 1 .. Len(s) - 1
    BY <1>2, <2>3
  <2> QED
    BY <1>5, <2>2, <2>4
<1>18. (Len(s) - 1) + h.heights[top.key] < MaxDepth
  BY <1>4, <1>6 DEF Open
<1>19. CASE r = <<>>
  <2>1. Len(s) = 1
    <3>1. Len(s) \in Nat /\ Len(s) - 1 = Len(r) /\ Len(r) = 0
      BY <1>2, <1>5, <1>19
    <3> QED
      BY ONLY <3>1
  <2>2. top.key = t
    BY <1>1, <2>1 DEF Stacked, top
  <2> QED
    BY <1>4, <1>5, <1>10, <1>14, <1>16, <1>17, <1>18, <1>19, <2>2 DEF Walking, Kept, h, r, top
<1>20. CASE r # <<>>
  <2>1. Len(s) - 1 \in 1 .. Len(s) - 1 /\ (Len(s) - 1) + 1 = Len(s)
    BY <1>2, <1>5, <1>20
  <2>2. Leads(h, r[Len(r)], top.key)
    BY <1>5, <1>13, <2>1 DEF top
  <2> QED
    BY <1>4, <1>5, <1>10, <1>14, <1>16, <1>17, <1>18, <1>20, <2>2 DEF Walking, Kept, h, r, top
<1> QED
  BY <1>19, <1>20

LEMMA EdgesFinite ==
  ASSUME NEW store, NEW S \in SUBSET Products
  PROVE  /\ IsFiniteSet(EdgeSet(store, S)) /\ Cardinality(EdgeSet(store, S)) \in Nat
         /\ EdgeSet(store, S) \subseteq EdgeSet(store, Products)
<1>1. IsFiniteSet(Products \X (1 .. MaxEdges + 1))
  <2>1. IsFiniteSet(1 .. MaxEdges + 1)
    BY FS_Interval, LimitsAssumption
  <2> QED
    BY <2>1, NamespaceAssumption, FS_Product
<1>2. EdgeSet(store, S) \subseteq Products \X (1 .. MaxEdges + 1)
  BY DEF EdgeSet
<1>3. IsFiniteSet(EdgeSet(store, S))
  BY <1>1, <1>2, FS_Subset
<1> QED
  BY <1>3, FS_CardinalityType DEF EdgeSet

(* Reading a product adds its inputs to the edges. *)
LEMMA EdgesAdded ==
  ASSUME NEW store \in [Products -> Objects \cup {None}], NEW key \in Products, store[key] = None,
         NEW o \in Objects, o # None, NEW new, new = [store EXCEPT ![key] = o]
  PROVE  LET n == Len(o.spec.inputs)
             edges == Cardinality(EdgeSet(new, Products))
         IN  /\ n <= MaxEdges => edges = Cardinality(EdgeSet(store, Products)) + n
             /\ n > MaxEdges => edges > MaxEdges
<1> DEFINE n == Len(o.spec.inputs)
           Own(k) == {key} \X (1 .. k)
           at(k) == [i \in 1 .. k |-> <<key, i>>]
<1>1. n \in Nat /\ DOMAIN o.spec.inputs = 1 .. n
  BY DEF Objects, Specs
<1>2. InputsOf(new, key) = o.spec.inputs /\ InputsOf(store, key) = <<>>
  BY DEF InputsOf
<1>3. \A p \in Products \ {key} : InputsOf(new, p) = InputsOf(store, p)
  BY DEF InputsOf
<1>4. ASSUME NEW k \in Nat PROVE IsFiniteSet(Own(k)) /\ Cardinality(Own(k)) = k
  <2>1. at(k) \in Surjection(1 .. k, Own(k)) /\ at(k) \in Injection(1 .. k, Own(k))
    <3>1. at(k) \in [1 .. k -> Own(k)]
      OBVIOUS
    <3>2. \A i, j \in 1 .. k : at(k)[i] = at(k)[j] => i = j
      OBVIOUS
    <3>3. \A e \in Own(k) : \E i \in 1 .. k : at(k)[i] = e
      OBVIOUS
    <3> QED
      BY <3>1, <3>2, <3>3 DEF Surjection, Injection, IsInjective
  <2>2. IsFiniteSet(1 .. k) /\ Cardinality(1 .. k) = k
    <3>1. IsFiniteSet(1 .. k) /\ Cardinality(1 .. k) = IF 1 > k THEN 0 ELSE k - 1 + 1
      BY FS_Interval
    <3> QED
      BY <3>1
  <2> HIDE DEF at, Own
  <2>3. IsFiniteSet(Own(k)) /\ Cardinality(Own(k)) <= k
    BY <2>1, <2>2, FS_Surjection
  <2>4. k <= Cardinality(Own(k))
    BY <2>1, <2>2, <2>3, FS_Injection
  <2>5. Cardinality(Own(k)) \in Nat
    BY <2>3, FS_CardinalityType
  <2> QED
    BY <2>3, <2>4, <2>5
<1>5. CASE n <= MaxEdges
  <2>1. EdgeSet(new, Products) = EdgeSet(store, Products) \cup Own(n)
    <3>1. \A e \in Products \X (1 .. MaxEdges + 1) :
            e[2] \in DOMAIN InputsOf(new, e[1]) <=> e[2] \in DOMAIN InputsOf(store, e[1]) \/ e \in Own(n)
      <4> SUFFICES ASSUME NEW p \in Products, NEW i \in 1 .. MaxEdges + 1
                   PROVE  i \in DOMAIN InputsOf(new, p) <=> i \in DOMAIN InputsOf(store, p) \/ <<p, i>> \in Own(n)
        OBVIOUS
      <4>1. CASE p = key
        BY <1>1, <1>2, <4>1
      <4>2. CASE p # key
        BY <1>3, <4>2
      <4> QED
        BY <4>1, <4>2
    <3>2. Own(n) \subseteq Products \X (1 .. MaxEdges + 1)
      BY <1>1, <1>5, LimitsAssumption
    <3> HIDE DEF Own, n
    <3> QED
      BY <3>1, <3>2 DEF EdgeSet
  <2>2. EdgeSet(store, Products) \cap Own(n) = {}
    <3> SUFFICES ASSUME NEW e \in EdgeSet(store, Products), e \in Own(n) PROVE FALSE
      OBVIOUS
    <3>1. e[1] = key /\ e[2] \in DOMAIN InputsOf(store, e[1])
      BY DEF EdgeSet
    <3> QED
      BY <1>2, <3>1
  <2>3. IsFiniteSet(EdgeSet(store, Products)) /\ Cardinality(EdgeSet(store, Products)) \in Nat
    BY EdgesFinite
  <2>4. IsFiniteSet(Own(n)) /\ Cardinality(Own(n)) = n
    BY <1>1, <1>4
  <2> HIDE DEF Own, n
  <2>5. Cardinality(EdgeSet(new, Products))
          = Cardinality(EdgeSet(store, Products)) + Cardinality(Own(n)) - Cardinality(EdgeSet(store, Products) \cap Own(n))
    BY <2>1, <2>3, <2>4, FS_Union
  <2>6. Cardinality(EdgeSet(store, Products) \cap Own(n)) = 0
    BY <2>2, FS_EmptySet
  <2> QED
    BY <1>1, <1>5, <2>3, <2>4, <2>5, <2>6, LimitsAssumption DEF n
<1>6. CASE n > MaxEdges
  <2>1. MaxEdges + 1 \in Nat /\ 1 .. MaxEdges + 1 \subseteq 1 .. n
    BY <1>1, <1>6, LimitsAssumption
  <2>2. Own(MaxEdges + 1) \subseteq EdgeSet(new, Products)
    BY <1>1, <1>2, <2>1 DEF EdgeSet
  <2>3. IsFiniteSet(EdgeSet(new, Products)) /\ Cardinality(EdgeSet(new, Products)) \in Nat
    BY EdgesFinite
  <2>4. Cardinality(Own(MaxEdges + 1)) = MaxEdges + 1
    BY <1>4, <2>1
  <2> HIDE DEF Own, n
  <2>5. Cardinality(Own(MaxEdges + 1)) <= Cardinality(EdgeSet(new, Products))
    BY <2>2, <2>3, FS_Subset
  <2> QED
    BY <1>1, <1>6, <2>3, <2>4, <2>5, LimitsAssumption DEF n
<1> QED
  BY <1>1, <1>5, <1>6, LimitsAssumption

(* The walk reads object o for a product it has neither left nor is in. *)
Read(g, key, o) == [g EXCEPT !.products[key] = o]

Unseen(g, s, t, key) ==
  /\ key \in Products /\ key \notin g.visited /\ \A j \in DOMAIN s : s[j].key # key
  /\ IF s = <<>> THEN key = t ELSE Leads(g, s[Len(s)], key)
  /\ Cardinality(Loaded(g)) < MaxProducts

LEMMA ReadKeeps ==
  ASSUME NEW g \in Graphs, NEW s \in Seq(Frames), NEW t \in Products, Walking(g, s, t),
         NEW key, Unseen(g, s, t, key), NEW o \in Objects, o # None, o.spec \in Manifests[key]
  PROVE  /\ Read(g, key, o) \in Graphs /\ Kept(Read(g, key, o), t) /\ Stacked(Read(g, key, o), s, t)
         /\ g.products[key] = None /\ Read(g, key, o).products = [g.products EXCEPT ![key] = o]
         /\ Read(g, key, o).edges = g.edges /\ Read(g, key, o).heights = g.heights
         /\ Read(g, key, o).visited = g.visited
         /\ Loaded(Read(g, key, o)) = Loaded(g) \cup {key}
         /\ Extends(g, Read(g, key, o))
         /\ key \in Layers(Read(g, key, o).products, t)[Len(s)]
<1> DEFINE h == Read(g, key, o)
<1>1. /\ Known(g) /\ Complete(g) /\ Bounded(g) /\ Reached(g, t)
      /\ Stacked(g, s, t) /\ Fresh(g, s) /\ Counted(g)
  BY DEF Walking, Kept
<1>2. key \in Products /\ key \notin g.visited /\ \A j \in DOMAIN s : s[j].key # key
  BY DEF Unseen
<1>3. g.products[key] = None
  BY <1>1, <1>2 DEF Fresh, Loaded
<1>4. g.products \in [Products -> Objects \cup {None}]
  BY DEF Graphs
<1>5. /\ h \in Graphs /\ h.products = [g.products EXCEPT ![key] = o]
      /\ h.visited = g.visited /\ h.heights = g.heights /\ h.missing = g.missing
      /\ h.notReady = g.notReady /\ h.edges = g.edges
  BY <1>2, <1>4 DEF Read, Graphs
<1> HIDE DEF h
<1>6. h.products[key] = o /\ \A p \in Products \ {key} : h.products[p] = g.products[p]
  BY <1>2, <1>4, <1>5
<1>7. Extends(g, h)
  BY <1>3, <1>5, <1>6 DEF Extends
<1>8. Complete(h)
  BY <1>1, <1>5, <1>7, CompleteStays DEF Complete
<1>9. Known(h)
  BY <1>1, <1>5, <1>6 DEF Known
<1>10. Loaded(h) = Loaded(g) \cup {key} /\ key \notin Loaded(g)
  BY <1>2, <1>3, <1>6 DEF Loaded
<1>11. Bounded(h)
  <2>1. IsFiniteSet(Loaded(g))
    BY NamespaceAssumption, FS_Subset DEF Loaded
  <2>2. Cardinality(Loaded(h)) = Cardinality(Loaded(g)) + 1 /\ Cardinality(Loaded(g)) \in Nat
    BY <1>10, <2>1, FS_AddElement, FS_CardinalityType
  <2>3. Cardinality(Loaded(g)) < MaxProducts
    BY DEF Unseen
  <2>4. Cardinality(Loaded(h)) <= MaxProducts
    BY <2>2, <2>3, LimitsAssumption
  <2> QED
    BY <1>1, <1>5, <2>4 DEF Bounded
<1>12. Stacked(h, s, t)
  <2>1. \A j \in DOMAIN s : Open(h, s[j], j - 1)
    <3> SUFFICES ASSUME NEW j \in DOMAIN s PROVE Open(h, s[j], j - 1)
      OBVIOUS
    <3>1. s[j] \in Frames /\ Open(g, s[j], j - 1)
      BY <1>1, FramesTyped DEF Stacked
    <3>2. s[j].key \notin h.visited /\ g.heights[s[j].key] = h.heights[s[j].key]
      BY <1>5, <3>1 DEF Open
    <3> QED
      BY <1>1, <1>5, <1>7, <3>1, <3>2, OpenStays
  <2>2. \A j \in 1 .. Len(s) - 1 : Leads(h, s[j], s[j + 1].key)
    <3> SUFFICES ASSUME NEW j \in 1 .. Len(s) - 1 PROVE Leads(h, s[j], s[j + 1].key)
      OBVIOUS
    <3>1. j \in DOMAIN s
      BY FramesTyped
    <3>2. s[j].key \in Products /\ Leads(g, s[j], s[j + 1].key)
      BY <1>1, <3>1, FramesTyped DEF Stacked
    <3> QED
      BY <1>7, <3>2, LeadsStays
  <2> QED
    BY <1>1, <2>1, <2>2 DEF Stacked
<1>13. key \in Layers(h.products, t)[Len(s)] /\ key \in Graph(h.products, t)
  <2>1. CASE s = <<>>
    <3>1. key = t /\ Len(s) = 0
      BY <2>1 DEF Unseen
    <3> QED
      BY <3>1, LayersDef DEF Graph
  <2>2. CASE s # <<>>
    <3>1. Leads(g, s[Len(s)], key) /\ Len(s) \in DOMAIN s
      BY <2>2 DEF Unseen
    <3>2. s[Len(s)].key \in Products
      BY <3>1, FramesTyped
    <3>3. Leads(h, s[Len(s)], key)
      BY <1>7, <3>1, <3>2, LeadsStays
    <3>4. Draws(h.products, s[Len(s)].key, key)
      BY <3>3, LeadsNames
    <3> QED
      BY <1>5, <1>12, <2>2, <3>4, TopLeads DEF Graph
  <2> QED
    BY <2>1, <2>2
<1>14. Reached(h, t)
  <2>1. \A q \in Products : g.products[q] # None => h.products[q] = g.products[q]
    BY <1>7 DEF Extends
  <2>2. /\ Upstream(g.products, t) \subseteq Upstream(h.products, t)
        /\ Graph(g.products, t) \subseteq Graph(h.products, t)
    BY <2>1, StoreLocal, GraphGrows
  <2>3. g.notReady # None => h.products[g.notReady] = g.products[g.notReady]
    <3> SUFFICES ASSUME g.notReady # None PROVE h.products[g.notReady] = g.products[g.notReady]
      OBVIOUS
    <3>1. g.notReady \in Products
      BY DEF Graphs
    <3>2. g.notReady # key
      BY <1>1, <1>3 DEF Reached, Known
    <3> QED
      BY <1>6, <3>1, <3>2
  <2> QED
    BY <1>1, <1>5, <1>10, <1>13, <2>2, <2>3 DEF Reached
<1> QED
  BY <1>3, <1>5, <1>7, <1>8, <1>9, <1>10, <1>11, <1>12, <1>13, <1>14 DEF Kept, h

(* Its visit begins. *)
Entered(g, key) == [g EXCEPT !.edges = @ + Len(g.products[key].spec.inputs)]

LEMMA EnterKeeps ==
  ASSUME NEW g \in Graphs, NEW s \in Seq(Frames), NEW t \in Products, Walking(g, s, t),
         NEW key, Unseen(g, s, t, key), NEW o \in Objects, o # None, o.spec \in Manifests[key],
         Len(s) < MaxDepth, Len(o.spec.inputs) <= MaxEdges - g.edges
  PROVE  Walking(Entered(Read(g, key, o), key), Append(s, [key |-> key, next |-> 1]), t)
<1> DEFINE h == Read(g, key, o)
           e == Entered(h, key)
           new == [key |-> key, next |-> 1]
           r == Append(s, new)
           n == Len(o.spec.inputs)
<1>1. /\ Known(g) /\ Complete(g) /\ Bounded(g) /\ Reached(g, t)
      /\ Stacked(g, s, t) /\ Fresh(g, s) /\ Counted(g)
  BY DEF Walking, Kept
<1>2. key \in Products /\ key \notin g.visited /\ \A j \in DOMAIN s : s[j].key # key
  BY DEF Unseen
<1>3. /\ h \in Graphs /\ Kept(h, t) /\ Stacked(h, s, t)
      /\ g.products[key] = None /\ h.products = [g.products EXCEPT ![key] = o]
      /\ h.edges = g.edges /\ h.heights = g.heights /\ h.visited = g.visited
      /\ Loaded(h) = Loaded(g) \cup {key} /\ Extends(g, h)
  BY ReadKeeps
<1>4. Known(h) /\ Complete(h) /\ Bounded(h) /\ Reached(h, t)
  BY <1>3 DEF Kept
<1>5. n \in Nat /\ g.edges \in Nat /\ g.products \in [Products -> Objects \cup {None}]
  BY DEF Objects, Specs, Graphs
<1>6. h.products[key] = o /\ \A p \in Products \ {key} : h.products[p] = g.products[p]
  BY <1>2, <1>3, <1>5
<1>7. n <= MaxEdges - g.edges
  OBVIOUS
<1> HIDE DEF h, n
<1>8. /\ e \in Graphs /\ e.products = h.products /\ e.visited = h.visited /\ e.heights = h.heights
      /\ e.missing = h.missing /\ e.notReady = h.notReady /\ e.edges = g.edges + n
  <2>1. e = [h EXCEPT !.edges = g.edges + n]
    BY <1>3, <1>6 DEF Entered, n
  <2>2. g.edges + n \in Nat
    BY <1>5
  <2> HIDE DEF e
  <2> QED
    BY <1>3, <2>1, <2>2 DEF Graphs
<1>9. Len(s) \in Nat /\ DOMAIN s = 1 .. Len(s) /\ \A j \in DOMAIN s : s[j] \in Frames
  BY FramesTyped
<1>10. new \in Frames /\ new.key = key /\ new.next = 1
  BY <1>2 DEF Frames
<1> HIDE DEF e, new
<1>11. /\ Len(r) = Len(s) + 1 /\ DOMAIN r = 1 .. Len(s) + 1 /\ r[Len(s) + 1] = new
       /\ \A j \in 1 .. Len(s) : r[j] = s[j]
  BY <1>9, <1>10
<1> HIDE DEF r
<1>12. Loaded(e) = Loaded(h)
  BY <1>8 DEF Loaded
<1>13. Extends(h, e)
  BY <1>8 DEF Extends
<1>14. Known(e) /\ Reached(e, t)
  BY <1>4, <1>8, <1>12 DEF Known, Reached
<1>15. Complete(e)
  BY <1>3, <1>4, <1>8, <1>13, CompleteStays DEF Complete
<1>16. Counted(e) /\ e.edges <= MaxEdges
  <2>1. n <= MaxEdges /\ g.edges + n <= MaxEdges
    BY <1>5, <1>7, LimitsAssumption
  <2>2. Cardinality(EdgeSet(h.products, Products)) = Cardinality(EdgeSet(g.products, Products)) + n
    BY <1>2, <1>3, <1>5, <2>1, EdgesAdded DEF n
  <2>3. \A p \in Products : Len(InputsOf(h.products, p)) <= MaxEdges
    <3> SUFFICES ASSUME NEW p \in Products PROVE Len(InputsOf(h.products, p)) <= MaxEdges
      OBVIOUS
    <3>1. CASE p = key
      BY <1>6, <2>1, <3>1 DEF InputsOf, n
    <3>2. CASE p # key
      <4>1. InputsOf(h.products, p) = InputsOf(g.products, p)
        BY <1>6, <3>2 DEF InputsOf
      <4> QED
        BY <1>1, <4>1 DEF Counted
    <3> QED
      BY <3>1, <3>2
  <2> QED
    BY <1>1, <1>8, <2>1, <2>2, <2>3 DEF Counted
<1>17. Bounded(e)
  BY <1>4, <1>12, <1>16 DEF Bounded
<1>18. Open(e, new, Len(s))
  <2>1. e.heights[key] = 0
    BY <1>1, <1>2, <1>3, <1>8 DEF Known
  <2>2. Behind(e, key, 0)
    BY <2>1 DEF Behind
  <2>3. Len(InputsOf(e.products, key)) \in Nat
    BY <1>2, <1>8, InputsTyped
  <2>4. 1 - 1 = 0 /\ 1 <= Len(InputsOf(e.products, key)) + 1
    BY <2>3
  <2>5. Len(s) + e.heights[key] < MaxDepth
    BY <1>9, <2>1
  <2>6. key \notin e.visited /\ e.products[key] # None
    BY <1>2, <1>3, <1>6, <1>8
  <2> QED
    BY <1>10, <2>2, <2>4, <2>5, <2>6 DEF Open
<1>19. \A j \in 1 .. Len(s) : Open(e, s[j], j - 1)
  <2> SUFFICES ASSUME NEW j \in 1 .. Len(s) PROVE Open(e, s[j], j - 1)
    OBVIOUS
  <2>1. Open(h, s[j], j - 1) /\ s[j] \in Frames
    BY <1>3, <1>9 DEF Stacked
  <2>2. s[j].key \notin e.visited /\ h.heights[s[j].key] = e.heights[s[j].key]
    BY <1>8, <2>1 DEF Open
  <2> QED
    BY <1>3, <1>4, <1>8, <1>13, <2>1, <2>2, OpenStays
<1>20. \A j \in DOMAIN r : j \in 1 .. Len(s) \/ j = Len(s) + 1
  <2>1. \A j \in 1 .. Len(s) + 1 : j \in 1 .. Len(s) \/ j = Len(s) + 1
    BY ONLY <1>9
  <2> QED
    BY <1>11, <2>1
<1>21. \A j \in DOMAIN r : Open(e, r[j], j - 1)
  <2>1. (Len(s) + 1) - 1 = Len(s)
    BY <1>9
  <2> QED
    BY <1>11, <1>18, <1>19, <1>20, <2>1
<1>22. \A i, j \in DOMAIN r : r[i].key = r[j].key => i = j
  BY <1>2, <1>3, <1>9, <1>10, <1>11, <1>20 DEF Stacked
<1>23. \A j \in 1 .. Len(r) - 1 : Leads(e, r[j], r[j + 1].key)
  <2> SUFFICES ASSUME NEW j \in 1 .. Len(s) PROVE Leads(e, r[j], r[j + 1].key)
    BY <1>9, <1>11
  <2>1. s[j] = r[j] /\ s[j].key \in Products /\ s # <<>>
    BY <1>9, <1>11, FramesTyped
  <2>2. CASE j = Len(s)
    <3>1. Leads(g, s[j], key)
      BY <2>1, <2>2 DEF Unseen
    <3>2. Leads(e, s[j], key)
      BY <1>3, <1>13, <2>1, <3>1, LeadsStays
    <3> QED
      BY <1>10, <1>11, <2>1, <2>2, <3>2
  <2>3. CASE j # Len(s)
    <3>1. j \in 1 .. Len(s) - 1 /\ j + 1 \in 1 .. Len(s)
      <4>1. Len(s) \in Nat
        BY <1>9
      <4> QED
        BY <2>3, <4>1
    <3>2. Leads(h, s[j], s[j + 1].key)
      BY <1>3, <3>1 DEF Stacked
    <3>3. Leads(e, s[j], s[j + 1].key)
      BY <1>13, <2>1, <3>2, LeadsStays
    <3> QED
      BY <1>11, <2>1, <3>1, <3>3
  <2> QED
    BY <2>2, <2>3
<1>24. r[1].key = t
  <2>1. CASE s = <<>>
    <3>1. key = t /\ Len(s) + 1 = 1
      BY <2>1 DEF Unseen
    <3> QED
      BY <1>10, <1>11, <3>1
  <2>2. CASE s # <<>>
    <3>1. 1 \in 1 .. Len(s) /\ s[1].key = t
      BY <1>3, <2>2 DEF Stacked
    <3> QED
      BY <1>11, <3>1
  <2> QED
    BY <2>1, <2>2
<1>25. Stacked(e, r, t)
  <2>1. Len(r) <= MaxDepth
    BY <1>9, <1>11, Sizes
  <2> QED
    BY <1>21, <1>22, <1>23, <1>24, <2>1 DEF Stacked
<1>26. Fresh(e, r)
  <2> SUFFICES ASSUME NEW p \in Loaded(g) \cup {key}, p \notin g.visited
               PROVE  \E j \in DOMAIN r : r[j].key = p
    BY <1>3, <1>8, <1>12 DEF Fresh
  <2>1. CASE p = key
    <3>1. Len(s) + 1 \in DOMAIN r
      BY <1>9, <1>11
    <3> QED
      BY <1>10, <1>11, <2>1, <3>1
  <2>2. CASE p # key
    <3>1. PICK j \in 1 .. Len(s) : s[j].key = p
      BY <1>1, <1>9, <2>2 DEF Fresh
    <3>2. j \in DOMAIN r
      BY <1>9, <1>11
    <3> QED
      BY <1>11, <3>1, <3>2
  <2> QED
    BY <2>1, <2>2
<1> QED
  BY <1>14, <1>15, <1>16, <1>17, <1>25, <1>26 DEF Walking, Kept, h, e, r, new

(* A limit is reported only where the graph exceeds it. *)
LEMMA FullIsTooMuch ==
  ASSUME NEW g \in Graphs, NEW s \in Seq(Frames), NEW t \in Products, Walking(g, s, t),
         NEW key, Unseen(g, s, t, key), NEW o \in Objects, o # None, o.spec \in Manifests[key],
         Len(s) >= MaxDepth \/ Len(o.spec.inputs) > MaxEdges - g.edges
  PROVE  ~WithinLimits(Read(g, key, o).products, t)
<1> DEFINE h == Read(g, key, o)
           n == Len(o.spec.inputs)
<1>1. Stacked(g, s, t) /\ Counted(g) /\ key \in Products
  BY DEF Walking, Unseen
<1>2. /\ h \in Graphs /\ Kept(h, t)
      /\ g.products[key] = None /\ h.products = [g.products EXCEPT ![key] = o]
      /\ key \in Layers(h.products, t)[Len(s)]
  BY ReadKeeps
<1>3. n \in Nat /\ g.edges \in Nat /\ g.products \in [Products -> Objects \cup {None}] /\ Len(s) \in Nat
  BY DEF Objects, Specs, Graphs
<1>4. Len(s) >= MaxDepth \/ n > MaxEdges - g.edges
  OBVIOUS
<1> HIDE DEF h, n
<1>5. CASE Len(s) >= MaxDepth
  <2>1. Len(s) = MaxDepth
    BY <1>1, <1>3, <1>5, Sizes DEF Stacked
  <2> QED
    BY <1>2, <2>1 DEF WithinLimits, h
<1>6. CASE n > MaxEdges - g.edges
  <2> DEFINE all == EdgeSet(h.products, Products)
             below == EdgeSet(h.products, Graph(h.products, t))
  <2>1. Cardinality(all) > MaxEdges
    <3>1. CASE n > MaxEdges
      BY <1>1, <1>2, <1>3, <3>1, EdgesAdded DEF n
    <3>2. CASE n <= MaxEdges
      <4>1. Cardinality(all) = g.edges + n
        BY <1>1, <1>2, <1>3, <3>2, EdgesAdded DEF n, Counted
      <4> QED
        BY <1>3, <1>6, <4>1, LimitsAssumption
    <3> QED
      BY <1>3, <3>1, <3>2, LimitsAssumption
  <2>2. Loaded(h) \subseteq Graph(h.products, t)
    BY <1>2 DEF Kept, Reached
  <2>3. all \subseteq below
    BY <2>2 DEF EdgeSet, Loaded, InputsOf
  <2>4. Graph(h.products, t) \subseteq Products
    BY <1>2, StoreLocal, GraphGrows
  <2>5. IsFiniteSet(below) /\ below \subseteq all
    BY <2>4, EdgesFinite
  <2>6. below = all
    BY <2>3, <2>5
  <2>7. EdgeCount(h.products, t) = Cardinality(below)
    BY DEF EdgeCount, EdgeSet
  <2>8. Cardinality(all) \in Nat
    BY EdgesFinite
  <2> HIDE DEF all, below
  <2> QED
    BY <2>1, <2>6, <2>7, <2>8, LimitsAssumption DEF WithinLimits, h
<1> QED
  BY <1>4, <1>5, <1>6

-----------------------------------------------------------------------------
(* What the walk may conclude.                                             *)

(* Every name an input of a visited product has is visited, and lower. *)
LEMMA VisitedClosed ==
  ASSUME NEW g \in Graphs, Complete(g), NEW q \in g.visited
  PROVE  /\ q \in Products /\ g.heights[q] \in Nat
         /\ \A x : Draws(g.products, q, x) => x \in g.visited /\ g.heights[x] < g.heights[q]
         /\ g.heights[q] = 0 \/ \E x \in g.visited : Draws(g.products, q, x) /\ g.heights[q] = g.heights[x] + 1
<1> DEFINE ports == InputsOf(g.products, q)
<1>1. q \in Products /\ g.heights[q] \in Nat
  BY DEF Graphs
<1>2. DOMAIN ports = 1 .. Len(ports)
  BY <1>1, InputsTyped
<1>3. Behind(g, q, Len(ports))
  BY DEF Complete
<1>4. \A i \in DOMAIN ports : Checked(g, q, i)
  BY <1>2, <1>3 DEF Behind
<1>5. \A i \in DOMAIN ports : /\ ~ports[i].foreign /\ ports[i].ref \in g.visited
                              /\ g.heights[ports[i].ref] < g.heights[q]
                              /\ Draws(g.products, q, ports[i].ref)
  BY <1>4 DEF Checked, Draws
<1>6. g.heights[q] = 0 \/ \E i \in DOMAIN ports : g.heights[q] = g.heights[ports[i].ref] + 1
  BY <1>2, <1>3 DEF Behind
<1>7. \A x : Draws(g.products, q, x) => \E i \in DOMAIN ports : ports[i].ref = x
  BY DEF Draws
<1> HIDE DEF ports
<1> QED
  BY <1>1, <1>5, <1>6, <1>7

(* A height is the length of the longest path below. *)
LEMMA HeightsMeasure ==
  ASSUME NEW g \in Graphs, Complete(g), NEW q \in g.visited
  PROVE  /\ g.heights[q] \in Nat /\ g.heights[q] < Cardinality(Products)
         /\ Layers(g.products, q)[g.heights[q]] # {}
         /\ \A n \in 0 .. Longest : \A x \in Layers(g.products, q)[n] : x \in g.visited /\ n <= g.heights[q]
<1> DEFINE st == g.products
           V == g.visited
           h == g.heights
<1>1. \A p \in V : h[p] \in Nat
  BY VisitedClosed
<1>2. \A p \in V : \A x : Draws(st, p, x) => x \in V /\ h[x] < h[p]
  BY VisitedClosed
<1>3. Measured(st, V, h)
  BY VisitedClosed DEF Measured
<1>4. V \in SUBSET Products /\ q \in V
  BY DEF Graphs
<1> HIDE DEF st, V, h
<1>5. h[q] < Cardinality(Products)
  BY <1>1, <1>3, <1>4, HeightsFew
<1>6. \A n \in 0 .. Longest : \A x \in Layers(st, q)[n] : x \in V /\ h[x] + n <= h[q]
  BY <1>1, <1>2, <1>4, LayersBelow
<1>7. \A n \in 0 .. Longest : \A x \in Layers(st, q)[n] : x \in V /\ n <= h[q]
  BY <1>1, <1>4, <1>6, Sizes
<1>8. Layers(st, q)[h[q]] # {}
  <2>1. PICK a \in 0 .. Longest : a = 0 /\ q \in Layers(st, q)[a]
    BY LayersDef, Sizes
  <2>2. \A n \in 0 .. h[q] : a + n <= Longest => \E y \in V : y \in Layers(st, q)[a + n] /\ h[y] = h[q] - n
    BY <1>1, <1>3, <1>4, <2>1, LayersDescend
  <2>3. h[q] \in 0 .. h[q] /\ a + h[q] <= Longest /\ a + h[q] = h[q]
    BY <1>1, <1>4, <1>5, <2>1, Sizes DEF Longest
  <2>4. \E y \in V : y \in Layers(st, q)[a + h[q]]
    BY <2>2, <2>3
  <2> QED
    BY <2>3, <2>4
<1> QED
  BY <1>1, <1>4, <1>5, <1>7, <1>8 DEF st, V, h

(* A walk that found no failure leaves a sound graph. *)
LEMMA SoundHolds ==
  ASSUME NEW g \in Graphs, NEW t \in Products, Kept(g, t), Sound(g, t)
  PROVE  /\ ~Cyclic(g.products, t) /\ WithinLimits(g.products, t) /\ ContractsHold(g.products, t)
         /\ g.notReady = None => \A q \in Upstream(g.products, t) : producerReady(g.products[q])
<1> DEFINE st == g.products
<1>1. Complete(g) /\ Bounded(g) /\ Counted(g) /\ t \in g.visited /\ g.heights[t] < MaxDepth
  BY DEF Kept, Sound
<1>2. /\ g.heights[t] \in Nat /\ g.heights[t] < Cardinality(Products)
      /\ \A n \in 0 .. Longest : \A x \in Layers(st, t)[n] : x \in g.visited /\ n <= g.heights[t]
  BY <1>1, HeightsMeasure
<1>3. Cardinality(Products) \in 0 .. Longest /\ MaxDepth \in 0 .. Longest
      /\ \A n \in 0 .. Cardinality(Products) : n \in 0 .. Longest
  BY Sizes DEF Longest
<1>4. ~Cyclic(st, t) /\ Layers(st, t)[MaxDepth] = {}
  <2>1. ~(Cardinality(Products) <= g.heights[t]) /\ ~(MaxDepth <= g.heights[t])
    BY <1>1, <1>2, Sizes
  <2> QED
    BY <1>2, <1>3, <2>1 DEF Cyclic
<1>5. Graph(st, t) \subseteq g.visited
  <2>1. \A n \in 1 .. Cardinality(Products) : Layers(st, t)[n] \subseteq g.visited
    BY <1>2, <1>3, Sizes
  <2> QED
    BY <1>1, <2>1 DEF Graph, Upstream
<1>6. g.visited \subseteq Loaded(g) /\ Loaded(g) \subseteq Products
  BY <1>1 DEF Complete, Loaded, Graphs
<1>7. Cardinality(Graph(st, t)) <= MaxProducts
  <2>1. IsFiniteSet(Loaded(g)) /\ Graph(st, t) \subseteq Loaded(g)
    BY <1>5, <1>6, NamespaceAssumption, FS_Subset
  <2>2. Cardinality(Graph(st, t)) <= Cardinality(Loaded(g)) /\ IsFiniteSet(Graph(st, t))
    BY <2>1, FS_Subset
  <2>3. Cardinality(Graph(st, t)) \in Nat /\ Cardinality(Loaded(g)) \in Nat
    BY <2>1, <2>2, FS_CardinalityType
  <2> QED
    BY <1>1, <2>2, <2>3, LimitsAssumption DEF Bounded
<1>8. EdgeCount(st, t) <= MaxEdges
  <2> DEFINE below == EdgeSet(st, Graph(st, t))
             all == EdgeSet(st, Products)
  <2>1. EdgeCount(st, t) = Cardinality(below)
    BY DEF EdgeCount, EdgeSet
  <2>2. IsFiniteSet(all) /\ below \subseteq all
    BY <1>5, <1>6, EdgesFinite
  <2>3. Cardinality(below) <= Cardinality(all) /\ Cardinality(below) \in Nat /\ Cardinality(all) \in Nat
    BY <2>2, FS_Subset, FS_CardinalityType
  <2>4. Cardinality(all) <= MaxEdges
    BY <1>1 DEF Counted, Bounded
  <2> HIDE DEF below, all
  <2> QED
    BY <2>1, <2>3, <2>4, LimitsAssumption
<1>9. \A q \in g.visited : \A i \in DOMAIN InputsOf(st, q) : Checked(g, q, i)
  <2> SUFFICES ASSUME NEW q \in g.visited, NEW i \in DOMAIN InputsOf(st, q) PROVE Checked(g, q, i)
    OBVIOUS
  <2>1. DOMAIN InputsOf(st, q) = 1 .. Len(InputsOf(st, q))
    BY InputsTyped DEF Graphs
  <2> QED
    BY <1>1, <2>1 DEF Complete, Behind
<1>10. ContractsHold(st, t)
  <2> SUFFICES ASSUME NEW q \in Graph(st, t), NEW i \in DOMAIN InputsOf(st, q)
               PROVE  LET port == InputsOf(st, q)[i]
                      IN  ~port.foreign /\ st[port.ref] # None /\ Satisfies(st[port.ref], port)
    BY DEF ContractsHold
  <2> DEFINE port == InputsOf(st, q)[i]
  <2>1. q \in g.visited /\ Checked(g, q, i)
    BY <1>5, <1>9
  <2>2. ~port.foreign /\ port.ref \in g.visited /\ inputCompatibility(port, st[port.ref]) = ""
    BY <2>1 DEF Checked
  <2>3. port \in InputPorts
    BY <2>1, InputsTyped DEF Graphs
  <2>4. st[port.ref] # None /\ st[port.ref] \in Objects
    BY <1>1, <2>2 DEF Complete, Graphs
  <2> HIDE DEF port, st
  <2>5. Satisfies(st[port.ref], port)
    BY <2>2, <2>3, <2>4, CompatibleSatisfies
  <2> QED
    BY <2>2, <2>4, <2>5 DEF port
<1>11. ASSUME g.notReady = None, NEW x \in Upstream(st, t) PROVE producerReady(st[x])
  <2>1. PICK n \in 1 .. Cardinality(Products) : x \in Layers(st, t)[n]
    BY DEF Upstream
  <2>2. n - 1 \in 0 .. Longest /\ (n - 1) + 1 <= Longest /\ (n - 1) + 1 = n
    BY Sizes DEF Longest
  <2>3. PICK q \in Layers(st, t)[n - 1] : Draws(st, q, x)
    BY <2>1, <2>2, NextLayer
  <2>4. q \in g.visited
    BY <1>2, <2>2, <2>3
  <2>5. PICK i \in DOMAIN InputsOf(st, q) : InputsOf(st, q)[i].ref = x
    BY <2>3 DEF Draws
  <2>6. Checked(g, q, i)
    BY <1>9, <2>4, <2>5
  <2> QED
    BY <1>11, <2>5, <2>6 DEF Checked
<1> QED
  BY <1>4, <1>7, <1>8, <1>10, <1>11 DEF WithinLimits

(* Failures.  The product on top of s is in the graph below t. *)
LEMMA TopTyped ==
  ASSUME NEW g \in Graphs, NEW s \in Seq(Frames), NEW t \in Products, Walking(g, s, t), s # <<>>
  PROVE  /\ Len(s) \in DOMAIN s /\ Len(s) \in Nat \ {0}
         /\ s[Len(s)] \in Frames /\ s[Len(s)].key \in Products /\ s[Len(s)].next \in Nat \ {0}
         /\ s[Len(s)].key \in Graph(g.products, t)
         /\ g.products[s[Len(s)].key] # None
<1>1. Len(s) \in DOMAIN s /\ Len(s) \in Nat \ {0} /\ Stacked(g, s, t)
  BY DEF Walking
<1>2. Open(g, s[Len(s)], Len(s) - 1)
  BY <1>1 DEF Stacked
<1> QED
  BY <1>1, <1>2, FramesTyped, KeysReached DEF Open

LEMMA ForeignBreaks ==
  ASSUME NEW g, NEW t, NEW q \in Graph(g.products, t), NEW i \in DOMAIN InputsOf(g.products, q),
         InputsOf(g.products, q)[i].foreign
  PROVE  Broken(g, t)
  BY DEF Broken

LEMMA BrokenFails ==
  ASSUME NEW g, NEW t, Broken(g, t)
  PROVE  ~ContractsHold(g.products, t)
  BY DEF Broken, ContractsHold

LEMMA MissingBreaks ==
  ASSUME NEW store, NEW t, NEW q \in Graph(store, t), NEW i \in DOMAIN InputsOf(store, q),
         store[InputsOf(store, q)[i].ref] = None
  PROVE  ~ContractsHold(store, t)
  BY DEF ContractsHold

LEMMA MismatchBreaks ==
  ASSUME NEW g \in Graphs, NEW t \in Products, Known(g),
         NEW q \in Products, q \in Graph(g.products, t), NEW i \in DOMAIN InputsOf(g.products, q),
         g.products[InputsOf(g.products, q)[i].ref] # None,
         inputCompatibility(InputsOf(g.products, q)[i], g.products[InputsOf(g.products, q)[i].ref]) # ""
  PROVE  Broken(g, t)
<1> DEFINE port == InputsOf(g.products, q)[i]
           object == g.products[port.ref]
<1>1. port \in InputPorts /\ port.ref \in Products
  BY InputsTyped
<1>2. object \in Objects /\ object.spec \in Manifests[port.ref]
  BY <1>1 DEF Graphs, Known
<1>3. \A k, j \in DOMAIN object.spec.outputs :
        object.spec.outputs[k].name = object.spec.outputs[j].name => k = j
  BY <1>1, <1>2, OutputsAssumption
<1>4. inputCompatibility(port, object) # ""
  OBVIOUS
<1>5. ~Satisfies(object, port)
  <2> HIDE DEF port, object
  <2> QED
    BY <1>1, <1>2, <1>3, <1>4, CompatibleSatisfies
<1> QED
  BY <1>5 DEF Broken

(* One product more than the limit. *)
LEMMA TooManyProducts ==
  ASSUME NEW g \in Graphs, NEW t \in Products, Reached(g, t), NEW x \in Upstream(g.products, t),
         g.products[x] = None, ~(Cardinality(Loaded(g)) < MaxProducts)
  PROVE  ~WithinLimits(g.products, t)
<1>1. Loaded(g) \cup {x} \subseteq Graph(g.products, t) /\ x \notin Loaded(g)
  BY DEF Reached, Graph, Loaded
<1>2. Graph(g.products, t) \subseteq Products
  BY StoreLocal, GraphGrows
<1>3. IsFiniteSet(Loaded(g)) /\ IsFiniteSet(Graph(g.products, t))
  BY <1>2, NamespaceAssumption, FS_Subset DEF Loaded
<1>4. Cardinality(Loaded(g) \cup {x}) = Cardinality(Loaded(g)) + 1 /\ Cardinality(Loaded(g)) \in Nat
  BY <1>1, <1>3, FS_AddElement, FS_CardinalityType
<1>5. Cardinality(Loaded(g) \cup {x}) <= Cardinality(Graph(g.products, t))
  BY <1>1, <1>3, FS_Subset
<1>6. Cardinality(Graph(g.products, t)) \in Nat
  BY <1>3, FS_CardinalityType
<1> QED
  BY <1>4, <1>5, <1>6, LimitsAssumption DEF WithinLimits

(* A shared producer that reaches too deep from here. *)
LEMMA TooDeep ==
  ASSUME NEW g \in Graphs, NEW t \in Products, Complete(g), NEW n \in 0 .. MaxDepth,
         NEW x \in g.visited, x \in Layers(g.products, t)[n], n + g.heights[x] >= MaxDepth
  PROVE  ~WithinLimits(g.products, t)
<1> DEFINE st == g.products
           V == g.visited
           h == g.heights
<1>1. \A p \in V : h[p] \in Nat
  BY VisitedClosed
<1>2. Measured(st, V, h)
  BY VisitedClosed DEF Measured
<1>3. n \in 0 .. Longest /\ MaxDepth - n \in 0 .. h[x] /\ n + (MaxDepth - n) = MaxDepth /\ MaxDepth <= Longest
  BY <1>1, Sizes DEF Longest
<1>4. x \in V /\ x \in Layers(st, t)[n]
  OBVIOUS
<1> HIDE DEF st, V, h
<1>5. \A k \in 0 .. h[x] : n + k <= Longest => \E y \in V : y \in Layers(st, t)[n + k] /\ h[y] = h[x] - k
  BY <1>1, <1>2, <1>3, <1>4, LayersDescend
<1>6. \E y \in V : y \in Layers(st, t)[n + (MaxDepth - n)]
  BY <1>3, <1>5
<1> QED
  BY <1>3, <1>6 DEF WithinLimits, st

(* An input that leads back to an active product closes a cycle. *)
LEMMA BackIsCycle ==
  ASSUME NEW g \in Graphs, NEW s \in Seq(Frames), NEW t \in Products, Stacked(g, s, t), s # <<>>,
         NEW k \in DOMAIN s, Leads(g, s[Len(s)], s[k].key)
  PROVE  Cyclic(g.products, t)
<1> DEFINE C == {s[j].key : j \in DOMAIN s}
<1>1. Len(s) \in Nat \ {0} /\ DOMAIN s = 1 .. Len(s)
  OBVIOUS
<1>2. \A j \in DOMAIN s : \E x \in C : Draws(g.products, s[j].key, x)
  <2> SUFFICES ASSUME NEW j \in DOMAIN s PROVE \E x \in C : Draws(g.products, s[j].key, x)
    OBVIOUS
  <2>1. CASE j = Len(s)
    BY <2>1, LeadsNames
  <2>2. CASE j # Len(s)
    <3>1. j \in 1 .. Len(s) - 1 /\ j + 1 \in DOMAIN s
      BY <1>1, <2>2
    <3>2. Leads(g, s[j], s[j + 1].key)
      BY <3>1 DEF Stacked
    <3> QED
      BY <3>1, <3>2, LeadsNames
  <2> QED
    BY <2>1, <2>2
<1>3. t \in C
  BY <1>1 DEF Stacked
<1>4. \A q \in C : \E x \in C : Draws(g.products, q, x)
  BY <1>2
<1> HIDE DEF C
<1>5. Cardinality(Products) \in 0 .. Longest
  BY Sizes DEF Longest
<1> QED
  BY <1>3, <1>4, <1>5, LayersStay DEF Cyclic

-----------------------------------------------------------------------------
(* Steps.                                                                  *)

LEMMA EmptyWalking ==
  ASSUME NEW t \in Products
  PROVE  /\ EmptyGraph \in Graphs /\ Walking(EmptyGraph, <<>>, t) /\ Kept(EmptyGraph, t)
         /\ Cardinality(Loaded(EmptyGraph)) < MaxProducts
<1>1. /\ EmptyGraph.products = [p \in Products |-> None] /\ EmptyGraph.visited = {}
      /\ EmptyGraph.heights = [p \in Products |-> 0] /\ EmptyGraph.missing = {}
      /\ EmptyGraph.notReady = None /\ EmptyGraph.edges = 0
  BY DEF EmptyGraph
<1>2. EmptyGraph \in Graphs
  BY DEF EmptyGraph, Graphs
<1> HIDE DEF EmptyGraph
<1>3. Loaded(EmptyGraph) = {}
  BY <1>1 DEF Loaded
<1>4. Cardinality(Loaded(EmptyGraph)) = 0
  BY <1>3, FS_EmptySet
<1>5. Bounded(EmptyGraph) /\ Cardinality(Loaded(EmptyGraph)) < MaxProducts
  BY <1>1, <1>4, LimitsAssumption DEF Bounded
<1>6. \A p \in Products : InputsOf(EmptyGraph.products, p) = <<>>
  BY <1>1 DEF InputsOf
<1>7. Counted(EmptyGraph)
  <2>1. EdgeSet(EmptyGraph.products, Products) = {}
    BY <1>6 DEF EdgeSet
  <2>2. Len(<<>>) = 0 /\ 0 <= MaxEdges
    BY LimitsAssumption
  <2>3. \A p \in Products : Len(InputsOf(EmptyGraph.products, p)) <= MaxEdges
    BY <1>6, <2>2
  <2> QED
    BY <1>1, <2>1, <2>3, FS_EmptySet DEF Counted
<1>8. Known(EmptyGraph) /\ Complete(EmptyGraph) /\ Reached(EmptyGraph, t) /\ Fresh(EmptyGraph, <<>>)
  BY <1>1, <1>3 DEF Known, Complete, Reached, Fresh
<1>9. Stacked(EmptyGraph, <<>>, t)
  BY Sizes DEF Stacked
<1> QED
  BY <1>2, <1>5, <1>7, <1>8, <1>9 DEF Walking, Kept

LEMMA FailureStanding ==
  ASSUME NEW t, NEW reason, NEW err, Stop(reason, err), reason # "",
         Kept(graph', t), Defect(graph', t, [reason |-> reason, err |-> err])
  PROVE  Standing(pc', graph', stack', observation', t)
  BY DEF Stop, Standing

(* Entering a product that was just read, or stopping at a limit. *)
LEMMA EnterStanding ==
  ASSUME NEW g \in Graphs, NEW s \in Seq(Frames), NEW t \in Products, Walking(g, s, t),
         NEW key, Unseen(g, s, t, key), NEW o \in Objects, o # None, o.spec \in Manifests[key],
         Enter(Read(g, key, o), s, key, Len(s))
  PROVE  /\ Standing(pc', graph', stack', observation', t)
         /\ graph'.products = [g.products EXCEPT ![key] = o]
<1> DEFINE h == Read(g, key, o)
           full == Len(s) >= MaxDepth \/ Len(o.spec.inputs) > MaxEdges - g.edges
<1>1. /\ h \in Graphs /\ Kept(h, t) /\ h.products = [g.products EXCEPT ![key] = o] /\ h.edges = g.edges
      /\ key \in Products
  BY ReadKeeps DEF Unseen
<1>2. h.products[key] = o
  BY <1>1 DEF Graphs
<1>3. EnterUnless(full, h, s, key)
  BY <1>1, <1>2 DEF Enter
<1>4. CASE full
  <2>1. ~WithinLimits(h.products, t)
    BY <1>4, FullIsTooMuch
  <2>2. graph' = h /\ Stop(compositionLimit, FALSE)
    BY <1>3, <1>4 DEF EnterUnless
  <2> HIDE DEF h, full
  <2>3. Defect(graph', t, [reason |-> compositionLimit, err |-> FALSE])
    BY <2>1, <2>2 DEF Defect, compositionLimit
  <2>4. compositionLimit # ""
    BY DEF compositionLimit
  <2> QED
    BY <1>1, <2>2, <2>3, <2>4, FailureStanding
<1>5. CASE ~full
  <2>1. Len(s) \in Nat /\ Len(o.spec.inputs) \in Nat /\ g.edges \in Nat
    BY DEF Objects, Specs, Graphs
  <2>2. Len(s) < MaxDepth /\ Len(o.spec.inputs) <= MaxEdges - g.edges
    BY <1>5, <2>1, LimitsAssumption
  <2>3. /\ graph' = Entered(h, key) /\ stack' = Append(s, [key |-> key, next |-> 1])
        /\ pc' = "visit" /\ observation' = NoObservation
    BY <1>3, <1>5 DEF EnterUnless, Entered
  <2>4. Walking(graph', stack', t)
    BY <2>2, <2>3, EnterKeeps
  <2>5. stack' # <<>>
    BY <2>1, <2>3
  <2>6. graph'.products = h.products
    BY <1>1, <2>3 DEF Entered, Graphs
  <2> QED
    BY <1>1, <2>3, <2>4, <2>5, <2>6 DEF Standing
<1> QED
  BY <1>4, <1>5

(* Coming back to the consumer on top of s, or stopping at its contract. *)
LEMMA ReturnedStanding ==
  ASSUME NEW g \in Graphs, NEW s \in Seq(Frames), NEW t \in Products, s # <<>>, Walking(g, s, t),
         NEW key \in g.visited, Leads(g, s[Len(s)], key), Len(s) + g.heights[key] < MaxDepth,
         observation = NoObservation, Returned(g, s, key)
  PROVE  Standing(pc', graph', stack', observation', t) /\ graph'.products = g.products
<1> DEFINE top == s[Len(s)]
           port == InputsOf(g.products, top.key)[top.next]
           reason == inputCompatibility(port, g.products[key])
<1>1. Complete(g) /\ Known(g) /\ Kept(g, t)
  BY DEF Walking, Kept
<1>2. top.key \in Products /\ top.key \in Graph(g.products, t) /\ g.products[top.key] # None
  BY TopTyped
<1>3. port = g.products[top.key].spec.inputs[top.next]
  BY <1>2 DEF InputsOf
<1>4. top.next \in DOMAIN InputsOf(g.products, top.key) /\ port.ref = key
  BY DEF Leads
<1>5. g.products[key] # None /\ key \in Products
  BY <1>1 DEF Complete, Graphs
<1>6. \/ reason # "" /\ graph' = g /\ Stop(reason, FALSE)
      \/ /\ reason = "" /\ graph' = MovedOn(g, s, key) /\ stack' = Advanced(s)
         /\ pc' = "visit" /\ UNCHANGED observation
  BY <1>3 DEF Returned, ReturnedWith, MovedOn, Advanced
<1>7. CASE reason # "" /\ graph' = g /\ Stop(reason, FALSE)
  <2>1. Broken(g, t)
    BY <1>1, <1>2, <1>4, <1>5, <1>7, MismatchBreaks
  <2>2. port \in InputPorts /\ g.products[key] \in Objects
    BY <1>2, <1>4, <1>5, InputsTyped DEF Graphs
  <2> HIDE DEF port
  <2>3. reason \in {"OutputNotFound", "ContractIncompatible"}
    BY <1>7, <2>2, CompatibleSatisfies
  <2> HIDE DEF reason
  <2>4. Defect(graph', t, [reason |-> reason, err |-> FALSE])
    BY <1>7, <2>1, <2>3 DEF Defect
  <2> QED
    BY <1>1, <1>7, <2>4, FailureStanding
<1>8. CASE /\ reason = "" /\ graph' = MovedOn(g, s, key) /\ stack' = Advanced(s)
           /\ pc' = "visit" /\ UNCHANGED observation
  <2>1. Acceptable(g, s, key)
    BY <1>8 DEF Acceptable
  <2>2. Walking(graph', stack', t)
    BY <1>8, <2>1, ReturnedKeeps
  <2>3. stack' # <<>>
    BY <1>8, AdvancedFrames
  <2>4. graph'.products = g.products
    BY <1>5, <1>8, MovedOnFields
  <2> HIDE DEF reason
  <2> QED
    BY <1>8, <2>2, <2>3, <2>4 DEF Standing
<1> QED
  BY <1>6, <1>7, <1>8

(* Every step of visit keeps the walk standing and the target as it was read. *)
LEMMA VisitStanding ==
  ASSUME graph \in Graphs, stack \in Seq(Frames), target \in Products,
         cache \in [Products -> Objects \cup {None}], Manifested(cache),
         Standing(pc, graph, stack, observation, target), visit
  PROVE  /\ Standing(pc', graph', stack', observation', target)
         /\ graph'.products[target] = graph.products[target]
<1> DEFINE t == target
           port == InputsOf(graph.products, frame.key)[frame.next]
           ports == InputsOf(graph.products, frame.key)
<1>1. pc = "visit" /\ stack # <<>>
  BY DEF visit, VisitForeign, VisitTooMany, VisitMissing, VisitUnavailable, VisitCycle,
         VisitAgain, VisitNew, Return, pending, resolves, active
<1>2. graph \in Graphs /\ stack \in Seq(Frames) /\ t \in Products /\ cache \in [Products -> Objects \cup {None}]
  OBVIOUS
<1>3. Walking(graph, stack, t) /\ observation = NoObservation
  BY <1>1 DEF Standing
<1>4. /\ Kept(graph, t) /\ Known(graph) /\ Complete(graph) /\ Reached(graph, t)
      /\ Stacked(graph, stack, t) /\ Fresh(graph, stack)
  BY <1>3 DEF Walking, Kept
<1>5. /\ Len(stack) \in DOMAIN stack /\ Len(stack) \in Nat \ {0}
      /\ frame \in Frames /\ frame.key \in Products /\ frame.next \in Nat \ {0}
      /\ frame.key \in Graph(graph.products, t) /\ graph.products[frame.key] # None
  BY <1>1, <1>2, <1>3, TopTyped DEF frame
<1>6. inputs = ports
  BY <1>5 DEF inputs, InputsOf
<1>7. Len(ports) \in Nat /\ DOMAIN ports = 1 .. Len(ports)
  BY <1>2, <1>5, InputsTyped
<1>8. pending => frame.next \in DOMAIN ports /\ input = port /\ port.ref \in Products
  <2> SUFFICES ASSUME pending PROVE frame.next \in DOMAIN ports /\ input = port /\ port.ref \in Products
    OBVIOUS
  <2>1. frame.next <= Len(ports) /\ input = port
    BY <1>6 DEF pending, input
  <2>2. frame.next \in DOMAIN ports
    BY <1>5, <1>7, <2>1
  <2> QED
    BY <1>2, <1>5, <2>1, <2>2, InputsTyped
<1>9. pending /\ ~input.foreign =>
        /\ Leads(graph, frame, port.ref) /\ Draws(graph.products, frame.key, port.ref)
        /\ port.ref \in Upstream(graph.products, t) /\ port.ref \in Layers(graph.products, t)[Len(stack)]
  <2> SUFFICES ASSUME pending, ~input.foreign
               PROVE  /\ Leads(graph, frame, port.ref) /\ Draws(graph.products, frame.key, port.ref)
                      /\ port.ref \in Upstream(graph.products, t) /\ port.ref \in Layers(graph.products, t)[Len(stack)]
    OBVIOUS
  <2>1. Leads(graph, frame, port.ref)
    BY <1>8 DEF Leads
  <2>2. Draws(graph.products, frame.key, port.ref)
    BY <2>1, LeadsNames
  <2> QED
    BY <1>1, <1>2, <1>4, <2>1, <2>2, TopLeads DEF frame
<1> HIDE DEF t, port, ports
<1>10. CASE VisitForeign
  <2>1. Broken(graph, t)
    BY <1>5, <1>8, <1>10, ForeignBreaks DEF VisitForeign, port, ports
  <2>2. graph' = graph /\ Stop("CrossNamespaceDependencyDenied", FALSE)
    BY <1>10 DEF VisitForeign
  <2>3. Defect(graph', t, [reason |-> "CrossNamespaceDependencyDenied", err |-> FALSE])
    BY <2>1, <2>2 DEF Defect
  <2> QED
    BY <1>4, <2>2, <2>3, FailureStanding DEF t
<1>11. CASE VisitTooMany
  <2>1. graph.products[port.ref] = None /\ ~(Cardinality(Loaded(graph)) < MaxProducts)
        /\ port.ref \in Upstream(graph.products, t)
    BY <1>8, <1>9, <1>11 DEF VisitTooMany, mayRead
  <2>2. ~WithinLimits(graph.products, t)
    BY <1>2, <1>4, <2>1, TooManyProducts
  <2>3. graph' = graph /\ Stop(compositionLimit, FALSE) /\ compositionLimit # ""
    BY <1>11 DEF VisitTooMany, compositionLimit
  <2>4. Defect(graph', t, [reason |-> compositionLimit, err |-> FALSE])
    BY <2>2, <2>3 DEF Defect, compositionLimit
  <2> QED
    BY <1>4, <2>3, <2>4, FailureStanding DEF t
<1>12. CASE VisitMissing
  <2>1. /\ graph.products[port.ref] = None /\ port.ref \in Upstream(graph.products, t)
        /\ port.ref \in Products /\ frame.next \in DOMAIN ports
        /\ graph' = [graph EXCEPT !.missing = @ \cup {port.ref}]
        /\ Stop("DependencyNotFound", FALSE)
    BY <1>8, <1>9, <1>12 DEF VisitMissing, producer
  <2>2. ~ContractsHold(graph.products, t)
    BY <1>5, <2>1, MissingBreaks DEF port, ports
  <2>3. /\ graph'.products = graph.products /\ graph'.visited = graph.visited
        /\ graph'.heights = graph.heights /\ graph'.missing = graph.missing \cup {port.ref}
        /\ graph'.notReady = graph.notReady /\ graph'.edges = graph.edges /\ graph' \in Graphs
    BY <1>2, <2>1 DEF Graphs
  <2>4. Loaded(graph') = Loaded(graph)
    BY <2>3 DEF Loaded
  <2>5. Extends(graph, graph')
    BY <2>3 DEF Extends
  <2>6. Complete(graph')
    BY <1>2, <1>4, <2>3, <2>5, CompleteStays DEF Complete
  <2>7. Bounded(graph) /\ Bounded(graph')
    BY <1>4, <2>3, <2>4 DEF Kept, Bounded
  <2>8. Kept(graph', t)
    BY <1>4, <2>1, <2>3, <2>4, <2>6, <2>7 DEF Kept, Known, Reached
  <2>9. Defect(graph', t, [reason |-> "DependencyNotFound", err |-> FALSE])
    BY <2>2, <2>3 DEF Defect
  <2> QED
    BY <2>1, <2>3, <2>8, <2>9, FailureStanding DEF t
<1>13. CASE VisitUnavailable
  <2>1. graph' = graph /\ Stop("DependencyUnavailable", TRUE)
    BY <1>13 DEF VisitUnavailable
  <2>2. Defect(graph', t, [reason |-> "DependencyUnavailable", err |-> TRUE])
    BY DEF Defect
  <2> QED
    BY <1>4, <2>1, <2>2, FailureStanding DEF t
<1>14. CASE VisitCycle
  <2>1. pending /\ ~input.foreign /\ port.ref \in visiting
    BY <1>8, <1>14 DEF VisitCycle, resolves
  <2>2. PICK k \in DOMAIN stack : stack[k].key = port.ref
    BY <2>1 DEF visiting
  <2>3. Leads(graph, stack[Len(stack)], stack[k].key)
    BY <1>9, <2>1, <2>2 DEF frame
  <2>4. Cyclic(graph.products, t)
    BY <1>1, <1>2, <1>4, <2>3, BackIsCycle
  <2>5. graph' = graph /\ Stop("DependencyCycle", FALSE)
    BY <1>14 DEF VisitCycle
  <2>6. Defect(graph', t, [reason |-> "DependencyCycle", err |-> FALSE])
    BY <2>4, <2>5 DEF Defect
  <2> QED
    BY <1>4, <2>5, <2>6, FailureStanding DEF t
<1>15. CASE VisitAgain
  <2>1. pending /\ ~input.foreign /\ input = port /\ port.ref \in graph.visited
    BY <1>8, <1>15 DEF VisitAgain, resolves
  <2>2. CASE /\ Len(stack) + graph.heights[input.ref] >= MaxDepth
             /\ Stop(compositionLimit, FALSE) /\ UNCHANGED graph
    <3>1. Len(stack) \in 0 .. MaxDepth
      BY <1>4, <1>5, Sizes DEF Stacked
    <3>2. port.ref \in Layers(graph.products, t)[Len(stack)] /\ Len(stack) + graph.heights[port.ref] >= MaxDepth
      BY <1>9, <2>1, <2>2
    <3>3. ~WithinLimits(graph.products, t)
      BY <1>2, <1>4, <2>1, <3>1, <3>2, TooDeep
    <3>4. Defect(graph', t, [reason |-> compositionLimit, err |-> FALSE]) /\ compositionLimit # ""
      BY <2>2, <3>3 DEF Defect, compositionLimit
    <3> QED
      BY <1>4, <2>2, <3>4, FailureStanding DEF t
  <2>3. CASE /\ Len(stack) + graph.heights[input.ref] < MaxDepth
             /\ Returned(graph, stack, input.ref)
    <3>1. Leads(graph, stack[Len(stack)], port.ref)
      BY <1>9, <2>1 DEF frame
    <3>2. Len(stack) + graph.heights[port.ref] < MaxDepth /\ Returned(graph, stack, port.ref)
      BY <2>1, <2>3
    <3> QED
      BY <1>1, <1>2, <1>3, <2>1, <3>1, <3>2, ReturnedStanding DEF t
  <2> QED
    BY <1>15, <2>2, <2>3 DEF VisitAgain
<1>16. CASE VisitNew
  <2>1. /\ pending /\ ~input.foreign /\ input = port /\ port.ref \notin visiting
        /\ port.ref \notin graph.visited /\ mayRead /\ producer # None
    BY <1>8, <1>16 DEF VisitNew, resolves
  <2>2. port.ref \in Products /\ \A j \in DOMAIN stack : stack[j].key # port.ref
    BY <1>8, <2>1 DEF visiting
  <2>3. graph.products[port.ref] = None
    BY <1>4, <2>1, <2>2 DEF Fresh, Loaded
  <2>4. Cardinality(Loaded(graph)) < MaxProducts /\ producer = cache[port.ref]
    BY <2>1, <2>3 DEF mayRead, producer
  <2>5. Unseen(graph, stack, t, port.ref)
    BY <1>1, <1>9, <2>1, <2>2, <2>4 DEF Unseen, frame
  <2>6. producer \in Objects /\ producer.spec \in Manifests[port.ref]
    BY <1>2, <2>1, <2>2, <2>4 DEF Manifested
  <2>7. Enter(Read(graph, port.ref, producer), stack, port.ref, Len(stack))
    BY <1>16, <2>1 DEF VisitNew, read, Read
  <2>8. Standing(pc', graph', stack', observation', t) /\ graph'.products = [graph.products EXCEPT ![port.ref] = producer]
    BY <1>2, <1>3, <2>1, <2>5, <2>6, <2>7, EnterStanding
  <2>9. port.ref # t
    <3>1. 1 \in DOMAIN stack /\ stack[1].key = t
      BY <1>1, <1>2, <1>4, <1>5 DEF Stacked
    <3> QED
      BY <2>2, <3>1
  <2>10. graph.products \in [Products -> Objects \cup {None}]
    BY <1>2 DEF Graphs
  <2>11. graph'.products[t] = graph.products[t]
    BY <1>2, <2>8, <2>9, <2>10
  <2> QED
    BY <2>8, <2>11 DEF t
<1>17. CASE Return
  <2> DEFINE g == Left(graph, stack)
             rest == Below(stack)
  <2>1. stack[Len(stack)].next > Len(InputsOf(graph.products, stack[Len(stack)].key))
    BY <1>6, <1>17 DEF Return, frame, ports
  <2>2. /\ g \in Graphs /\ rest \in Seq(Frames) /\ Walking(g, rest, t)
        /\ g.products = graph.products
        /\ frame.key \in g.visited
        /\ Len(rest) = Len(stack) - 1
        /\ Len(rest) + g.heights[frame.key] < MaxDepth
        /\ IF rest = <<>> THEN frame.key = t ELSE Leads(g, rest[Len(rest)], frame.key)
    BY <1>1, <1>2, <1>3, <2>1, LeaveKeeps DEF frame
  <2>3. \/ rest = <<>> /\ graph' = g /\ stack' = <<>> /\ pc' = "lineage" /\ UNCHANGED observation
        \/ rest # <<>> /\ Returned(g, rest, frame.key)
    BY <1>17 DEF Return, Left, Below, frame
  <2> HIDE DEF g, rest
  <2>4. CASE rest = <<>> /\ graph' = g /\ stack' = <<>> /\ pc' = "lineage" /\ UNCHANGED observation
    <3>1. Len(rest) = 0 /\ g.heights[t] \in Nat
      BY <1>2, <2>2, <2>4 DEF Graphs
    <3>2. t \in g.visited /\ 0 + g.heights[t] < MaxDepth
      BY <2>2, <2>4, <3>1
    <3>3. Sound(g, t) /\ Kept(g, t)
      BY <2>2, <3>1, <3>2 DEF Sound, Walking
    <3>4. observation'.reason = "" /\ ~observation'.err
      BY <1>3, <2>4 DEF NoObservation
    <3> QED
      BY <2>2, <2>4, <3>3, <3>4 DEF Standing, t
  <2>5. CASE rest # <<>> /\ Returned(g, rest, frame.key)
    BY <1>2, <1>3, <2>2, <2>5, ReturnedStanding DEF t
  <2> QED
    BY <2>3, <2>4, <2>5
<1> QED
  BY <1>10, <1>11, <1>12, <1>13, <1>14, <1>15, <1>16, <1>17 DEF visit

-----------------------------------------------------------------------------
(* The verdict.                                                            *)

(* After a sound walk without unready producers every input is ready. *)
LEMMA LineageReady ==
  ASSUME graph \in Graphs, target \in Products, product = graph.products[target], product # None,
         Kept(graph, target), Sound(graph, target), graph.notReady = None
  PROVE  \A entry \in lineage : entry.ready
<1> DEFINE ports == product.spec.inputs
<1>1. ports = InputsOf(graph.products, target)
  BY DEF InputsOf
<1>2. DOMAIN ports = 1 .. Len(ports)
  BY <1>1, InputsTyped
<1>3. \A i \in DOMAIN ports : Checked(graph, target, i)
  BY <1>1, <1>2 DEF Kept, Complete, Sound, Behind
<1>4. \A i \in DOMAIN ports : inputStatus(ports[i]).ready
  <2> SUFFICES ASSUME NEW i \in DOMAIN ports PROVE inputStatus(ports[i]).ready
    OBVIOUS
  <2> DEFINE port == ports[i]
             origin == graph.products[port.ref]
  <2>1. ~port.foreign /\ port.ref \in graph.visited /\ inputCompatibility(port, origin) = "" /\ producerReady(origin)
    BY <1>1, <1>3 DEF Checked
  <2>2. origin # None
    BY <2>1 DEF Kept, Complete
  <2> HIDE DEF port
  <2>3. inputStatus(port).ready
    BY <2>1, <2>2 DEF inputStatus
  <2> QED
    BY <2>3 DEF port
<1>5. lineage \subseteq {inputStatus(ports[i]) : i \in DOMAIN ports}
  BY DEF lineage
<1> HIDE DEF ports
<1> QED
  BY <1>4, <1>5

(* What the finished call reports. *)
Judgement(g, t, o) ==
  \/ o.reason = "" /\ CompositionHolds(g.products, t)
  \/ o.reason = "CompositionLimitExceeded" /\ ~LineageFits(g.products, t)
  \/ o.reason # "" /\ Defect(g, t, o)
  \/ /\ o.reason = "DependencyNotReady"
     /\ ~Cyclic(g.products, t) /\ WithinLimits(g.products, t) /\ ContractsHold(g.products, t)
     /\ \E q \in Upstream(g.products, t) : ~producerReady(g.products[q])

LEMMA Judges ==
  ASSUME graph \in Graphs, target \in Products, product = graph.products[target], product # None,
         Standing("lineage", graph, stack, observation, target)
  PROVE  Judgement(graph, target, compositionObservation)
<1> DEFINE o == compositionObservation
           unready == {entry \in lineage : ~entry.ready}
           first == CHOOSE entry \in unready : \A other \in unready : entry.name <= other.name
<1>1. graph \in Graphs /\ target \in Products /\ product = graph.products[target] /\ product # None
  OBVIOUS
<1>2. /\ Kept(graph, target)
      /\ IF observation.reason = "" THEN ~observation.err /\ Sound(graph, target)
         ELSE Defect(graph, target, observation)
  BY DEF Standing
<1>3. o = IF lineageTooLarge THEN [reason |-> compositionLimit, err |-> FALSE]
          ELSE IF observation.reason # "" THEN observation
          ELSE IF graph.notReady # None THEN [reason |-> "DependencyNotReady", err |-> FALSE]
          ELSE IF unready # {} THEN [reason |-> first.reason, err |-> FALSE]
          ELSE NoObservation
  BY DEF compositionObservation
<1> HIDE DEF first, o
<1>4. CASE lineageTooLarge
  <2>1. o.reason = "CompositionLimitExceeded"
    BY <1>3, <1>4 DEF compositionLimit
  <2>2. ~LineageFits(graph.products, target)
    BY <1>4 DEF lineageTooLarge
  <2> QED
    BY <2>1, <2>2 DEF Judgement, o
<1>5. CASE ~lineageTooLarge /\ observation.reason # ""
  <2>1. o = observation /\ Defect(graph, target, observation)
    BY <1>2, <1>3, <1>5
  <2> QED
    BY <1>5, <2>1 DEF Judgement, o
<1>6. CASE ~lineageTooLarge /\ observation.reason = ""
  <2>1. Sound(graph, target)
    BY <1>2, <1>6
  <2>2. /\ ~Cyclic(graph.products, target) /\ WithinLimits(graph.products, target)
        /\ ContractsHold(graph.products, target)
        /\ graph.notReady = None => \A q \in Upstream(graph.products, target) : producerReady(graph.products[q])
    BY <1>1, <1>2, <2>1, SoundHolds
  <2>3. CASE graph.notReady # None
    <3>1. o.reason = "DependencyNotReady"
      BY <1>3, <1>6, <2>3
    <3>2. \E q \in Upstream(graph.products, target) : ~producerReady(graph.products[q])
      BY <1>2, <2>3 DEF Kept, Reached
    <3> QED
      BY <2>2, <3>1, <3>2 DEF Judgement, o
  <2>4. CASE graph.notReady = None
    <3>1. unready = {}
      BY <1>1, <1>2, <2>1, <2>4, LineageReady
    <3>2. o.reason = ""
      <4> HIDE DEF unready
      <4> QED
        BY <1>3, <1>6, <2>4, <3>1 DEF NoObservation
    <3>3. Len(product.spec.inputs) <= MaxEdges
      BY <1>1, <2>1 DEF Sound, Counted, InputsOf
    <3>4. LineageFits(graph.products, target)
      BY <1>6, <3>3 DEF lineageTooLarge
    <3> QED
      BY <2>2, <2>4, <3>2, <3>4 DEF Judgement, CompositionHolds, o
  <2> QED
    BY <2>3, <2>4
<1> QED
  BY <1>4, <1>5, <1>6

-----------------------------------------------------------------------------
(* Two stores that agree below a product.                                  *)

Stores == [Products -> Objects \cup {None}]

LEMMA StoreTyped ==
  ASSUME NEW store \in Stores, NEW q \in Products
  PROVE  /\ InputsOf(store, q) \in Seq(InputPorts)
         /\ \A i \in DOMAIN InputsOf(store, q) :
              InputsOf(store, q)[i] \in InputPorts /\ InputsOf(store, q)[i].ref \in Products
         /\ \A x : Draws(store, q, x) => x \in Products
<1>1. store[q] \in Objects \cup {None}
  BY DEF Stores
<1>2. InputsOf(store, q) \in Seq(InputPorts)
  BY <1>1 DEF InputsOf, Objects, Specs
<1>3. \A i \in DOMAIN InputsOf(store, q) : InputsOf(store, q)[i] \in InputPorts
  <2> DEFINE ports == InputsOf(store, q)
  <2>1. ports \in Seq(InputPorts)
    BY <1>2
  <2> HIDE DEF ports
  <2>2. \A i \in DOMAIN ports : ports[i] \in InputPorts
    BY <2>1
  <2> QED
    BY <2>2 DEF ports
<1>4. \A port \in InputPorts : port.ref \in Products
  BY DEF InputPorts
<1>5. \A i \in DOMAIN InputsOf(store, q) : InputsOf(store, q)[i].ref \in Products
  BY <1>3, <1>4
<1> QED
  BY <1>2, <1>3, <1>5 DEF Draws

(* Everything below a product of the namespace is in the namespace. *)
LEMMA LayersInside ==
  ASSUME NEW store \in Stores, NEW p \in Products
  PROVE  /\ \A n \in 0 .. Longest : Layers(store, p)[n] \subseteq Products
         /\ Upstream(store, p) \subseteq Products /\ Graph(store, p) \subseteq Products
<1>1. Local(store)
  BY StoreTyped DEF Local
<1>2. \A n \in 0 .. Longest : Layers(store, p)[n] \subseteq Products
  BY <1>1, LayersGrow
<1>3. Upstream(store, p) \subseteq Products
  BY <1>2, Sizes DEF Upstream, Longest
<1> QED
  BY <1>2, <1>3 DEF Graph

(* A layer is one step further from the first producers on a path. *)
LEMMA FirstStep ==
  ASSUME NEW store, NEW p
  PROVE  \A n \in 0 .. Longest - 1 : \A z \in Layers(store, p)[n + 1] :
           \E y : Draws(store, p, y) /\ z \in Layers(store, y)[n]
<1> DEFINE S == {n \in 0 .. Longest - 1 : \A z \in Layers(store, p)[n + 1] :
                   \E y : Draws(store, p, y) /\ z \in Layers(store, y)[n]}
<1>1. Longest - 1 \in Nat /\ Longest \in Nat
  BY Sizes DEF Longest
<1>2. 0 \in S
  <2> SUFFICES ASSUME NEW z \in Layers(store, p)[0 + 1]
               PROVE  \E y : Draws(store, p, y) /\ z \in Layers(store, y)[0]
    BY <1>1
  <2>1. 0 \in 0 .. Longest /\ 0 + 1 <= Longest
    BY <1>1
  <2>2. PICK q \in Layers(store, p)[0] : Draws(store, q, z)
    BY <2>1, NextLayer
  <2> QED
    BY <2>2, LayersDef
<1>3. \A n \in 0 .. Longest - 1 : n \in S /\ n + 1 <= Longest - 1 => n + 1 \in S
  <2> SUFFICES ASSUME NEW n \in 0 .. Longest - 1, n \in S, n + 1 <= Longest - 1,
                      NEW z \in Layers(store, p)[(n + 1) + 1]
               PROVE  \E y : Draws(store, p, y) /\ z \in Layers(store, y)[n + 1]
    BY <1>1
  <2>1. n + 1 \in 0 .. Longest /\ (n + 1) + 1 <= Longest /\ n \in 0 .. Longest /\ n + 1 <= Longest
    BY <1>1
  <2>2. PICK q \in Layers(store, p)[n + 1] : Draws(store, q, z)
    BY <2>1, NextLayer
  <2>3. PICK y : Draws(store, p, y) /\ q \in Layers(store, y)[n]
    BY <2>2
  <2>4. z \in Layers(store, y)[n + 1]
    BY <2>1, <2>2, <2>3, NextLayer
  <2> QED
    BY <2>3, <2>4
<1> HIDE DEF S
<1>4. \A n \in 0 .. Longest - 1 : n \in S
  BY <1>1, <1>2, <1>3, UpTo
<1> QED
  BY <1>4 DEF S

(* A product upstream of itself is on a cycle. *)
(* A product upstream of itself is on a cycle. *)
LEMMA SelfUpstream ==
  ASSUME NEW store \in Stores, NEW p \in Products, p \in Upstream(store, p)
  PROVE  Cyclic(store, p)
<1> DEFINE C == {x \in Products : p \in Upstream(store, x)}
<1>1. \A x \in C : \E y \in C : Draws(store, x, y)
  <2> SUFFICES ASSUME NEW x \in C PROVE \E y \in C : Draws(store, x, y)
    OBVIOUS
  <2>1. PICK n \in 1 .. Cardinality(Products) : p \in Layers(store, x)[n]
    BY DEF Upstream
  <2>2. n - 1 \in 0 .. Longest - 1 /\ (n - 1) + 1 = n
    BY <2>1, Sizes DEF Longest
  <2>3. PICK y : Draws(store, x, y) /\ p \in Layers(store, y)[n - 1]
    BY <2>1, <2>2, FirstStep
  <2>4. y \in Products
    BY <2>3, StoreTyped
  <2>5. CASE n = 1
    <3>1. p \in Layers(store, y)[0]
      BY <2>3, <2>5
    <3>2. y = p
      BY <3>1, LayersDef
    <3> QED
      BY <2>3, <3>2
  <2>6. CASE n # 1
    <3>1. n - 1 \in 1 .. Cardinality(Products)
      BY <2>1, <2>6, Sizes
    <3>2. p \in Upstream(store, y)
      BY <2>3, <3>1 DEF Upstream
    <3> QED
      BY <2>3, <2>4, <3>2
  <2> QED
    BY <2>5, <2>6
<1>2. p \in C /\ Cardinality(Products) \in 0 .. Longest
  BY Sizes DEF Longest
<1> HIDE DEF C
<1> QED
  BY <1>1, <1>2, LayersStay DEF Cyclic

(* Below an empty layer every layer is empty. *)
LEMMA EmptyBelow ==
  ASSUME NEW store, NEW p, NEW m \in 0 .. Longest, Layers(store, p)[m] = {}
  PROVE  \A n \in 0 .. Longest : m <= n => Layers(store, p)[n] = {}
<1> DEFINE S == {n \in 0 .. Longest : m <= n => Layers(store, p)[n] = {}}
<1>1. 0 \in S
  BY Sizes
<1>2. \A n \in 0 .. Longest : n \in S /\ n + 1 <= Longest => n + 1 \in S
  <2> SUFFICES ASSUME NEW n \in 0 .. Longest, n \in S, n + 1 <= Longest, m <= n + 1
               PROVE  Layers(store, p)[n + 1] = {}
    BY Sizes
  <2>1. CASE m = n + 1
    BY <2>1
  <2>2. CASE m <= n
    BY <2>2, NextLayer
  <2> QED
    BY <2>1, <2>2, Sizes
<1> HIDE DEF S
<1>3. \A n \in 0 .. Longest : n \in S
  BY <1>1, <1>2, Sizes, UpTo
<1> QED
  BY <1>3 DEF S

(* Product x is declared alike in both stores. *)
Alike(c, d, x) == /\ c[x] = None <=> d[x] = None
                  /\ c[x] # None => c[x].spec = d[x].spec

LEMMA AlikeInputs ==
  ASSUME NEW c, NEW d, NEW x, Alike(c, d, x)
  PROVE  InputsOf(d, x) = InputsOf(c, x) /\ \A y : Draws(d, x, y) <=> Draws(c, x, y)
<1>1. InputsOf(d, x) = InputsOf(c, x)
  BY DEF Alike, InputsOf
<1> QED
  BY <1>1 DEF Draws

LEMMA LayersAlike ==
  ASSUME NEW c, NEW d, NEW p, \A x \in Graph(c, p) : Alike(c, d, x)
  PROVE  /\ \A n \in 0 .. Cardinality(Products) : Layers(d, p)[n] = Layers(c, p)[n]
         /\ Upstream(d, p) = Upstream(c, p) /\ Graph(d, p) = Graph(c, p)
         /\ Cyclic(d, p) <=> Cyclic(c, p)
<1> DEFINE N == Cardinality(Products)
           S == {n \in 0 .. N : Layers(d, p)[n] = Layers(c, p)[n]}
<1>1. N \in Nat /\ N <= Longest /\ Longest \in Nat
  BY Sizes DEF Longest
<1>2. 0 \in S
  <2>1. Layers(c, p)[0] = {p} /\ Layers(d, p)[0] = {p}
    BY LayersDef
  <2> QED
    BY <1>1, <2>1
<1>3. \A n \in 0 .. N : Layers(c, p)[n] \subseteq Graph(c, p)
  <2> SUFFICES ASSUME NEW n \in 0 .. N, NEW x \in Layers(c, p)[n] PROVE x \in Graph(c, p)
    OBVIOUS
  <2>1. CASE n = 0
    BY <2>1, LayersDef DEF Graph
  <2>2. CASE n # 0
    <3>1. n \in 1 .. N
      BY <1>1, <2>2
    <3> QED
      BY <3>1 DEF Graph, Upstream
  <2> QED
    BY <2>1, <2>2
<1>4. \A n \in 0 .. N : n \in S /\ n + 1 <= N => n + 1 \in S
  <2> SUFFICES ASSUME NEW n \in 0 .. N, n \in S, n + 1 <= N PROVE Layers(d, p)[n + 1] = Layers(c, p)[n + 1]
    BY <1>1
  <2>1. n \in 0 .. Longest /\ n + 1 <= Longest
    BY <1>1
  <2>2. \A q \in Layers(c, p)[n] : \A x : Draws(d, q, x) <=> Draws(c, q, x)
    BY <1>3, AlikeInputs
  <2>3. \A x : x \in Layers(d, p)[n + 1] <=> x \in Layers(c, p)[n + 1]
    <3> SUFFICES ASSUME NEW x PROVE x \in Layers(d, p)[n + 1] <=> x \in Layers(c, p)[n + 1]
      OBVIOUS
    <3>1. x \in Layers(d, p)[n + 1] <=> \E q \in Layers(c, p)[n] : Draws(d, q, x)
      BY <2>1, NextLayer
    <3>2. x \in Layers(c, p)[n + 1] <=> \E q \in Layers(c, p)[n] : Draws(c, q, x)
      BY <2>1, NextLayer
    <3> QED
      BY <2>2, <3>1, <3>2
  <2> QED
    BY <2>3
<1>5. \A n \in 0 .. N : n \in S
  <2> HIDE DEF S, N
  <2> QED
    BY <1>1, <1>2, <1>4, UpTo
<1>6. \A n \in 0 .. N : Layers(d, p)[n] = Layers(c, p)[n]
  BY <1>5
<1>7. Upstream(d, p) = Upstream(c, p)
  <2>1. \A n \in 1 .. N : Layers(d, p)[n] = Layers(c, p)[n]
    BY <1>1, <1>6
  <2> QED
    BY <2>1 DEF Upstream
<1>8. N \in 0 .. N
  BY <1>1
<1> QED
  BY <1>6, <1>7, <1>8 DEF Graph, Cyclic

(* What the record of a port costs, besides its entry. *)
Weight(store, port) == IF port.foreign \/ store[port.ref] = None THEN 0 ELSE store[port.ref].spec.size

(* f holds the size of the record of the first inputs up to the m-th. *)
Weighing(f, store, ports, m) ==
  f = [n \in 0 .. m |-> IF n = 0 THEN 0 ELSE f[n - 1] + 1 + Weight(store, ports[n])]

LEMMA WeightsExist ==
  ASSUME NEW store, NEW ports, NEW m \in Nat
  PROVE  \E f : Weighing(f, store, ports, m)
<1> USE DEF Weighing
<1> DEFINE Solves(f, k) == Weighing(f, store, ports, k)
           Unsolved == {k \in Nat : ~ \E f : Solves(f, k)}
<1> SUFFICES ASSUME Unsolved # {} PROVE FALSE
  OBVIOUS
<1>1. PICK k \in Unsolved : \A j \in Unsolved : k <= j
  <2> HIDE DEF Unsolved
  <2>1. Unsolved \in SUBSET Nat
    BY DEF Unsolved
  <2> QED
    BY <2>1, LeastNat
<1>2. k # 0
  <2>1. Solves([n \in 0 .. 0 |-> 0], 0)
    OBVIOUS
  <2> QED
    BY <1>1, <2>1
<1>3. PICK f : Solves(f, k - 1)
  <2>1. k \in Nat /\ k - 1 \in Nat /\ ~(k <= k - 1)
    BY <1>1, <1>2
  <2>2. k - 1 \notin Unsolved
    <3> HIDE DEF Unsolved
    <3> QED
      BY <1>1, <2>1
  <2>3. \E f : Solves(f, k - 1)
    BY <2>1, <2>2
  <2> QED
    BY <2>3
<1> DEFINE g == [n \in 0 .. k |-> IF n = k THEN f[k - 1] + 1 + Weight(store, ports[k]) ELSE f[n]]
<1>4. \A n \in 0 .. k : g[n] = IF n = 0 THEN 0 ELSE g[n - 1] + 1 + Weight(store, ports[n])
  <2> SUFFICES ASSUME NEW n \in 0 .. k
               PROVE  g[n] = IF n = 0 THEN 0 ELSE g[n - 1] + 1 + Weight(store, ports[n])
    OBVIOUS
  <2>1. CASE n = k
    <3>1. g[n - 1] = f[k - 1]
      BY <1>2, <2>1
    <3> QED
      BY <1>2, <2>1, <3>1
  <2>2. CASE n # k
    <3>1. g[n] = f[n] /\ n \in 0 .. k - 1
      BY <2>2
    <3>2. f[n] = IF n = 0 THEN 0 ELSE f[n - 1] + 1 + Weight(store, ports[n])
      BY <1>3, <3>1
    <3>3. n # 0 => g[n - 1] = f[n - 1]
      BY <3>1
    <3> QED
      BY <3>1, <3>2, <3>3
  <2> QED
    BY <2>1, <2>2
<1>5. Solves(g, k)
  <2>1. g = [n \in 0 .. k |-> g[n]]
    OBVIOUS
  <2> HIDE DEF g
  <2> QED
    BY <1>4, <2>1
<1> QED
  BY <1>1, <1>5

(* The record of p's inputs fits if its size does. *)
LEMMA LineageWeighed ==
  ASSUME NEW store, NEW p, Len(InputsOf(store, p)) \in Nat
  PROVE  \E f : /\ Weighing(f, store, InputsOf(store, p), Len(InputsOf(store, p)))
                /\ LineageFits(store, p) <=> f[Len(InputsOf(store, p))] <= MaxLineageBytes
<1> DEFINE ports == InputsOf(store, p)
           Solves(f) == Weighing(f, store, ports, Len(ports))
           bytes == CHOOSE f : Solves(f)
<1>1. LineageFits(store, p) <=> bytes[Len(ports)] <= MaxLineageBytes
  BY DEF LineageFits, Weighing, Weight
<1>2. \E f : Solves(f)
  BY WeightsExist
<1>3. Solves(bytes)
  <2> HIDE DEF Solves
  <2> QED
    BY <1>2
<1> HIDE DEF bytes
<1> QED
  BY <1>1, <1>3

(* What is only known in part weighs no more than what is known in full. *)
LEMMA WeighsMore ==
  ASSUME NEW c, NEW d, NEW ports, NEW m \in Nat, NEW f, NEW g,
         Weighing(f, c, ports, m), Weighing(g, d, ports, m),
         \A n \in 1 .. m : /\ Weight(c, ports[n]) \in Nat /\ Weight(d, ports[n]) \in Nat
                           /\ Weight(c, ports[n]) <= Weight(d, ports[n])
  PROVE  f[m] \in Nat /\ g[m] \in Nat /\ f[m] <= g[m]
<1> DEFINE S == {n \in 0 .. m : f[n] \in Nat /\ g[n] \in Nat /\ f[n] <= g[n]}
<1>1. \A n \in 0 .. m : /\ f[n] = IF n = 0 THEN 0 ELSE f[n - 1] + 1 + Weight(c, ports[n])
                        /\ g[n] = IF n = 0 THEN 0 ELSE g[n - 1] + 1 + Weight(d, ports[n])
  BY DEF Weighing
<1>2. 0 \in S
  BY <1>1
<1>3. \A n \in 0 .. m : n \in S /\ n + 1 <= m => n + 1 \in S
  <2> SUFFICES ASSUME NEW n \in 0 .. m, n \in S, n + 1 <= m PROVE n + 1 \in S
    OBVIOUS
  <2>1. n + 1 \in 1 .. m /\ n + 1 # 0 /\ (n + 1) - 1 = n
    OBVIOUS
  <2>2. f[n + 1] = f[n] + 1 + Weight(c, ports[n + 1]) /\ g[n + 1] = g[n] + 1 + Weight(d, ports[n + 1])
    BY <1>1, <2>1
  <2> QED
    BY <2>1, <2>2
<1> HIDE DEF S
<1>4. \A n \in 0 .. m : n \in S
  BY <1>2, <1>3, UpTo
<1> QED
  BY <1>4 DEF S


(* Reading more of the direct producers makes no smaller record. *)
LEMMA FitsLess ==
  ASSUME NEW c \in Stores, NEW d \in Stores, NEW p \in Products, InputsOf(d, p) = InputsOf(c, p),
         \A x \in Products : Draws(c, p, x) /\ c[x] # None => d[x] # None /\ d[x].spec = c[x].spec,
         LineageFits(d, p)
  PROVE  LineageFits(c, p)
<1> DEFINE ports == InputsOf(c, p)
           m == Len(ports)
<1>1. ports \in Seq(InputPorts) /\ m \in Nat /\ DOMAIN ports = 1 .. m
  BY StoreTyped
<1>2. PICK f : Weighing(f, c, ports, m) /\ (LineageFits(c, p) <=> f[m] <= MaxLineageBytes)
  BY <1>1, LineageWeighed
<1>3. PICK g : Weighing(g, d, ports, m) /\ (LineageFits(d, p) <=> g[m] <= MaxLineageBytes)
  BY <1>1, LineageWeighed
<1>4. \A n \in 1 .. m : /\ Weight(c, ports[n]) \in Nat /\ Weight(d, ports[n]) \in Nat
                        /\ Weight(c, ports[n]) <= Weight(d, ports[n])
  <2> SUFFICES ASSUME NEW n \in 1 .. m
               PROVE  /\ Weight(c, ports[n]) \in Nat /\ Weight(d, ports[n]) \in Nat
                      /\ Weight(c, ports[n]) <= Weight(d, ports[n])
    OBVIOUS
  <2> DEFINE port == ports[n]
             x == port.ref
  <2>1. port \in InputPorts /\ x \in Products /\ n \in DOMAIN ports
    BY <1>1, StoreTyped
  <2>2. ~port.foreign => Draws(c, p, x)
    BY <2>1 DEF Draws
  <2>3. \A o \in Objects : o.spec.size \in Nat
    BY DEF Objects, Specs
  <2>4. c[x] \in Objects \cup {None} /\ d[x] \in Objects \cup {None}
    BY <2>1 DEF Stores
  <2> HIDE DEF port
  <2>5. Weight(c, port) \in Nat /\ Weight(d, port) \in Nat
    BY <2>3, <2>4 DEF Weight
  <2>6. Weight(c, port) = 0 \/ Weight(c, port) = Weight(d, port)
    BY <2>1, <2>2 DEF Weight
  <2>7. Weight(c, port) <= Weight(d, port)
    BY <2>5, <2>6
  <2> QED
    BY <2>5, <2>7 DEF port
<1> HIDE DEF ports, m
<1>5. f[m] \in Nat /\ g[m] \in Nat /\ f[m] <= g[m]
  BY <1>1, <1>2, <1>3, <1>4, WeighsMore
<1> QED
  BY <1>2, <1>3, <1>5, LimitsAssumption

(* Where contracts hold, nothing is missing. *)
LEMMA NothingMissing ==
  ASSUME NEW store, NEW p, ContractsHold(store, p), NEW x \in Upstream(store, p)
  PROVE  store[x] # None
<1>1. PICK n \in 1 .. Cardinality(Products) : x \in Layers(store, p)[n]
  BY DEF Upstream
<1>2. n - 1 \in 0 .. Longest /\ (n - 1) + 1 = n /\ (n - 1) + 1 <= Longest
  BY <1>1, Sizes DEF Longest
<1>3. PICK q \in Layers(store, p)[n - 1] : Draws(store, q, x)
  BY <1>1, <1>2, NextLayer
<1>4. q \in Graph(store, p)
  <2>1. CASE n = 1
    BY <1>3, <2>1, LayersDef DEF Graph
  <2>2. CASE n # 1
    <3>1. n - 1 \in 1 .. Cardinality(Products)
      BY <1>1, <2>2, Sizes
    <3> QED
      BY <1>3, <3>1 DEF Graph, Upstream
  <2> QED
    BY <2>1, <2>2
<1> QED
  BY <1>3, <1>4 DEF Draws, ContractsHold

(* Without a cycle the graph below p is closed. *)
LEMMA DrawnUpstream ==
  ASSUME NEW store, NEW p, ~Cyclic(store, p), NEW q \in Graph(store, p), NEW x, Draws(store, q, x)
  PROVE  x \in Upstream(store, p)
<1> DEFINE N == Cardinality(Products)
<1>1. N \in Nat /\ N <= Longest /\ Longest \in Nat /\ Layers(store, p)[N] = {}
  BY Sizes DEF Longest, Cyclic
<1>2. PICK n \in 0 .. N : q \in Layers(store, p)[n]
  <2>1. CASE q = p
    BY <1>1, <2>1, LayersDef
  <2>2. CASE q # p
    <3>1. PICK n \in 1 .. N : q \in Layers(store, p)[n]
      BY <2>2 DEF Graph, Upstream
    <3> QED
      BY <1>1, <3>1
  <2> QED
    BY <2>1, <2>2
<1>3. n # N
  BY <1>1, <1>2
<1>4. n \in 0 .. Longest /\ n + 1 <= Longest /\ n + 1 \in 1 .. N
  BY <1>1, <1>2, <1>3
<1>5. x \in Layers(store, p)[n + 1]
  BY <1>2, <1>4, NextLayer
<1> QED
  BY <1>4, <1>5 DEF Upstream


(* A producer declared alike satisfies the same inputs. *)
LEMMA SatisfiesAlike ==
  ASSUME NEW a, NEW b, a.spec = b.spec, NEW port
  PROVE  Satisfies(a, port) <=> Satisfies(b, port)
  BY DEF Satisfies

(* What composition means for p is decided by what lies below it, and what *)
(* it means that p's own status cannot change.                             *)
LEMMA AlikeVerdict ==
  ASSUME NEW c \in Stores, NEW d \in Stores, NEW p \in Products,
         \A x \in Graph(c, p) : Alike(c, d, x),
         \A x \in Upstream(c, p) : x = p \/ d[x] = c[x]
  PROVE  CompositionHolds(d, p) <=> CompositionHolds(c, p)
<1>1. /\ Upstream(d, p) = Upstream(c, p) /\ Graph(d, p) = Graph(c, p)
      /\ Cyclic(d, p) <=> Cyclic(c, p)
      /\ \A n \in 0 .. Cardinality(Products) : Layers(d, p)[n] = Layers(c, p)[n]
  BY LayersAlike
<1>2. CASE Cyclic(c, p)
  BY <1>1, <1>2 DEF CompositionHolds
<1>3. CASE ~Cyclic(c, p)
  <2>1. Graph(c, p) \subseteq Products /\ Upstream(c, p) \subseteq Products
    BY LayersInside
  <2>2. \A q \in Graph(c, p) : InputsOf(d, q) = InputsOf(c, q)
    BY AlikeInputs
  <2>3. \A q \in Graph(c, p) : \A x : Draws(c, q, x) => x \in Upstream(c, p) /\ Alike(c, d, x)
    BY <1>3, DrawnUpstream DEF Graph
  <2>4. EdgeCount(d, p) = EdgeCount(c, p)
    BY <1>1, <2>2 DEF EdgeCount
  <2>5. Layers(d, p)[MaxDepth] = Layers(c, p)[MaxDepth]
    <3>1. CASE MaxDepth <= Cardinality(Products)
      <4>1. MaxDepth \in 0 .. Cardinality(Products)
        BY <3>1, Sizes
      <4> QED
        BY <1>1, <4>1
    <3>2. CASE ~(MaxDepth <= Cardinality(Products))
      <4>1. /\ Cardinality(Products) \in 0 .. Longest /\ MaxDepth \in 0 .. Longest
            /\ Cardinality(Products) <= MaxDepth
        BY <3>2, Sizes DEF Longest
      <4>2. Layers(c, p)[Cardinality(Products)] = {} /\ Layers(d, p)[Cardinality(Products)] = {}
        BY <1>1, <1>3 DEF Cyclic
      <4>3. Layers(c, p)[MaxDepth] = {} /\ Layers(d, p)[MaxDepth] = {}
        BY <4>1, <4>2, EmptyBelow
      <4> QED
        BY <4>3
    <3> QED
      BY <3>1, <3>2
  <2>6. WithinLimits(d, p) <=> WithinLimits(c, p)
    BY <1>1, <2>4, <2>5 DEF WithinLimits
  <2>7. ContractsHold(d, p) <=> ContractsHold(c, p)
    <3>1. \A q \in Graph(c, p) : \A i \in DOMAIN InputsOf(c, q) :
            LET port == InputsOf(c, q)[i]
            IN  ~port.foreign => /\ (d[port.ref] # None <=> c[port.ref] # None)
                                 /\ c[port.ref] # None =>
                                      (Satisfies(d[port.ref], port) <=> Satisfies(c[port.ref], port))
      <4> SUFFICES ASSUME NEW q \in Graph(c, p), NEW i \in DOMAIN InputsOf(c, q), ~InputsOf(c, q)[i].foreign
                   PROVE  LET port == InputsOf(c, q)[i]
                          IN  /\ (d[port.ref] # None <=> c[port.ref] # None)
                              /\ c[port.ref] # None =>
                                   (Satisfies(d[port.ref], port) <=> Satisfies(c[port.ref], port))
        OBVIOUS
      <4>1. Draws(c, q, InputsOf(c, q)[i].ref)
        BY DEF Draws
      <4>2. Alike(c, d, InputsOf(c, q)[i].ref)
        BY <2>3, <4>1
      <4> QED
        BY <4>2, SatisfiesAlike DEF Alike
    <3> QED
      BY <1>1, <2>2, <3>1 DEF ContractsHold
  <2>8. p \notin Upstream(c, p)
    BY <1>3, SelfUpstream
  <2>9. (\A q \in Upstream(d, p) : producerReady(d[q])) <=> (\A q \in Upstream(c, p) : producerReady(c[q]))
    BY <1>1, <2>8
  <2>10. LineageFits(d, p) <=> LineageFits(c, p)
    <3>1. p \in Graph(c, p) /\ InputsOf(d, p) = InputsOf(c, p)
      BY <2>2 DEF Graph
    <3>2. \A x : Draws(d, p, x) <=> Draws(c, p, x)
      BY <3>1, AlikeInputs
    <3>3. \A x \in Products : Draws(c, p, x) /\ c[x] # None => d[x] # None /\ d[x].spec = c[x].spec
      BY <2>3, <3>1 DEF Alike
    <3>4. \A x \in Products : Draws(d, p, x) /\ d[x] # None => c[x] # None /\ c[x].spec = d[x].spec
      BY <2>3, <3>1, <3>2 DEF Alike
    <3>5. LineageFits(d, p) => LineageFits(c, p)
      BY <3>1, <3>3, FitsLess
    <3>6. LineageFits(c, p) => LineageFits(d, p)
      BY <3>1, <3>4, FitsLess
    <3> QED
      BY <3>5, <3>6
  <2> QED
    BY <1>1, <2>6, <2>7, <2>9, <2>10 DEF CompositionHolds
<1> QED
  BY <1>2, <1>3

(* Reading on cures neither a cycle nor an exceeded limit. *)
LEMMA LimitsGrow ==
  ASSUME NEW c \in Stores, NEW d \in Stores, NEW p \in Products,
         \A q \in Products : c[q] # None => d[q] = c[q]
  PROVE  /\ Upstream(c, p) \subseteq Upstream(d, p) /\ Graph(c, p) \subseteq Graph(d, p)
         /\ Cyclic(c, p) => Cyclic(d, p)
         /\ WithinLimits(d, p) => WithinLimits(c, p)
<1>1. Local(c)
  BY StoreTyped DEF Local
<1>2. Upstream(c, p) \subseteq Upstream(d, p) /\ Graph(c, p) \subseteq Graph(d, p)
  BY <1>1, GraphGrows
<1>3. \A n \in 0 .. Longest : Layers(c, p)[n] \subseteq Layers(d, p)[n]
  BY <1>1, LayersGrow
<1>4. Cardinality(Products) \in 0 .. Longest /\ MaxDepth \in 0 .. Longest
  BY Sizes DEF Longest
<1>5. Cyclic(c, p) => Cyclic(d, p)
  BY <1>3, <1>4 DEF Cyclic
<1>6. WithinLimits(d, p) => WithinLimits(c, p)
  <2>1. Graph(c, p) \subseteq Products /\ Graph(d, p) \subseteq Products
    BY LayersInside
  <2>2. IsFiniteSet(Graph(d, p))
    BY <2>1, NamespaceAssumption, FS_Subset
  <2>3. /\ Cardinality(Graph(c, p)) \in Nat /\ Cardinality(Graph(d, p)) \in Nat
        /\ Cardinality(Graph(c, p)) <= Cardinality(Graph(d, p))
    BY <1>2, <2>2, FS_Subset, FS_CardinalityType
  <2>4. EdgeSet(c, Graph(c, p)) \subseteq EdgeSet(d, Graph(d, p))
    <3>1. \A q \in Graph(c, p) : DOMAIN InputsOf(c, q) \subseteq DOMAIN InputsOf(d, q)
      <4> SUFFICES ASSUME NEW q \in Graph(c, p) PROVE DOMAIN InputsOf(c, q) \subseteq DOMAIN InputsOf(d, q)
        OBVIOUS
      <4>1. CASE c[q] = None
        BY <4>1 DEF InputsOf
      <4>2. CASE c[q] # None
        BY <2>1, <4>2 DEF InputsOf
      <4> QED
        BY <4>1, <4>2
    <3> QED
      BY <1>2, <3>1 DEF EdgeSet
  <2>5. IsFiniteSet(EdgeSet(d, Graph(d, p)))
    BY <2>1, EdgesFinite
  <2>6. /\ Cardinality(EdgeSet(c, Graph(c, p))) \in Nat /\ Cardinality(EdgeSet(d, Graph(d, p))) \in Nat
        /\ Cardinality(EdgeSet(c, Graph(c, p))) <= Cardinality(EdgeSet(d, Graph(d, p)))
    BY <2>4, <2>5, FS_Subset, FS_CardinalityType
  <2>7. EdgeCount(c, p) = Cardinality(EdgeSet(c, Graph(c, p))) /\ EdgeCount(d, p) = Cardinality(EdgeSet(d, Graph(d, p)))
    BY DEF EdgeCount, EdgeSet
  <2>8. EdgeCount(d, p) <= MaxEdges => EdgeCount(c, p) <= MaxEdges
    BY <2>6, <2>7, LimitsAssumption
  <2>9. Cardinality(Graph(d, p)) <= MaxProducts => Cardinality(Graph(c, p)) <= MaxProducts
    BY <2>3, LimitsAssumption
  <2>10. Layers(d, p)[MaxDepth] = {} => Layers(c, p)[MaxDepth] = {}
    BY <1>3, <1>4
  <2> QED
    BY <2>8, <2>9, <2>10 DEF WithinLimits
<1> QED
  BY <1>2, <1>5, <1>6


(* A store in which everything the walk read is as it was read, and what   *)
(* it missed is missing.                                                   *)
Agrees(g, store) ==
  /\ \A q \in Loaded(g) : store[q] = g.products[q]
  /\ \A q \in g.missing : store[q] = None

(* The judgement of a walk that no read failed in is right for every store *)
(* that agrees with what was read, though it knows only a part of it.      *)
LEMMA JudgementStands ==
  ASSUME NEW g \in Graphs, NEW t \in Products, g.products[t] # None, Kept(g, t),
         NEW store \in Stores, Agrees(g, store),
         NEW o, Judgement(g, t, o), ~o.err
  PROVE  o.reason = "" <=> CompositionHolds(store, t)
<1> DEFINE st == g.products
<1>1. st \in Stores /\ \A q \in Products : st[q] # None => store[q] = st[q]
  BY DEF Graphs, Stores, Agrees, Loaded
<1>2. /\ Upstream(st, t) \subseteq Upstream(store, t) /\ Graph(st, t) \subseteq Graph(store, t)
      /\ Cyclic(st, t) => Cyclic(store, t)
      /\ WithinLimits(store, t) => WithinLimits(st, t)
  <2> HIDE DEF st
  <2> QED
    BY <1>1, LimitsGrow
<1>3. Graph(st, t) \subseteq Products /\ Upstream(st, t) \subseteq Products
  <2> HIDE DEF st
  <2> QED
    BY <1>1, LayersInside
<1>4. CASE o.reason = "" /\ CompositionHolds(st, t)
  <2>1. \A x \in Graph(st, t) : st[x] # None
    BY <1>4, NothingMissing DEF CompositionHolds, Graph
  <2>2. \A x \in Graph(st, t) : store[x] = st[x]
    BY <1>1, <1>3, <2>1
  <2> HIDE DEF st
  <2>3. /\ \A x \in Graph(st, t) : Alike(st, store, x)
        /\ \A x \in Upstream(st, t) : x = t \/ store[x] = st[x]
    BY <2>2 DEF Alike, Graph
  <2> QED
    BY <1>1, <1>4, <2>3, AlikeVerdict
<1>5. CASE o.reason = "CompositionLimitExceeded" /\ ~LineageFits(st, t)
  <2>1. InputsOf(store, t) = InputsOf(st, t)
    BY <1>1 DEF InputsOf
  <2>2. \A x \in Products : Draws(st, t, x) /\ st[x] # None => store[x] # None /\ store[x].spec = st[x].spec
    BY <1>1
  <2> HIDE DEF st
  <2>3. ~LineageFits(store, t)
    BY <1>1, <1>5, <2>1, <2>2, FitsLess
  <2> QED
    BY <1>5, <2>3 DEF CompositionHolds
<1>6. CASE o.reason # "" /\ Defect(g, t, o)
  <2>1. CASE o.reason = "DependencyCycle" /\ Cyclic(st, t)
    BY <1>2, <2>1 DEF CompositionHolds
  <2>2. CASE o.reason = "CompositionLimitExceeded" /\ ~WithinLimits(st, t)
    BY <1>2, <2>2 DEF CompositionHolds
  <2>3. CASE o.reason = "DependencyNotFound" /\ g.missing # {}
    <3>1. PICK x \in g.missing : TRUE
      BY <2>3
    <3>2. x \in Upstream(store, t) /\ store[x] = None
      BY <1>2, <3>1 DEF Kept, Reached, Agrees
    <3>3. ~ContractsHold(store, t)
      BY <3>2, NothingMissing
    <3> QED
      BY <2>3, <3>3 DEF CompositionHolds
  <2>4. CASE /\ o.reason \in {"CrossNamespaceDependencyDenied", "OutputNotFound", "ContractIncompatible"}
             /\ Broken(g, t)
    <3>1. PICK q \in Graph(st, t) : \E i \in DOMAIN InputsOf(st, q) :
            LET port == InputsOf(st, q)[i]
            IN  port.foreign \/ (st[port.ref] # None /\ ~Satisfies(st[port.ref], port))
      BY <2>4 DEF Broken
    <3>2. PICK i \in DOMAIN InputsOf(st, q) :
            LET port == InputsOf(st, q)[i]
            IN  port.foreign \/ (st[port.ref] # None /\ ~Satisfies(st[port.ref], port))
      BY <3>1
    <3> DEFINE port == InputsOf(st, q)[i]
    <3>3. q \in Products /\ q \in Graph(store, t)
      BY <1>2, <1>3
    <3>4. st[q] # None
      BY <3>2 DEF InputsOf
    <3>5. InputsOf(store, q) = InputsOf(st, q)
      BY <1>1, <3>3, <3>4 DEF InputsOf
    <3>6. port.ref \in Products
      <4> HIDE DEF st
      <4> QED
        BY <1>1, <3>3, StoreTyped
    <3>7. port.foreign \/ ~Satisfies(store[port.ref], port)
      BY <1>1, <3>2, <3>6
    <3> HIDE DEF st
    <3>8. ~ContractsHold(store, t)
      BY <3>3, <3>5, <3>7 DEF ContractsHold
    <3> QED
      BY <2>4, <3>8 DEF CompositionHolds
  <2> QED
    BY <1>6, <2>1, <2>2, <2>3, <2>4 DEF Defect
<1>7. CASE /\ o.reason = "DependencyNotReady" /\ ContractsHold(st, t)
           /\ \E q \in Upstream(st, t) : ~producerReady(st[q])
  <2>1. PICK q \in Upstream(st, t) : ~producerReady(st[q])
    BY <1>7
  <2>2. st[q] # None
    BY <1>7, NothingMissing
  <2>3. q \in Upstream(store, t) /\ ~producerReady(store[q])
    BY <1>1, <1>2, <1>3, <2>1, <2>2
  <2> QED
    BY <1>7, <2>3 DEF CompositionHolds
<1> QED
  BY <1>4, <1>5, <1>6, <1>7 DEF Judgement

(* For a store in which only the status of t differs from what was read. *)
LEMMA JudgementHolds ==
  ASSUME NEW g \in Graphs, NEW t \in Products, g.products[t] # None, Kept(g, t),
         NEW store \in Stores, Alike(g.products, store, t),
         Agrees(g, [store EXCEPT ![t] = g.products[t]]),
         NEW o, Judgement(g, t, o), ~o.err
  PROVE  o.reason = "" <=> CompositionHolds(store, t)
<1> DEFINE own == [store EXCEPT ![t] = g.products[t]]
<1>1. own \in Stores
  BY DEF Stores, Graphs
<1>2. o.reason = "" <=> CompositionHolds(own, t)
  BY <1>1, JudgementStands
<1>3. \A x \in Products : x = t \/ store[x] = own[x]
  BY DEF Stores
<1>4. own[t] = g.products[t]
  BY DEF Stores
<1> HIDE DEF own
<1>5. \A x \in Products : Alike(own, store, x)
  BY <1>3, <1>4 DEF Alike
<1>6. Graph(own, t) \subseteq Products /\ Upstream(own, t) \subseteq Products
  BY <1>1, LayersInside
<1>7. CompositionHolds(store, t) <=> CompositionHolds(own, t)
  BY <1>1, <1>3, <1>5, <1>6, AlikeVerdict
<1> QED
  BY <1>2, <1>7

(* What a step of visit adds to the graph comes from the cache. *)
LEMMA VisitReads ==
  ASSUME graph \in Graphs, stack \in Seq(Frames), visit
  PROVE  /\ \A q \in Products : \/ graph'.products[q] = graph.products[q]
                                \/ graph.products[q] = None /\ graph'.products[q] = cache[q]
         /\ \A q \in graph'.missing : q \in graph.missing \/ (graph.products[q] = None /\ cache[q] = None)
<1>1. graph.products \in [Products -> Objects \cup {None}]
  BY DEF Graphs
<1>2. ASSUME NEW g, g.products = graph.products, g.missing = graph.missing, g \in Graphs,
             NEW s, NEW key, Returned(g, s, key)
      PROVE  graph'.products = graph.products /\ graph'.missing = graph.missing
  <2>1. \/ graph' = g
        \/ \E height, unready : graph' = [g EXCEPT !.heights[s[Len(s)].key] = height,
                                        !.notReady = IF @ = None /\ unready THEN key ELSE @]
    BY <1>2 DEF Returned, ReturnedWith
  <2> QED
    BY <1>2, <2>1 DEF Graphs
<1>3. CASE VisitForeign \/ VisitTooMany \/ VisitUnavailable \/ VisitCycle
  BY <1>3 DEF VisitForeign, VisitTooMany, VisitUnavailable, VisitCycle
<1>4. CASE VisitMissing
  <2>1. /\ graph' = [graph EXCEPT !.missing = @ \cup {input.ref}]
        /\ graph.products[input.ref] = None /\ cache[input.ref] = None
    BY <1>4 DEF VisitMissing, producer
  <2>2. graph'.products = graph.products /\ graph'.missing = graph.missing \cup {input.ref}
    BY <2>1 DEF Graphs
  <2> QED
    BY <2>1, <2>2
<1>5. CASE VisitAgain
  BY <1>2, <1>5 DEF VisitAgain
<1>6. CASE VisitNew
  <2>1. graph' = read \/ graph' = [read EXCEPT !.edges = @ + Len(read.products[input.ref].spec.inputs)]
    BY <1>6 DEF VisitNew, Enter, EnterUnless
  <2>2. /\ read.products = [graph.products EXCEPT ![input.ref] = producer]
        /\ read.missing = graph.missing
    BY DEF read, Graphs
  <2>3. graph'.products = read.products /\ graph'.missing = read.missing
    BY <2>1 DEF read, Graphs
  <2>4. producer = graph.products[input.ref] \/ (graph.products[input.ref] = None /\ producer = cache[input.ref])
    BY DEF producer
  <2> QED
    BY <1>1, <2>2, <2>3, <2>4
<1>7. CASE Return
  <2> DEFINE g == [graph EXCEPT !.visited = @ \cup {frame.key}]
  <2>1. g.products = graph.products /\ g.missing = graph.missing
    BY DEF Graphs
  <2>2. graph' = g \/ \E s, key : Returned(g, s, key)
    BY <1>7 DEF Return
  <2>3. g \in Graphs
    <3>1. stack # <<>>
      BY <1>7 DEF Return, active
    <3>2. Len(stack) \in DOMAIN stack
      BY <3>1
    <3>3. frame.key \in Products
      BY <3>2, FramesTyped DEF frame
    <3> QED
      BY <3>3 DEF Graphs
  <2> HIDE DEF g
  <2> QED
    BY <1>2, <2>1, <2>2, <2>3
<1> QED
  BY <1>3, <1>4, <1>5, <1>6, <1>7 DEF visit

==============================================================================
