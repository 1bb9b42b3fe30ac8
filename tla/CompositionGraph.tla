-------------------------- MODULE CompositionGraph --------------------------
(***************************************************************************)
(* observeComposition with the depth-first walk compositionGraph.visit     *)
(* (internal/controller/composition.go).  The recursion is an explicit     *)
(* stack; a step is one iteration of visit's loop over the inputs, with    *)
(* the cached Get it may make, or one return.  The cache belongs to the    *)
(* informer and may change between two Gets, so the walk sees a torn       *)
(* snapshot, each product read at most once.                               *)
(***************************************************************************)
EXTENDS DependencyGraphs

VARIABLES
  cache,        \* the informer's store: [Products -> Objects or None]
  reachable,    \* external: reads answer before their deadline
  target,       \* key of the product being reconciled
  product,      \* the reconciler's working copy of it
  pc,           \* where its reconciliation stands
  graph,        \* the fields of compositionGraph
  stack,        \* the active visits: [key, next], the root first
  observation   \* what visit returned: [reason, err]

walkVars == <<graph, stack, observation>>

Graphs == [products : [Products -> Objects \cup {None}], visited : SUBSET Products,
           heights : [Products -> Nat], missing : SUBSET Products,
           notReady : Products \cup {None}, edges : Nat]

Frames == [key : Products, next : Nat \ {0}]

Observations == [reason : Reasons, err : BOOLEAN]

NoObservation == [reason |-> "", err |-> FALSE]

(* Mutant: heights counted from the wrong end. *)
EmptyGraph_HeightMinusOne ==
  [products |-> [p \in Products |-> None], visited |-> {},
   heights |-> [p \in Products |-> -1], missing |-> {}, notReady |-> None, edges |-> 0]

EmptyGraph == [products |-> [p \in Products |-> None], visited |-> {},
               heights |-> [p \in Products |-> 0], missing |-> {},
               notReady |-> None, edges |-> 0]

visiting == {stack[i].key : i \in DOMAIN stack}

Loaded(g) == {p \in Products : g.products[p] # None}

compositionLimit == "CompositionLimitExceeded"

(* A failure unwinds the whole recursion. *)
Stop(reason, err) ==
  /\ observation' = [reason |-> reason, err |-> err]
  /\ stack' = <<>>
  /\ pc' = "lineage"

(* visit of a product not seen before, unless a limit is reached. *)
EnterUnless(full, g, s, key) ==
  \/ full /\ graph' = g /\ Stop(compositionLimit, FALSE)
  \/ /\ ~full
     /\ graph' = [g EXCEPT !.edges = @ + Len(g.products[key].spec.inputs)]
     /\ stack' = Append(s, [key |-> key, next |-> 1])
     /\ pc' = "visit"
     /\ observation' = NoObservation

(* Mutant: the budget of edges is checked per product, not for the graph. *)
Enter_BudgetPerProduct(g, s, key, depth) ==
  EnterUnless(depth >= MaxDepth \/ Len(g.products[key].spec.inputs) > MaxEdges, g, s, key)

(* The entry of visit for a product that is neither active nor visited. *)
Enter(g, s, key, depth) ==
  EnterUnless(\/ depth >= MaxDepth
              \/ Len(g.products[key].spec.inputs) > MaxEdges - g.edges, g, s, key)

Taller(g, key, child) ==
  IF g.heights[key] > g.heights[child] THEN g.heights[key] ELSE 1 + g.heights[child]

(* The rest of the loop body once the visit of producer key came back      *)
(* without a failure to the consumer on top of s.                          *)
ReturnedWith(g, s, key, height, unready) ==
  LET top == s[Len(s)]
      reason == inputCompatibility(g.products[top.key].spec.inputs[top.next], g.products[key])
  IN  \/ reason # "" /\ graph' = g /\ Stop(reason, FALSE)
      \/ /\ reason = ""
         /\ graph' = [g EXCEPT !.heights[top.key] = height,
                               !.notReady = IF @ = None /\ unready THEN key ELSE @]
         /\ stack' = [s EXCEPT ![Len(s)].next = @ + 1]
         /\ pc' = "visit"
         /\ UNCHANGED observation

(* Mutant: the last input's height overwrites the greatest. *)
Returned_LastHeight(g, s, key) ==
  ReturnedWith(g, s, key, 1 + g.heights[key], ~producerReady(g.products[key]))

Returned(g, s, key) ==
  ReturnedWith(g, s, key, Taller(g, s[Len(s)].key, key), ~producerReady(g.products[key]))

frame == stack[Len(stack)]
inputs == graph.products[frame.key].spec.inputs
active == pc = "visit" /\ stack # <<>>
pending == active /\ frame.next <= Len(inputs)
input == inputs[frame.next]

(* The object the reference leads to: the one already read, or the cache's. *)
producer == IF graph.products[input.ref] # None THEN graph.products[input.ref]
            ELSE cache[input.ref]
mayRead == graph.products[input.ref] # None \/ Cardinality(Loaded(graph)) < MaxProducts
read == [graph EXCEPT !.products[input.ref] = producer]
resolves == pending /\ ~input.foreign /\ mayRead /\ producer # None

VisitForeign ==
  /\ pending /\ input.foreign
  /\ Stop("CrossNamespaceDependencyDenied", FALSE)
  /\ UNCHANGED graph

VisitTooMany ==
  /\ pending /\ ~input.foreign /\ ~mayRead
  /\ Stop(compositionLimit, FALSE)
  /\ UNCHANGED graph

(* Mutant: a missing producer is waited for. *)
VisitMissing_Waits ==
  /\ pending /\ ~input.foreign /\ mayRead /\ producer = None
  /\ UNCHANGED <<walkVars, pc>>

VisitMissing ==
  /\ pending /\ ~input.foreign /\ mayRead /\ producer = None
  /\ Stop("DependencyNotFound", FALSE)
  /\ graph' = [graph EXCEPT !.missing = @ \cup {input.ref}]

(* The Get fails, or the five-second context has expired. *)
VisitUnavailable ==
  /\ pending /\ ~input.foreign /\ mayRead /\ ~reachable
  /\ Stop("DependencyUnavailable", TRUE)
  /\ UNCHANGED graph

VisitCycle ==
  /\ resolves /\ input.ref \in visiting
  /\ Stop("DependencyCycle", FALSE)
  /\ UNCHANGED graph

(* Mutant: a shared producer is accepted at any depth. *)
VisitAgain_AnyDepth ==
  /\ resolves /\ input.ref \notin visiting /\ input.ref \in graph.visited
  /\ Returned(graph, stack, input.ref)

VisitAgain ==
  /\ resolves /\ input.ref \notin visiting /\ input.ref \in graph.visited
  /\ \/ /\ Len(stack) + graph.heights[input.ref] >= MaxDepth
        /\ Stop(compositionLimit, FALSE)
        /\ UNCHANGED graph
     \/ /\ Len(stack) + graph.heights[input.ref] < MaxDepth
        /\ Returned(graph, stack, input.ref)

VisitNew ==
  /\ resolves /\ input.ref \notin visiting /\ input.ref \notin graph.visited
  /\ Enter(read, stack, input.ref, Len(stack))

(* visit of the top product ends: to its consumer, or out of the walk. *)
Return ==
  /\ active /\ frame.next > Len(inputs)
  /\ LET g == [graph EXCEPT !.visited = @ \cup {frame.key}]
         rest == SubSeq(stack, 1, Len(stack) - 1)
     IN  \/ /\ rest = <<>>
            /\ graph' = g /\ stack' = <<>> /\ pc' = "lineage"
            /\ UNCHANGED observation
         \/ rest # <<>> /\ Returned(g, rest, frame.key)

visit ==
  /\ \/ VisitForeign \/ VisitTooMany \/ VisitMissing \/ VisitUnavailable
     \/ VisitCycle \/ VisitAgain \/ VisitNew \/ Return
  /\ UNCHANGED <<cache, reachable, target, product>>

-----------------------------------------------------------------------------
(* After the walk: the direct inputs, from the snapshot it left behind.    *)

inputStatus(port) ==
  LET source == IF port.foreign THEN None ELSE graph.products[port.ref]
      mismatch == inputCompatibility(port, source)
      reason == IF port.foreign THEN "CrossNamespaceDependencyDenied"
                ELSE IF source = None
                THEN IF port.ref \in graph.missing THEN "DependencyNotFound"
                     ELSE "DependencyUnobserved"
                ELSE IF mismatch # "" THEN mismatch
                ELSE IF producerReady(source) THEN "InputReady" ELSE "DependencyNotReady"
  IN  [name |-> port.name, ref |-> port.ref, foreign |-> port.foreign, output |-> port.output,
       ready |-> reason = "InputReady", reason |-> reason,
       observedGeneration |-> IF source = None THEN 0 ELSE source.generation]

lineageTooLarge ==
  Len(product.spec.inputs) <= MaxEdges /\ ~LineageFits(graph.products, target)

(* Status.Inputs: one entry per input, or none when there is no room. *)
lineage ==
  IF Len(product.spec.inputs) <= MaxEdges /\ ~lineageTooLarge
  THEN {inputStatus(product.spec.inputs[i]) : i \in DOMAIN product.spec.inputs} ELSE {}

(* Mutant: an unready producer hides what visit found. *)
compositionObservation_ReadinessFirst ==
  IF lineageTooLarge THEN [reason |-> compositionLimit, err |-> FALSE]
  ELSE IF graph.notReady # None THEN [reason |-> "DependencyNotReady", err |-> FALSE]
  ELSE observation

(* An oversized lineage replaces what visit returned; an unready producer  *)
(* counts only when visit found no failure.                                *)
compositionObservation ==
  LET unready == {entry \in lineage : ~entry.ready}
      first == CHOOSE entry \in unready : \A other \in unready : entry.name <= other.name
  IN  IF lineageTooLarge THEN [reason |-> compositionLimit, err |-> FALSE]
      ELSE IF observation.reason # "" THEN observation
      ELSE IF graph.notReady # None THEN [reason |-> "DependencyNotReady", err |-> FALSE]
      ELSE IF unready # {}
           THEN [reason |-> first.reason, err |-> FALSE]
           ELSE NoObservation

setCompositionCondition(status, reason) ==
  [status EXCEPT !.composition =
     IF reason = "" THEN Condition(TRUE, "CompositionVerified", product.generation)
     ELSE Condition(FALSE, reason, product.generation)]

(* observeComposition of a product with inputs while the feature is on.    *)
BeginComposition ==
  /\ Enter([EmptyGraph EXCEPT !.products[target] = product], <<>>, target, 0)
  /\ UNCHANGED <<cache, reachable, target, product>>

(* The product with the condition and the lineage of the finished walk. *)
Composed ==
  [product EXCEPT !.status =
     [setCompositionCondition(@, compositionObservation.reason)
        EXCEPT !.inputs = lineage]]

=============================================================================
