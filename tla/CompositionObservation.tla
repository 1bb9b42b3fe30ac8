----------------------- MODULE CompositionObservation -----------------------
(***************************************************************************)
(* One call of observeComposition, alone with the informer: the walk of    *)
(* CompositionGraph runs while the cached objects change under it and the  *)
(* API may stop and start answering.                                       *)
(***************************************************************************)
EXTENDS CompositionGraph

CONSTANT Worlds   \* what may surround one call, see world

VARIABLE
  world   \* held: what each name may stand for while the call runs;
          \* outages: whether reads may fail

vars == <<world, cache, reachable, target, product, pc, graph, stack, observation>>

ASSUME WorldsAssumption ==
  /\ \A w \in Worlds : w.outages \in BOOLEAN /\ DOMAIN w.held = Products
  /\ \A p \in Products :
       LET held == (UNION {w.held[p] : w \in Worlds}) \ {None}
       IN  held \subseteq Objects /\ {o.spec : o \in held} \subseteq Manifests[p]

Init ==
  /\ world \in Worlds
  /\ cache \in {f \in [Products -> UNION {world.held[p] : p \in Products}] :
                 \A p \in Products : f[p] \in world.held[p]}
  /\ reachable = TRUE
  /\ target \in {p \in Products : InputsOf(cache, p) # <<>>}
  /\ product = cache[target]
  /\ pc = "composition"
  /\ graph = EmptyGraph /\ stack = <<>> /\ observation = NoObservation

Begin == pc = "composition" /\ BeginComposition /\ UNCHANGED world

Visit == visit /\ UNCHANGED world

Record ==
  /\ pc = "lineage"
  /\ product' = Composed
  /\ observation' = compositionObservation
  /\ pc' = "done"
  /\ UNCHANGED <<world, cache, reachable, target, graph, stack>>

(* External: a watch event replaces one cached object. *)
InformerUpdates ==
  /\ \E p \in Products : \E o \in world.held[p] \ {cache[p]} :
       cache' = [cache EXCEPT ![p] = o]
  /\ UNCHANGED <<world, reachable, target, product, pc, graph, stack, observation>>

(* External: from now on a read may fail or time out. *)
ApiFails ==
  /\ world.outages /\ reachable
  /\ reachable' = FALSE
  /\ UNCHANGED <<world, cache, target, product, pc, graph, stack, observation>>

Finished == pc = "done" /\ UNCHANGED vars

Next == Begin \/ Visit \/ Record \/ InformerUpdates \/ ApiFails \/ Finished

(* The goroutine runs on: nothing it does waits for another. *)
Spec == Init /\ [][Next]_vars /\ WF_vars(Begin \/ Visit \/ Record)

-----------------------------------------------------------------------------
(* The walk's records keep their types; a height is never negative.        *)
TypeOK ==
  /\ cache \in [Products -> Objects \cup {None}]
  /\ reachable \in BOOLEAN
  /\ target \in Products
  /\ product \in Objects
  /\ pc \in {"composition", "visit", "lineage", "done"}
  /\ graph \in Graphs /\ stack \in Seq(Frames) /\ observation \in Observations

(* The verdict is exact for the snapshot the walk read, however the cache  *)
(* moved meanwhile: CompositionReady is True only if the graph of those    *)
(* objects is acyclic, within the limits, compatible and ready, and it is  *)
(* True whenever they are, unless a read failed.                           *)
VerdictExact ==
  pc = "done" =>
    /\ product.status.composition.ok => CompositionHolds(graph.products, target)
    /\ ~observation.err /\ CompositionHolds(graph.products, target)
         => product.status.composition.ok

(* The reported reason is a defect the snapshot really has, and an unready *)
(* producer is reported only when structure and contracts are sound        *)
(* ("Structural and contract failures keep precedence").                   *)
ReasonAccurate ==
  pc = "done" =>
    LET reason == product.status.composition.reason
        store == graph.products
    IN  /\ reason = "DependencyCycle" => Cyclic(store, target)
        /\ reason = "CompositionLimitExceeded" =>
             ~WithinLimits(store, target) \/ ~LineageFits(store, target)
        /\ reason = "DependencyNotFound" =>
             graph.missing # {} /\ graph.missing \subseteq Upstream(store, target)
        /\ reason \in {"OutputNotFound", "ContractIncompatible"} => ~ContractsHold(store, target)
        /\ reason = "DependencyNotReady" =>
             /\ ~Cyclic(store, target) /\ WithinLimits(store, target)
             /\ ContractsHold(store, target)

(* heights holds the longest chain below a product whose visit returned,   *)
(* which is what lets a shared producer be accepted without walking it     *)
(* again at a greater depth.                                               *)
HeightsExact ==
  \A q \in graph.visited :
    /\ Layers(graph.products, q)[graph.heights[q]] # {}
    /\ Layers(graph.products, q)[graph.heights[q] + 1] = {}

(* The walk's resources stay within the limits at every step, whatever the *)
(* cache answers.                                                          *)
WalkBounded ==
  /\ Cardinality(Loaded(graph)) <= MaxProducts
  /\ graph.edges <= MaxEdges
  /\ Len(stack) <= MaxDepth
  /\ \A i, j \in DOMAIN stack : i # j => stack[i].key # stack[j].key

(* The call returns, even while the informer keeps replacing objects.      *)
Terminates == <>(pc = "done")

=============================================================================
