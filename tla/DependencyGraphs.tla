-------------------------- MODULE DependencyGraphs --------------------------
(***************************************************************************)
(* What a verified composition means, stated on a store of objects without *)
(* any traversal: the reference the walk of CompositionGraph and the       *)
(* readiness the reconciler settles on are compared with.                  *)
(***************************************************************************)
EXTENDS DataProducts

CONSTANTS MaxProducts, MaxEdges, MaxDepth, MaxLineageBytes

ASSUME LimitsAssumption == /\ MaxProducts \in Nat \ {0} /\ MaxEdges \in Nat \ {0}
                           /\ MaxDepth \in Nat \ {0} /\ MaxLineageBytes \in Nat \ {0}

ASSUME NamespaceAssumption == IsFiniteSet(Products)

InputsOf(store, p) == IF store[p] = None THEN <<>> ELSE store[p].spec.inputs

(* The producers the products of S name inside the namespace. *)
Producers(store, S) ==
  UNION {{InputsOf(store, p)[i].ref :
            i \in {j \in DOMAIN InputsOf(store, p) : ~InputsOf(store, p)[j].foreign}} : p \in S}

(* Layer n: the products at the end of some path of n inputs from p. *)
Layers(store, p) ==
  LET layer[n \in 0 .. Cardinality(Products) + MaxDepth] ==
        IF n = 0 THEN {p} ELSE Producers(store, layer[n - 1])
  IN  layer

Upstream(store, p) == UNION {Layers(store, p)[n] : n \in 1 .. Cardinality(Products)}

Graph(store, p) == {p} \cup Upstream(store, p)

(* A path longer than the number of products repeats one. *)
Cyclic(store, p) == Layers(store, p)[Cardinality(Products)] # {}

EdgeCount(store, p) ==
  LET S == Graph(store, p)
  IN  Cardinality({e \in S \X (1 .. MaxEdges + 1) : e[2] \in DOMAIN InputsOf(store, e[1])})

WithinLimits(store, p) ==
  /\ Cardinality(Graph(store, p)) <= MaxProducts
  /\ EdgeCount(store, p) <= MaxEdges
  /\ Layers(store, p)[MaxDepth] = {}

(* Version v meets a required minimum: a stable release of the same major,  *)
(* no older, and before version one the very same.                         *)
Meets(v, minimum) ==
  /\ {v, minimum} \cap {Unstable} = {}
  /\ IF minimum.major = 0 THEN v = minimum
     ELSE v.major = minimum.major /\ ~(v.rest < minimum.rest)

Satisfies(object, input) ==
  \E i \in DOMAIN object.spec.outputs :
    /\ object.spec.outputs[i].name = input.output
    /\ input.contract # None => /\ object.spec.outputs[i].protocol = input.contract.protocol
                                /\ Meets(object.spec.version, input.contract.minimumVersion)

(* Every input of the graph is local, resolved and compatible. *)
ContractsHold(store, p) ==
  \A q \in Graph(store, p) : \A i \in DOMAIN InputsOf(store, q) :
    LET input == InputsOf(store, q)[i]
    IN  /\ ~input.foreign
        /\ store[input.ref] # None
        /\ Satisfies(store[input.ref], input)

LineageFits(store, p) ==
  LET inputs == InputsOf(store, p)
      bytes[n \in 0 .. Len(inputs)] ==
        IF n = 0 THEN 0
        ELSE bytes[n - 1] + 1 +
             IF inputs[n].foreign \/ store[inputs[n].ref] = None THEN 0
             ELSE store[inputs[n].ref].spec.size
  IN  bytes[Len(inputs)] <= MaxLineageBytes

(* The whole graph below p may be relied on. *)
CompositionHolds(store, p) ==
  /\ ~Cyclic(store, p)
  /\ WithinLimits(store, p)
  /\ ContractsHold(store, p)
  /\ \A q \in Upstream(store, p) : producerReady(store[q])
  /\ LineageFits(store, p)

=============================================================================
